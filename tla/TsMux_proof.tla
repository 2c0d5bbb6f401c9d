------------------------------ MODULE TsMux_proof ------------------------------
(***************************************************************************)
(* The muxer of output_ts, for fragments of any size and any failures.     *)
(***************************************************************************)
EXTENDS TsMux, Segmentation_proof

-------------------------------------------------------------------------------
(* The state: types, and what the loop is at. *)

Piece == [sample : Nat, at : Nat, size : Nat]

\* A stream's fields: between the copies of write_audio_packet its payload has
\* room, after one it may be full.
StreamOf(top) ==
    [cc : 0 .. 15, packets : Nat, index : 0 .. top, dts : Nat, pts : Nat, pieces : Seq(Piece)]

TablesRec == [kind : {"tables"}, pat : 0 .. 15, pmt : 0 .. 15, at : Nat, kept : BOOLEAN]
PesRec ==
    [kind : {"pes", "dropped", "lost"}, stream : Nat, dts : Nat, pts : Nat, pieces : Seq(Piece),
     params : BOOLEAN, cc : 0 .. 15, n : Nat \ {0}]

\* The times are so far from NoPts that it stays apart from any that is sent.
TimeFits(s) == s.pts + s.cto + MaxDelay + PatDelta < NoPts

FragmentsType ==
    /\ Len(fragment) \in 1 .. 2
    /\ pc = "convert" => fragment \in Inputs
    /\ \A f \in Fragments :
         /\ IsFragment(fragment[f])
         /\ \A s \in 0 .. fragment[f].size : TimeFits(fragment[f].samples[s])

\* Nothing is done before the times are converted and the bytes are read.
NothingYet ==
    /\ first = [f \in Fragments |-> 0]
    /\ stream = [f \in Fragments |-> NewStream]
    /\ order = 0 /\ sent = <<>>
    /\ mux = [next_pat |-> NoPts, pat_cc |-> 0, pmt_cc |-> 0]

LoopType ==
    /\ first \in [Fragments -> Nat]
    /\ \A f \in Fragments : first[f] <= fragment[f].size
    /\ stream \in [Fragments -> StreamOf(MaxPayload - 1)]
    /\ mux \in [next_pat : Nat, pat_cc : 0 .. 15, pmt_cc : 0 .. 15]
    /\ order \in 0 .. Len(fragment) /\ at \in Nat
    /\ sent \in Seq(TablesRec \cup PesRec)
    /\ \A k \in 1 .. Len(sent) : IsPes(sent[k]) => sent[k].stream \in Fragments
    /\ pc \in {"convert", "read", "choose", "audio", "video", "done", "failed", "crashed"}

\* The sample in hand.
InHand ==
    /\ pc \in {"audio", "video"} => order \in Fragments /\ first[order] < fragment[order].size
    /\ pc = "audio" => IsAudio(order) /\ at <= FrameSize
    /\ pc = "video" => ~ IsAudio(order)

Types ==
    /\ FragmentsType
    /\ LoopType
    /\ InHand
    /\ pc \in {"convert", "read"} => NothingYet

-------------------------------------------------------------------------------
LEMMA Numbers ==
    /\ Clock \in Nat /\ Clock >= 1
    /\ MaxDelay \in Nat /\ PatDelta \in Nat \ {0} /\ AudioDelta \in Nat
    /\ MaxPayload \in Nat \ {0} /\ AdtsSize \in Nat \ {0} /\ AudSize \in Nat /\ MinVideo \in Nat
    /\ AudSize < MinVideo
    /\ NoPts \in Nat /\ ParamsSize \in Nat
BY BoundsAssumption DEF Clock, MaxDelay, PatDelta, AudioDelta, MaxPayload, AdtsSize, AudSize, MinVideo

\* What is known of a fragment and its samples.
LEMMA FragmentIs ==
    ASSUME NEW g, IsFragment(g), NEW s \in 0 .. g.size
    PROVE  /\ g.size \in Nat \ {0} /\ g.timescale \in Nat \ {0} /\ g.kind \in {"vide", "soun"}
           /\ g.samples[s] \in [pts : Nat, cto : Nat, pos : Nat, size : Nat, nal : BOOLEAN]
           /\ g.samples[s].pts \in Nat /\ g.samples[s].cto \in Nat
           /\ g.samples[s].pos \in Nat /\ g.samples[s].size \in Nat
<1>1. g.samples[s] \in [pts : Nat, cto : Nat, pos : Nat, size : Nat, nal : BOOLEAN]
  BY DEF IsFragment, IsSample
<1>2. g.size \in Nat \ {0} /\ g.timescale \in Nat \ {0} /\ g.kind \in {"vide", "soun"}
  BY DEF IsFragment
<1> QED
  BY <1>1, <1>2

\* Times do not decrease over a fragment.
LEMMA TimesGrow ==
    ASSUME NEW g, IsFragment(g), NEW a \in 0 .. g.size, NEW b \in 0 .. g.size, a <= b
    PROVE  g.samples[a].pts <= g.samples[b].pts
<1> DEFINE t(s) == g.samples[s].pts
           bad == {k \in 0 .. g.size : a <= k /\ ~ (t(a) <= t(k))}
<1>1. g.size \in Nat
  BY DEF IsFragment
<1>2. \A s \in 0 .. g.size : t(s) \in Nat
  BY FragmentIs
<1>3. \A s \in 0 .. g.size - 1 : t(s) <= t(s + 1)
  BY DEF IsFragment
<1> SUFFICES ASSUME bad # {} PROVE FALSE
  OBVIOUS
<1> HIDE DEF t
<1>4. PICK m \in bad : \A k \in bad : m <= k
  <2>1. bad \in SUBSET Nat
    BY <1>1
  <2> HIDE DEF bad
  <2> QED
    BY <2>1, LeastNumber
<1>5. m \in 0 .. g.size /\ a <= m /\ ~ (t(a) <= t(m)) /\ m \in Nat /\ a \in Nat
  BY <1>1
<1>6. m # a
  BY <1>2, <1>5
<1>7. m - 1 \in 0 .. g.size - 1 /\ m - 1 \in 0 .. g.size /\ a <= m - 1
  BY <1>1, <1>5, <1>6
<1>8. m - 1 \notin bad
  BY <1>4, <1>5
<1>9. t(a) <= t(m - 1)
  BY <1>7, <1>8
<1>10. t(m - 1) <= t(m - 1 + 1) /\ m - 1 + 1 = m
  BY <1>3, <1>5, <1>7
<1> QED
  BY <1>2, <1>5, <1>7, <1>9, <1>10

\* The conversion keeps the order of the times and their distance to NoPts.
LEMMA ConvertedIs ==
    ASSUME NEW g, IsFragment(g)
    PROVE  /\ IsFragment(Converted(g))
           /\ Converted(g).kind = g.kind /\ Converted(g).size = g.size
           /\ \A s \in 0 .. g.size :
                /\ Converted(g).samples[s].pts = Rescale(g.samples[s].pts, Clock, g.timescale)
                /\ Converted(g).samples[s].cto = Rescale(g.samples[s].cto, Clock, g.timescale)
                /\ Converted(g).samples[s].pos = g.samples[s].pos
                /\ Converted(g).samples[s].size = g.samples[s].size
<1> DEFINE c == Converted(g)
           S == [pts : Nat, cto : Nat, pos : Nat, size : Nat, nal : BOOLEAN]
           new(s) == ConvertedSample(g.samples[s], g.timescale)
<1>1. /\ {"kind", "timescale", "size", "samples"} \subseteq DOMAIN g
      /\ g.size \in Nat \ {0} /\ g.timescale \in Nat \ {0} /\ g.kind \in {"vide", "soun"}
      /\ \A s \in 0 .. g.size : g.samples[s] \in S
  BY DEF IsFragment, IsSample
<1>2. /\ c.kind = g.kind /\ c.size = g.size /\ c.timescale = g.timescale
      /\ c.samples = [s \in 0 .. g.size |-> new(s)]
      /\ DOMAIN c = DOMAIN g
  <2> DEFINE X == [s \in 0 .. g.size |-> new(s)]
  <2>1. c = [g EXCEPT !.samples = X]
    BY DEF Converted
  <2> HIDE DEF c, X
  <2>2. /\ c.kind = g.kind /\ c.size = g.size /\ c.timescale = g.timescale
        /\ c.samples = X /\ DOMAIN c = DOMAIN g
    BY <1>1, <2>1
  <2> QED
    BY <2>2 DEF X
<1> HIDE DEF c
<1>3. \A x \in Nat : Rescale(x, Clock, g.timescale) \in Nat
  BY <1>1, RescaleMonotone, Numbers
<1>4. ASSUME NEW s \in 0 .. g.size
      PROVE  /\ c.samples[s] = new(s) /\ new(s) \in S
             /\ new(s).pts = Rescale(g.samples[s].pts, Clock, g.timescale)
             /\ new(s).cto = Rescale(g.samples[s].cto, Clock, g.timescale)
             /\ new(s).pos = g.samples[s].pos /\ new(s).size = g.samples[s].size
  <2>1. g.samples[s] \in S
    BY <1>1
  <2> QED
    BY <1>2, <1>3, <2>1 DEF ConvertedSample
<1>5. \A s \in 0 .. c.size - 1 : c.samples[s].pts <= c.samples[s + 1].pts
  <2> SUFFICES ASSUME NEW s \in 0 .. g.size - 1
               PROVE  c.samples[s].pts <= c.samples[s + 1].pts
    BY <1>2
  <2>1. s \in 0 .. g.size /\ s + 1 \in 0 .. g.size
    BY <1>1
  <2>2. /\ g.samples[s].pts \in Nat /\ g.samples[s + 1].pts \in Nat
        /\ g.samples[s].pts <= g.samples[s + 1].pts
    BY <2>1, FragmentIs DEF IsFragment
  <2>3. Rescale(g.samples[s].pts, Clock, g.timescale)
          <= Rescale(g.samples[s + 1].pts, Clock, g.timescale)
    BY ONLY <1>1, <2>2, RescaleMonotone, Numbers
  <2>4. /\ c.samples[s].pts = Rescale(g.samples[s].pts, Clock, g.timescale)
        /\ c.samples[s + 1].pts = Rescale(g.samples[s + 1].pts, Clock, g.timescale)
    BY <1>4, <2>1
  <2> QED
    BY <2>3, <2>4
<1>6. DOMAIN c.samples = 0 .. c.size
  BY <1>2
<1>7. \A s \in 0 .. c.size : IsSample(c.samples[s])
  BY <1>2, <1>4 DEF IsSample
<1>8. IsFragment(c)
  BY <1>1, <1>2, <1>5, <1>6, <1>7 DEF IsFragment
<1> QED
  BY <1>2, <1>4, <1>8 DEF c

\* A time in ticks of a timescale is not made larger than by the 90 kHz.
LEMMA RescaleBound ==
    ASSUME NEW x \in Nat, NEW from \in Nat \ {0}
    PROVE  Rescale(x, Clock, from) \in Nat /\ Rescale(x, Clock, from) <= x * Clock
<1>1. x * Clock \in Nat
  BY Numbers
<1>2. \A y \in Nat : y \div from \in Nat /\ y \div from <= y
  OBVIOUS
<1> QED
  BY <1>1, <1>2 DEF Rescale

-------------------------------------------------------------------------------
(* Least and greatest elements. *)

LEMMA MinIs ==
    ASSUME NEW S \in SUBSET Nat, S # {}
    PROVE  Min(S) \in S /\ \A y \in S : Min(S) <= y
BY LeastNumber DEF Min

LEMMA MaxIs ==
    ASSUME NEW S, NEW x \in S, \A y \in S : y <= x
    PROVE  Max(S) \in S /\ \A y \in S : y <= Max(S)
BY DEF Max

\* A set of naturals with a greatest element added.
LEMMA MaxTop ==
    ASSUME NEW n \in Nat, NEW S \in SUBSET (1 .. n)
    PROVE  Max(S \cup {n + 1}) = n + 1
<1> DEFINE T == S \cup {n + 1}
<1>1. n + 1 \in T /\ \A y \in T : y \in Nat /\ y <= n + 1
  OBVIOUS
<1>2. Max(T) \in T /\ \A y \in T : y <= Max(T)
  <2> HIDE DEF T
  <2> QED
    BY <1>1, MaxIs
<1>3. Max(T) \in Nat /\ Max(T) <= n + 1 /\ n + 1 <= Max(T)
  BY <1>1, <1>2
<1> QED
  BY <1>3

\* The greatest of some of the first n places.
LEMMA MaxPlace ==
    ASSUME NEW n \in Nat, NEW S \in SUBSET (1 .. n), S # {}
    PROVE  Max(S) \in S /\ \A y \in S : y <= Max(S)
<1> DEFINE T == {n - y : y \in S}
<1>1. T \in SUBSET Nat /\ T # {}
  <2>1. \A y \in S : n - y \in Nat
    OBVIOUS
  <2>2. PICK y : y \in S
    OBVIOUS
  <2>3. n - y \in T
    BY <2>2
  <2>4. T \in SUBSET Nat
    BY <2>1
  <2> HIDE DEF T
  <2> QED
    BY <2>3, <2>4
<1>2. PICK m \in T : \A k \in T : m <= k
  <2> HIDE DEF T
  <2> QED
    BY <1>1, LeastNumber
<1>3. PICK x \in S : m = n - x
  OBVIOUS
<1>4. \A y \in S : y <= x
  <2> SUFFICES ASSUME NEW y \in S PROVE y <= x
    OBVIOUS
  <2>1. n - y \in T
    OBVIOUS
  <2>2. n - x <= n - y
    BY <1>2, <1>3, <2>1
  <2>3. x \in Nat /\ y \in Nat
    OBVIOUS
  <2> QED
    BY <2>2, <2>3
<1> QED
  BY <1>4, MaxIs

\* The least of two numbers.
LEMMA MinOfTwo ==
    ASSUME NEW x \in Nat, NEW y \in Nat
    PROVE  /\ Min({x, y}) \in Nat
           /\ Min({x, y}) = x \/ Min({x, y}) = y
           /\ Min({x, y}) <= x /\ Min({x, y}) <= y
<1>1. {x, y} \in SUBSET Nat /\ {x, y} # {}
  OBVIOUS
<1> QED
  BY <1>1, MinIs

-------------------------------------------------------------------------------
(* The start. *)

LEMMA NewStreamType == NewStream \in StreamOf(MaxPayload - 1)
<1>1. 0 \in 0 .. 15 /\ 0 \in 0 .. MaxPayload - 1 /\ NoPts \in Nat /\ <<>> \in Seq(Piece)
  BY Numbers
<1> QED
  BY <1>1 DEF NewStream, StreamOf

LEMMA InitTypes == Init => Types
<1> SUFFICES ASSUME Init PROVE Types
  OBVIOUS
<1> USE DEF Init
<1>1. /\ fragment \in Inputs /\ Len(fragment) \in 1 .. 2
      /\ \A f \in Fragments :
           /\ IsFragment(fragment[f])
           /\ \A s \in 0 .. fragment[f].size :
                (fragment[f].samples[s].pts + fragment[f].samples[s].cto) * Clock + MaxDelay + PatDelta
                  < NoPts
  BY InputsAssumption DEF Fragments
<1>2. \A f \in Fragments : \A s \in 0 .. fragment[f].size : TimeFits(fragment[f].samples[s])
  <2> SUFFICES ASSUME NEW f \in Fragments, NEW s \in 0 .. fragment[f].size
               PROVE  TimeFits(fragment[f].samples[s])
    OBVIOUS
  <2>1. fragment[f].samples[s].pts \in Nat /\ fragment[f].samples[s].cto \in Nat
    BY <1>1, FragmentIs
  <2> DEFINE x == fragment[f].samples[s].pts
             y == fragment[f].samples[s].cto
  <2>2. (x + y) * Clock + MaxDelay + PatDelta < NoPts /\ x \in Nat /\ y \in Nat
    BY <1>1, <2>1
  <2> HIDE DEF x, y
  <2>3. x + y <= (x + y) * Clock /\ (x + y) * Clock \in Nat
    BY <2>2 DEF Clock
  <2>4. x + y + MaxDelay + PatDelta < NoPts
    BY <2>2, <2>3, Numbers
  <2> QED
    BY <2>4 DEF TimeFits, x, y
<1>3. FragmentsType
  BY <1>1, <1>2 DEF FragmentsType
<1>4. \A f \in Fragments : fragment[f].size \in Nat
  BY <1>1 DEF IsFragment
<1>5. NothingYet
  BY DEF NothingYet
<1>6. LoopType
  BY <1>1, <1>4, NewStreamType, Numbers DEF LoopType
<1>7. InHand
  BY DEF InHand
<1> QED
  BY <1>3, <1>5, <1>6, <1>7 DEF Types

LEMMA ConvertTypes == Types /\ ConvertTimes => Types'
<1> SUFFICES ASSUME Types, ConvertTimes PROVE Types'
  OBVIOUS
<1> USE DEF ConvertTimes
<1>1. /\ fragment \in Inputs /\ Len(fragment) \in 1 .. 2
      /\ \A f \in Fragments :
           /\ IsFragment(fragment[f])
           /\ \A s \in 0 .. fragment[f].size :
                (fragment[f].samples[s].pts + fragment[f].samples[s].cto) * Clock + MaxDelay + PatDelta
                  < NoPts
  BY InputsAssumption DEF Fragments, Types, FragmentsType
<1>2. Len(fragment') = Len(fragment) /\ Fragments' = Fragments
  BY <1>1 DEF Fragments
<1>3. \A f \in Fragments : fragment'[f] = Converted(fragment[f])
  OBVIOUS
<1>4. ASSUME NEW f \in Fragments
      PROVE  /\ IsFragment(fragment'[f])
             /\ fragment'[f].size = fragment[f].size /\ fragment'[f].kind = fragment[f].kind
             /\ \A s \in 0 .. fragment'[f].size : TimeFits(fragment'[f].samples[s])
  <2> DEFINE g == fragment[f]
             c == Converted(g)
  <2>1. IsFragment(g)
    BY <1>1
  <2>2. IsFragment(c) /\ c.size = g.size /\ c.kind = g.kind
    BY <2>1, ConvertedIs
  <2>3. ASSUME NEW s \in 0 .. g.size
        PROVE  TimeFits(c.samples[s])
    <3>1. /\ c.samples[s].pts = Rescale(g.samples[s].pts, Clock, g.timescale)
          /\ c.samples[s].cto = Rescale(g.samples[s].cto, Clock, g.timescale)
      BY <2>1, ConvertedIs
    <3>2. g.samples[s].pts \in Nat /\ g.samples[s].cto \in Nat /\ g.timescale \in Nat \ {0}
      BY <2>1, FragmentIs
    <3>3. (g.samples[s].pts + g.samples[s].cto) * Clock + MaxDelay + PatDelta < NoPts
      BY <1>1
    <3> HIDE DEF g, c
    <3> DEFINE x == g.samples[s].pts
               y == g.samples[s].cto
    <3>4. /\ Rescale(x, Clock, g.timescale) \in Nat /\ Rescale(x, Clock, g.timescale) <= x * Clock
          /\ Rescale(y, Clock, g.timescale) \in Nat /\ Rescale(y, Clock, g.timescale) <= y * Clock
      BY <3>2, RescaleBound
    <3> HIDE DEF x, y
    <3>5. x \in Nat /\ y \in Nat /\ x * Clock \in Nat /\ y * Clock \in Nat
          /\ (x + y) * Clock = x * Clock + y * Clock
      BY <3>2 DEF x, y, Clock
    <3>6. x * Clock + y * Clock + MaxDelay + PatDelta < NoPts
      BY <3>3, <3>5 DEF x, y
    <3>7. c.samples[s].pts = Rescale(x, Clock, g.timescale)
          /\ c.samples[s].cto = Rescale(y, Clock, g.timescale)
      BY <3>1 DEF x, y
    <3> QED
      BY <3>4, <3>5, <3>6, <3>7, Numbers DEF TimeFits
  <2> QED
    BY <1>3, <2>2, <2>3
<1>5. FragmentsType'
  BY <1>1, <1>2, <1>4 DEF FragmentsType
<1>6. NothingYet /\ NothingYet'
  BY <1>2 DEF Types, NothingYet
<1>7. LoopType'
  <2>1. \A f \in Fragments : fragment'[f].size \in Nat /\ first'[f] = 0
    BY <1>4, <1>6 DEF NothingYet, IsFragment
  <2>2. first' \in [Fragments -> Nat] /\ \A f \in Fragments : first'[f] <= fragment'[f].size
    BY <2>1 DEF Types, LoopType
  <2>3. /\ stream \in [Fragments -> StreamOf(MaxPayload - 1)]
        /\ mux \in [next_pat : Nat, pat_cc : 0 .. 15, pmt_cc : 0 .. 15]
        /\ order \in 0 .. Len(fragment) /\ at \in Nat /\ sent = <<>>
    BY <1>6 DEF Types, LoopType, NothingYet
  <2>4. UNCHANGED <<stream, mux, order, at, sent>> /\ pc' = "read"
    OBVIOUS
  <2>5. Len(sent) = 0
    BY <2>3
  <2> HIDE DEF ConvertTimes
  <2> QED
    BY <1>2, <2>2, <2>3, <2>4, <2>5 DEF LoopType
<1>8. InHand'
  BY DEF InHand
<1> QED
  BY <1>5, <1>6, <1>7, <1>8 DEF Types

-------------------------------------------------------------------------------
(* write_packet: what one entry does to the stream, the tables and the bucket. *)

\* Tables built before an entry with the time dts; bucket_insert may have dropped
\* them.
TablesFor(t, dts) ==
    t \in TablesRec /\ t.at = dts /\ t.pat = mux.pat_cc /\ t.pmt = mux.pmt_cc

\* Stream f builds the entry e, or has no memory for it, and is left with the
\* fields r.
Emission(f, e, r) ==
    /\ f \in Fragments /\ e \in PesRec /\ e.stream = f /\ e.cc = stream[f].cc
    /\ r \in StreamOf(MaxPayload - 1)
    /\ r.cc = IF e.kind # "lost" THEN (stream[f].cc + e.n) % 16 ELSE stream[f].cc
    /\ r.packets = IF e.kind # "lost" THEN stream[f].packets + e.n ELSE stream[f].packets
    /\ stream' = [stream EXCEPT ![f] = r]
    /\ mux' = NextMux(e.dts)
    /\ IF TablesDue(e.dts)
       THEN \E t : TablesFor(t, e.dts) /\ sent' = Append(Append(sent, t), e)
       ELSE sent' = Append(sent, e)

\* The entry of a payload with the fields s, which is then empty.
Payload(s, e, r) ==
    /\ e.pieces = s.pieces /\ e.dts = Delayed(s.dts) /\ e.pts = Delayed(s.pts) /\ ~ e.params
    /\ r.index = 0 /\ r.pieces = <<>> /\ r.dts = NoPts /\ r.pts = NoPts

LEMMA StampsIs == \A x, y, z : Stamps(x, y, z) \in 0 .. 2
BY DEF Stamps

LEMMA PacketsOfType ==
    ASSUME NEW f, NEW s, NEW pes, pes.size \in Nat
    PROVE  PacketsOf(f, s, pes) \in Nat \ {0}
<1> DEFINE st == Stamps(pes.dts, pes.pts, NoPts)
<1>1. st \in 0 .. 2
  BY StampsIs
<1> HIDE DEF st
<1>2. ASSUME NEW b \in BOOLEAN, NEW c \in BOOLEAN
      PROVE  PacketizedPackets(b, c, st, pes.size) \in Nat \ {0}
  BY <1>1 DEF PacketizedPackets, Once, FieldSize, PesHeaderSize, Room, PacketSize, HeaderSize
<1>3. Pcr(f) \in BOOLEAN /\ (s.packets = 0) \in BOOLEAN
  BY DEF Pcr
<1>4. PICK b \in BOOLEAN : b = Pcr(f)
  BY <1>3
<1>5. PICK c \in BOOLEAN : c = (s.packets = 0)
  BY <1>3
<1>6. PacketsOf(f, s, pes) = PacketizedPackets(b, c, st, pes.size)
  BY <1>4, <1>5 DEF PacketsOf, st
<1> QED
  BY <1>2, <1>6

LEMMA DelayedType ==
    /\ Delayed(NoPts) = NoPts
    /\ \A t \in Nat : Delayed(t) \in Nat
    /\ \A t \in Nat : t < NoPts => Delayed(t) = t + MaxDelay
BY Numbers DEF Delayed

LEMMA NextMuxType ==
    ASSUME Types, NEW dts \in Nat
    PROVE  NextMux(dts) \in [next_pat : Nat, pat_cc : 0 .. 15, pmt_cc : 0 .. 15]
<1>1. mux \in [next_pat : Nat, pat_cc : 0 .. 15, pmt_cc : 0 .. 15]
  BY DEF Types, LoopType
<1>2. /\ dts + PatDelta \in Nat
      /\ (mux.pat_cc + 1) % 16 \in 0 .. 15 /\ (mux.pmt_cc + 1) % 16 \in 0 .. 15
  BY <1>1, Numbers
<1> QED
  BY <1>1, <1>2 DEF NextMux

\* What write_packet is called with.
IsPayload(pes) ==
    /\ pes.dts \in Nat /\ pes.pts \in Nat /\ pes.size \in Nat
    /\ pes.pieces \in Seq(Piece) /\ pes.params \in BOOLEAN

\* The entry has what the payload has.
Carries(e, pes) ==
    /\ e.dts = Delayed(pes.dts) /\ e.pts = Delayed(pes.pts)
    /\ e.pieces = pes.pieces /\ e.params = pes.params

SameHeld(r, s) == r.index = s.index /\ r.pieces = s.pieces /\ r.dts = s.dts /\ r.pts = s.pts

\* The result w of write_packet is the entry e, after the tables t if they are
\* due, and the stream that has counted it.
WrittenAs(f, s, pes, w, e, t) ==
    /\ e \in PesRec /\ e.stream = f /\ e.cc = s.cc /\ Carries(e, pes)
    /\ TablesFor(t, e.dts)
    /\ w.sent = IF TablesDue(e.dts) THEN Append(Append(sent, t), e) ELSE Append(sent, e)
    /\ w.mux = NextMux(e.dts)
    /\ w.stream \in StreamOf(MaxPayload - 1)
    /\ w.stream.cc = IF e.kind # "lost" THEN (s.cc + e.n) % 16 ELSE s.cc
    /\ w.stream.packets = IF e.kind # "lost" THEN s.packets + e.n ELSE s.packets
    /\ SameHeld(w.stream, s)

LEMMA WrittenIs ==
    ASSUME Types, NEW f \in Fragments, NEW s \in StreamOf(MaxPayload - 1), NEW outcome,
           NEW pes, IsPayload(pes)
    PROVE  \E e, t : WrittenAs(f, s, pes, Written(f, s, pes, outcome), e, t)
<1> DEFINE n == PacketsOf(f, s, pes)
           e == [kind |-> PesKind(outcome.pes), stream |-> f, dts |-> Delayed(pes.dts),
                 pts |-> Delayed(pes.pts), pieces |-> pes.pieces, params |-> pes.params,
                 cc |-> s.cc, n |-> n]
           w == Written(f, s, pes, outcome)
           T == Tables(e.dts, outcome)
           Entries1 == TablesRec \cup PesRec
           st == [s EXCEPT !.cc = (@ + n) % 16, !.packets = @ + n]
<1>1. n \in Nat \ {0}
  BY PacketsOfType DEF IsPayload
<1>2. f \in Nat
  BY DEF Fragments
<1>3. PesKind(outcome.pes) \in {"pes", "dropped", "lost"}
      /\ (PesKind(outcome.pes) # "lost" <=> outcome.pes # "lost")
  BY DEF PesKind
<1>4. e \in PesRec
  <2>1. s.cc \in 0 .. 15
    BY DEF StreamOf
  <2>2. Delayed(pes.dts) \in Nat /\ Delayed(pes.pts) \in Nat
    BY DelayedType DEF IsPayload
  <2> HIDE DEF n
  <2> QED
    BY <1>1, <1>2, <1>3, <2>1, <2>2 DEF PesRec, IsPayload
<1>5. /\ e.kind = PesKind(outcome.pes) /\ e.stream = f /\ e.cc = s.cc /\ e.n = n
      /\ e.dts = Delayed(pes.dts) /\ e.pts = Delayed(pes.pts)
      /\ e.pieces = pes.pieces /\ e.params = pes.params /\ e.dts \in Nat
  BY DelayedType DEF IsPayload
<1>6. TablesFor(T, e.dts)
  <2>1. mux.pat_cc \in 0 .. 15 /\ mux.pmt_cc \in 0 .. 15
    BY DEF Types, LoopType
  <2>2. (outcome.pat = "kept" /\ outcome.pmt = "kept") \in BOOLEAN
    OBVIOUS
  <2> HIDE DEF e
  <2> QED
    BY <1>5, <2>1, <2>2 DEF Tables, TablesRec, TablesFor
<1>7. w.sent = sent \o (IF TablesDue(e.dts) THEN <<T>> ELSE <<>>) \o <<e>>
  BY <1>5 DEF Written
<1>8. w.mux = NextMux(e.dts)
  BY <1>5 DEF Written
<1>9. w.stream = IF e.kind # "lost" THEN st ELSE s
  <2>1. w.stream = Advanced(s, n, outcome)
    BY DEF Written
  <2> HIDE DEF w, n, e
  <2> QED
    BY <1>3, <1>5, <2>1 DEF Advanced
<1>10. /\ st \in StreamOf(MaxPayload - 1)
       /\ st.cc = (s.cc + n) % 16 /\ st.packets = s.packets + n /\ st.index = s.index
       /\ st.pieces = s.pieces /\ st.dts = s.dts /\ st.pts = s.pts
  <2>1. s \in StreamOf(MaxPayload - 1) /\ s.cc \in 0 .. 15 /\ s.packets \in Nat
    BY DEF StreamOf
  <2> HIDE DEF n
  <2>2. (s.cc + n) % 16 \in 0 .. 15 /\ s.packets + n \in Nat
    <3>1. \A x, y \in Nat : (x + y) % 16 \in 0 .. 15 /\ x + y \in Nat
      OBVIOUS
    <3>2. s.cc \in Nat /\ s.packets \in Nat /\ n \in Nat
      BY <1>1, <2>1, SMTT(30)
    <3> QED
      BY ONLY <3>1, <3>2
  <2> QED
    BY <2>1, <2>2 DEF StreamOf
<1>11. sent \in Seq(Entries1)
  BY DEF Types, LoopType
<1> HIDE DEF e, T, w, st, n
<1>12. w.sent = IF TablesDue(e.dts) THEN Append(Append(sent, T), e) ELSE Append(sent, e)
  <2>1. e \in Entries1 /\ T \in Entries1
    BY <1>4, <1>6 DEF TablesFor
  <2> HIDE DEF Entries1
  <2>2. Append(sent, T) \in Seq(Entries1) /\ Append(sent, T) = sent \o <<T>>
    BY <1>11, <2>1, AppendIsConcat, AppendProperties
  <2>3. Append(Append(sent, T), e) = (sent \o <<T>>) \o <<e>>
    BY <2>1, <2>2, AppendIsConcat
  <2>4. Append(sent, e) = sent \o <<e>>
    BY <1>11, <2>1, AppendIsConcat
  <2>5. sent \o <<>> = sent
    BY <1>11, ConcatEmptySeq
  <2> QED
    BY <1>7, <2>3, <2>4, <2>5
<1>13. /\ w.stream \in StreamOf(MaxPayload - 1)
       /\ w.stream.cc = IF e.kind # "lost" THEN (s.cc + e.n) % 16 ELSE s.cc
       /\ w.stream.packets = IF e.kind # "lost" THEN s.packets + e.n ELSE s.packets
       /\ SameHeld(w.stream, s)
  BY <1>5, <1>9, <1>10 DEF SameHeld
<1>14. Carries(e, pes)
  BY <1>5 DEF Carries
<1>15. WrittenAs(f, s, pes, w, e, T)
  BY <1>4, <1>5, <1>6, <1>8, <1>12, <1>13, <1>14 DEF WrittenAs
<1> QED
  BY <1>15 DEF w

\* write_packet of a payload makes an entry that carries it.
LEMMA WritePacketIs ==
    ASSUME Types, NEW f \in Fragments, NEW s \in StreamOf(MaxPayload - 1),
           s.cc = stream[f].cc, s.packets = stream[f].packets,
           NEW pes, IsPayload(pes), WritePacket(f, s, pes)
    PROVE  \E e, r : Emission(f, e, r) /\ Carries(e, pes) /\ SameHeld(r, s)
<1>1. PICK outcome : LET w == Written(f, s, pes, outcome)
                     IN  stream' = [stream EXCEPT ![f] = w.stream] /\ mux' = w.mux /\ sent' = w.sent
  BY DEF WritePacket
<1> DEFINE w == Written(f, s, pes, outcome)
           r == w.stream
<1>2. PICK e, t : WrittenAs(f, s, pes, w, e, t)
  BY WrittenIs
<1>3. stream' = [stream EXCEPT ![f] = r] /\ mux' = w.mux /\ sent' = w.sent
  BY <1>1
<1> HIDE DEF w
<1>4. IF TablesDue(e.dts)
      THEN \E u : TablesFor(u, e.dts) /\ sent' = Append(Append(sent, u), e)
      ELSE sent' = Append(sent, e)
  BY <1>2, <1>3 DEF WrittenAs
<1>5. Emission(f, e, r)
  BY <1>2, <1>3, <1>4 DEF Emission, WrittenAs
<1>6. Carries(e, pes) /\ SameHeld(r, s)
  BY <1>2 DEF WrittenAs
<1> QED
  BY <1>5, <1>6

LEMMA FlushIs ==
    ASSUME Types, NEW f \in Fragments, NEW s \in StreamOf(MaxPayload),
           s.cc = stream[f].cc, s.packets = stream[f].packets, s.index # 0, Flush(f, s)
    PROVE  \E e, r : Emission(f, e, r) /\ Payload(s, e, r)
<1> DEFINE pes == [dts |-> s.dts, pts |-> s.pts, size |-> s.index, pieces |-> s.pieces,
                   params |-> FALSE]
           q == Emptied(s)
<1>1. s.dts \in Nat /\ s.pts \in Nat /\ s.index \in Nat /\ s.pieces \in Seq(Piece)
  BY DEF StreamOf
<1>2. IsPayload(pes)
  BY <1>1 DEF IsPayload
<1>3. WritePacket(f, q, pes)
  BY DEF Flush
<1>4. /\ q \in StreamOf(MaxPayload - 1) /\ q.cc = s.cc /\ q.packets = s.packets
      /\ q.index = 0 /\ q.pieces = <<>> /\ q.dts = NoPts /\ q.pts = NoPts
  <2>1. 0 \in 0 .. MaxPayload - 1 /\ NoPts \in Nat /\ <<>> \in Seq(Piece)
    BY Numbers
  <2> QED
    BY <2>1 DEF Emptied, StreamOf
<1>5. q.cc = stream[f].cc /\ q.packets = stream[f].packets
  BY <1>4
<1> HIDE DEF pes, q
<1>6. PICK e, r : Emission(f, e, r) /\ Carries(e, pes) /\ SameHeld(r, q)
  BY <1>2, <1>3, <1>4, <1>5, WritePacketIs
<1>7. Payload(s, e, r)
  BY <1>4, <1>6 DEF Payload, Carries, SameHeld, pes
<1> QED
  BY <1>6, <1>7

\* The fields of stream f that a copy or a flush starts from.
LEMMA StreamIs ==
    ASSUME Types, NEW f \in Fragments
    PROVE  /\ stream[f] \in StreamOf(MaxPayload - 1) /\ stream[f] \in StreamOf(MaxPayload)
           /\ stream[f].index \in Nat /\ stream[f].index < MaxPayload
           /\ stream[f].dts \in Nat /\ stream[f].pts \in Nat /\ stream[f].pieces \in Seq(Piece)
           /\ IsFragment(fragment[f])
           /\ fragment[f].size \in Nat \ {0} /\ first[f] \in 0 .. fragment[f].size
           /\ f \in Nat
<1>1. stream[f] \in StreamOf(MaxPayload - 1)
  BY DEF Types, LoopType
<1>2. stream[f].index \in 0 .. MaxPayload - 1
  BY <1>1 DEF StreamOf
<1>3. StreamOf(MaxPayload - 1) \subseteq StreamOf(MaxPayload)
  BY Numbers DEF StreamOf
<1>4. stream[f].dts \in Nat /\ stream[f].pts \in Nat /\ stream[f].pieces \in Seq(Piece)
  BY <1>1 DEF StreamOf
<1>5. IsFragment(fragment[f]) /\ fragment[f].size \in Nat \ {0}
  BY DEF Types, FragmentsType, IsFragment
<1>6. first[f] \in Nat /\ first[f] <= fragment[f].size
  BY DEF Types, LoopType
<1>7. f \in Nat
  BY DEF Fragments
<1> QED
  BY <1>1, <1>2, <1>3, <1>4, <1>5, <1>6, <1>7, Numbers

\* The sample to come of a fragment that is not used up.
LEMMA SampleIs ==
    ASSUME Types, NEW f \in Fragments
    PROVE  /\ Sample(f).pts \in Nat /\ Sample(f).cto \in Nat
           /\ Sample(f).pos \in Nat /\ Sample(f).size \in Nat
           /\ TimeFits(Sample(f))
<1>1. first[f] \in 0 .. fragment[f].size /\ IsFragment(fragment[f])
  BY StreamIs
<1> QED
  BY <1>1, FragmentIs DEF Sample, Types, FragmentsType

LEMMA HandIs ==
    ASSUME Types, pc \in {"audio", "video"}
    PROVE  /\ order \in Fragments
           /\ first[order] \in 0 .. fragment[order].size - 1
           /\ FrameSize \in Nat
<1>1. order \in Fragments /\ first[order] < fragment[order].size
  BY DEF Types, InHand
<1> QED
  BY <1>1, StreamIs, SampleIs, Numbers DEF FrameSize

\* The entry of a video sample.
Video(e, r) ==
    /\ e.pieces = <<[sample |-> first[order], at |-> 0, size |-> Sample(order).size]>>
    /\ e.dts = Sample(order).pts + MaxDelay
    /\ e.pts = Sample(order).pts + Sample(order).cto + MaxDelay
    /\ e.params <=> stream[order].packets = 0
    /\ r.index = stream[order].index /\ r.pieces = stream[order].pieces
    /\ r.dts = stream[order].dts /\ r.pts = stream[order].pts

LEMMA VideoIs ==
    ASSUME Types, VideoSent
    PROVE  \E e, r : Emission(order, e, r) /\ Video(e, r)
<1> DEFINE f == order
           s == stream[order]
           pes == [dts |-> Sample(order).pts,
                   pts |-> Sample(order).pts + Sample(order).cto,
                   size |-> Sample(order).size + AudSize + (IF NeedsParams THEN ParamsSize ELSE 0),
                   pieces |-> <<[sample |-> first[order], at |-> 0, size |-> Sample(order).size]>>,
                   params |-> NeedsParams]
<1>1. /\ order \in Fragments /\ first[order] \in Nat
      /\ Sample(order).pts \in Nat /\ Sample(order).cto \in Nat /\ Sample(order).size \in Nat
      /\ TimeFits(Sample(order))
  <2>1. pc = "video"
    BY DEF VideoSent, VideoTaken
  <2>2. order \in Fragments
    BY <2>1, HandIs
  <2> QED
    BY <2>2, StreamIs, SampleIs
<1>2. s \in StreamOf(MaxPayload) /\ s \in StreamOf(MaxPayload - 1)
  BY <1>1, StreamIs
<1>3. NeedsParams \in BOOLEAN
  BY DEF NeedsParams
<1>4. /\ pes.dts = Sample(order).pts /\ pes.pts = Sample(order).pts + Sample(order).cto
      /\ pes.pieces = <<[sample |-> first[order], at |-> 0, size |-> Sample(order).size]>>
      /\ pes.params = NeedsParams
  OBVIOUS
<1>5. pes.dts \in Nat /\ pes.pts \in Nat /\ pes.size \in Nat /\ pes.pieces \in Seq(Piece)
      /\ pes.params \in BOOLEAN
  <2>1. Sample(order).size + AudSize + (IF NeedsParams THEN ParamsSize ELSE 0) \in Nat
    BY <1>1, Numbers
  <2>2. [sample |-> first[order], at |-> 0, size |-> Sample(order).size] \in Piece
    BY <1>1 DEF Piece
  <2>3. pes.dts \in Nat /\ pes.pts \in Nat
    BY <1>1
  <2>4. pes.pieces \in Seq(Piece)
    BY <2>2
  <2>5. pes.params \in BOOLEAN
    BY <1>3, <1>4
  <2>6. pes.size \in Nat
    BY <2>1
  <2> QED
    BY <2>3, <2>4, <2>5, <2>6
<1>6. WritePacket(order, s, pes)
  BY DEF VideoSent
<1> HIDE DEF pes
<1>7. IsPayload(pes)
  BY <1>5 DEF IsPayload
<1>8. PICK e, r : Emission(order, e, r) /\ Carries(e, pes) /\ SameHeld(r, s)
  BY <1>1, <1>2, <1>6, <1>7, WritePacketIs
<1>9. /\ Emission(order, e, r)
      /\ e.dts = Delayed(pes.dts) /\ e.pts = Delayed(pes.pts)
      /\ e.pieces = pes.pieces /\ e.params = pes.params
      /\ r.index = s.index /\ r.pieces = s.pieces /\ r.dts = s.dts /\ r.pts = s.pts
  BY <1>8 DEF Carries, SameHeld
<1>10. /\ e.dts = Sample(order).pts + MaxDelay
      /\ e.pts = Sample(order).pts + Sample(order).cto + MaxDelay
  <2>1. pes.dts \in Nat /\ pes.dts < NoPts /\ pes.pts \in Nat /\ pes.pts < NoPts
    BY <1>1, <1>4, Numbers DEF TimeFits
  <2> QED
    BY <1>4, <1>9, <2>1, DelayedType
<1>11. e.params <=> stream[order].packets = 0
  BY <1>4, <1>9 DEF NeedsParams
<1>12. Video(e, r)
  BY <1>4, <1>9, <1>10, <1>11 DEF Video
<1> QED
  BY <1>9, <1>12

\* What one copy of write_audio_packet puts into the payload.
LEMMA FilledIs ==
    ASSUME Types, pc = "audio", at < FrameSize
    PROVE  LET s == stream[order]
           IN  /\ Copied \in Nat \ {0} /\ at + Copied <= FrameSize
               /\ at = 0 => Copied <= AdtsSize
               /\ Filled \in StreamOf(MaxPayload)
               /\ Filled.cc = s.cc /\ Filled.packets = s.packets
               /\ Filled.index = s.index + Copied
               /\ [sample |-> first[order], at |-> at, size |-> Copied] \in Piece
               /\ Filled.pieces
                    = Append(s.pieces, [sample |-> first[order], at |-> at, size |-> Copied])
               /\ IF at = 0 /\ s.dts = NoPts
                  THEN /\ Filled.dts = Sample(order).pts
                       /\ Filled.pts = Sample(order).pts + Sample(order).cto
                  ELSE Filled.dts = s.dts /\ Filled.pts = s.pts
<1> DEFINE s == stream[order]
           p == [sample |-> first[order], at |-> at, size |-> Copied]
           t == IF at = 0 THEN Stamped(s, Sample(order)) ELSE s
<1>1. /\ order \in Fragments /\ first[order] \in Nat /\ FrameSize \in Nat /\ at \in Nat
      /\ Sample(order).pts \in Nat /\ Sample(order).cto \in Nat /\ Sample(order).size \in Nat
  BY HandIs, SampleIs DEF Types, LoopType
<1>2. s \in StreamOf(MaxPayload) /\ s.index \in Nat /\ s.index < MaxPayload /\ s.pieces \in Seq(Piece)
  BY <1>1, StreamIs
<1>3. FrameSize = AdtsSize + Sample(order).size
  BY DEF FrameSize
<1>4. PartLeft \in Nat \ {0} /\ at + PartLeft <= FrameSize /\ (at = 0 => PartLeft <= AdtsSize)
  <2>1. CASE at < AdtsSize
    <3>1. PartLeft = AdtsSize - at
      BY <2>1 DEF PartLeft
    <3> QED
      BY <1>1, <1>3, <2>1, <3>1, Numbers
  <2>2. CASE ~ (at < AdtsSize)
    <3>1. PartLeft = FrameSize - at
      BY <2>2 DEF PartLeft
    <3> QED
      BY <1>1, <2>2, <3>1, Numbers
  <2> QED
    BY <2>1, <2>2
<1>5. /\ Copied \in Nat \ {0} /\ at + Copied <= FrameSize /\ (at = 0 => Copied <= AdtsSize)
      /\ s.index + Copied <= MaxPayload
  <2>1. MaxPayload - s.index \in Nat \ {0}
    BY <1>2, Numbers
  <2>2. PICK x \in Nat : x = MaxPayload - s.index
    BY <2>1
  <2>3. PICK y \in Nat : y = PartLeft
    BY <1>4
  <2>4. Copied = Min({x, y})
    BY <2>2, <2>3 DEF Copied
  <2>5. Copied \in Nat /\ (Copied = x \/ Copied = y) /\ Copied <= x /\ Copied <= y
    BY <2>4, MinOfTwo
  <2>6. x # 0 /\ y # 0 /\ at + y <= FrameSize /\ (at = 0 => y <= AdtsSize)
    BY <1>4, <2>1, <2>2, <2>3
  <2>7. Copied # 0
    BY <2>5, <2>6
  <2>8. s.index + Copied <= MaxPayload
    BY <1>2, <2>2, <2>5, Numbers
  <2>9. at + Copied <= FrameSize /\ (at = 0 => Copied <= AdtsSize)
    BY <1>1, <2>5, <2>6, Numbers
  <2> QED
    BY <2>5, <2>7, <2>8, <2>9
<1>6. p \in Piece
  BY <1>1, <1>5 DEF Piece
<1>7. Filled = [t EXCEPT !.index = @ + Copied, !.pieces = Append(@, p)]
  BY DEF Filled
<1>8. /\ t \in StreamOf(MaxPayload)
      /\ t.cc = s.cc /\ t.packets = s.packets /\ t.index = s.index /\ t.pieces = s.pieces
      /\ IF at = 0 /\ s.dts = NoPts
         THEN t.dts = Sample(order).pts /\ t.pts = Sample(order).pts + Sample(order).cto
         ELSE t.dts = s.dts /\ t.pts = s.pts
  <2> HIDE DEF s
  <2>1. Sample(order).pts + Sample(order).cto \in Nat
    BY <1>1
  <2>2. CASE at = 0 /\ s.dts = NoPts
    <3>1. t = [s EXCEPT !.dts = Sample(order).pts, !.pts = Sample(order).pts + Sample(order).cto]
      BY <2>2 DEF Stamped
    <3> HIDE DEF t
    <3> QED
      BY <1>1, <1>2, <2>1, <2>2, <3>1 DEF StreamOf
  <2>3. CASE ~ (at = 0 /\ s.dts = NoPts)
    <3>1. t = s
      BY <2>3 DEF Stamped
    <3> HIDE DEF t
    <3> QED
      BY <1>2, <2>3, <3>1
  <2> QED
    BY <2>2, <2>3
<1>9. Append(s.pieces, p) \in Seq(Piece) /\ s.index + Copied \in 0 .. MaxPayload
  BY <1>2, <1>5, <1>6
<1> HIDE DEF t, p, s
<1>10. /\ Filled \in StreamOf(MaxPayload)
       /\ Filled.cc = t.cc /\ Filled.packets = t.packets /\ Filled.index = t.index + Copied
       /\ Filled.pieces = Append(t.pieces, p) /\ Filled.dts = t.dts /\ Filled.pts = t.pts
  BY <1>7, <1>8, <1>9 DEF StreamOf
<1>11. /\ Filled.cc = s.cc /\ Filled.packets = s.packets /\ Filled.index = s.index + Copied
       /\ Filled.pieces = Append(s.pieces, p)
       /\ IF at = 0 /\ s.dts = NoPts
          THEN Filled.dts = Sample(order).pts /\ Filled.pts = Sample(order).pts + Sample(order).cto
          ELSE Filled.dts = s.dts /\ Filled.pts = s.pts
  BY <1>8, <1>10
<1> QED
  BY <1>5, <1>6, <1>10, <1>11 DEF p, s

-------------------------------------------------------------------------------
(* What an emission does to the bucket. *)

LEMMA TablesType ==
    ASSUME NEW t, NEW dts, TablesFor(t, dts)
    PROVE  /\ t \in TablesRec /\ t.at = dts /\ ~ IsPes(t)
           /\ t.pat = mux.pat_cc /\ t.pmt = mux.pmt_cc
BY DEF TablesFor, TablesRec, IsPes

\* The bucket grows by the entry, and by tables before it if they are due.
LEMMA EmissionGrows ==
    ASSUME Types, NEW f, NEW e, NEW r, Emission(f, e, r)
    PROVE  /\ Len(sent) \in Nat /\ Len(sent') \in Nat
           /\ sent' \in Seq(TablesRec \cup PesRec)
           /\ Len(sent') = IF TablesDue(e.dts) THEN Len(sent) + 2 ELSE Len(sent) + 1
           /\ \A k \in 1 .. Len(sent) : sent'[k] = sent[k]
           /\ sent'[Len(sent')] = e
           /\ TablesDue(e.dts) => TablesFor(sent'[Len(sent) + 1], e.dts)
<1> DEFINE E == TablesRec \cup PesRec
           n == Len(sent)
<1>1. e \in PesRec /\ sent \in Seq(E)
  BY DEF Emission, Types, LoopType
<1>2. e \in E
  BY <1>1
<1>3. PICK T : /\ TablesDue(e.dts) => TablesFor(T, e.dts)
               /\ sent' = IF TablesDue(e.dts) THEN Append(Append(sent, T), e) ELSE Append(sent, e)
  BY DEF Emission
<1>4. TablesDue(e.dts) => T \in E
  BY <1>3, TablesType
<1>5. n \in Nat
  BY <1>1
<1> HIDE DEF E
<1>6. CASE ~ TablesDue(e.dts)
  <2>1. /\ sent' \in Seq(E) /\ Len(sent') = n + 1 /\ sent'[n + 1] = e
        /\ \A k \in 1 .. n : sent'[k] = sent[k]
    BY <1>1, <1>2, <1>3, <1>6, AppendProperties
  <2> QED
    BY <1>5, <1>6, <2>1 DEF E
<1>7. CASE TablesDue(e.dts)
  <2> DEFINE q == Append(sent, T)
  <2>1. /\ q \in Seq(E) /\ Len(q) = n + 1 /\ q[n + 1] = T
        /\ \A k \in 1 .. n : q[k] = sent[k]
    BY <1>1, <1>4, <1>7, AppendProperties
  <2>2. sent' = Append(q, e)
    BY <1>3, <1>7
  <2> HIDE DEF q
  <2>3. /\ sent' \in Seq(E) /\ Len(sent') = Len(q) + 1 /\ sent'[Len(q) + 1] = e
        /\ \A k \in 1 .. Len(q) : sent'[k] = q[k]
    BY <1>2, <2>1, <2>2, AppendProperties
  <2>4. Len(sent') = n + 2 /\ sent'[n + 2] = e
    BY <1>5, <2>1, <2>3
  <2>5. sent'[n + 1] = T
    BY <1>5, <2>1, <2>3
  <2>6. \A k \in 1 .. n : sent'[k] = sent[k]
    BY <1>5, <2>1, <2>3
  <2> QED
    BY <1>3, <1>5, <1>7, <2>3, <2>4, <2>5, <2>6 DEF E
<1> QED
  BY <1>6, <1>7

\* The conjuncts of the type invariant that an emission disturbs.
LEMMA EmissionTypes ==
    ASSUME Types, NEW f, NEW e, NEW r, Emission(f, e, r), UNCHANGED fragment
    PROVE  /\ stream' \in [Fragments' -> StreamOf(MaxPayload - 1)]
           /\ mux' \in [next_pat : Nat, pat_cc : 0 .. 15, pmt_cc : 0 .. 15]
           /\ sent' \in Seq(TablesRec \cup PesRec)
           /\ \A k \in 1 .. Len(sent') : IsPes(sent'[k]) => sent'[k].stream \in Fragments'
<1>1. Fragments' = Fragments
  BY DEF Fragments
<1>2. /\ f \in Fragments /\ e \in PesRec /\ e.stream = f /\ r \in StreamOf(MaxPayload - 1)
      /\ stream' = [stream EXCEPT ![f] = r] /\ mux' = NextMux(e.dts)
  BY DEF Emission
<1>3. stream \in [Fragments -> StreamOf(MaxPayload - 1)]
      /\ \A k \in 1 .. Len(sent) : IsPes(sent[k]) => sent[k].stream \in Fragments
  BY DEF Types, LoopType
<1>4. e.dts \in Nat
  BY <1>2 DEF PesRec
<1>5. ASSUME NEW k \in 1 .. Len(sent'), IsPes(sent'[k])
      PROVE  sent'[k].stream \in Fragments
  <2>1. /\ Len(sent) \in Nat /\ Len(sent') \in Nat
        /\ Len(sent') = IF TablesDue(e.dts) THEN Len(sent) + 2 ELSE Len(sent) + 1
        /\ \A j \in 1 .. Len(sent) : sent'[j] = sent[j]
        /\ sent'[Len(sent')] = e
        /\ TablesDue(e.dts) => TablesFor(sent'[Len(sent) + 1], e.dts)
    BY EmissionGrows
  <2>2. \/ k \in 1 .. Len(sent) \/ k = Len(sent')
        \/ TablesDue(e.dts) /\ k = Len(sent) + 1
    BY <2>1
  <2>3. CASE k \in 1 .. Len(sent)
    BY <1>3, <1>5, <2>1, <2>3
  <2>4. CASE k = Len(sent')
    BY <1>2, <2>1, <2>4
  <2>5. CASE TablesDue(e.dts) /\ k = Len(sent) + 1
    BY <1>4, <1>5, <2>1, <2>5, TablesType
  <2> QED
    BY <2>2, <2>3, <2>4, <2>5
<1> QED
  BY <1>1, <1>2, <1>3, <1>4, <1>5, EmissionGrows, NextMuxType

\* A flush of the payload s of stream f, empty or not.
LEMMA FlushTypes ==
    ASSUME Types, NEW f \in Fragments, NEW s \in StreamOf(MaxPayload),
           s.cc = stream[f].cc, s.packets = stream[f].packets, Flush(f, s), UNCHANGED fragment
    PROVE  /\ stream' \in [Fragments' -> StreamOf(MaxPayload - 1)]
           /\ mux' \in [next_pat : Nat, pat_cc : 0 .. 15, pmt_cc : 0 .. 15]
           /\ sent' \in Seq(TablesRec \cup PesRec)
           /\ \A k \in 1 .. Len(sent') : IsPes(sent'[k]) => sent'[k].stream \in Fragments'
<1>1. CASE s.index # 0
  <2>1. PICK e, r : Emission(f, e, r)
    BY <1>1, FlushIs
  <2> QED
    BY <2>1, EmissionTypes
<1>2. CASE s.index = 0
  <2>1. stream' = [stream EXCEPT ![f] = s] /\ UNCHANGED <<mux, sent>>
    BY <1>2 DEF Flush
  <2>2. 0 \in 0 .. MaxPayload - 1
    BY Numbers
  <2>3. s \in StreamOf(MaxPayload - 1)
    BY <1>2, <2>2 DEF StreamOf
  <2>4. Fragments' = Fragments
    BY DEF Fragments
  <2> QED
    BY <2>1, <2>3, <2>4 DEF Types, LoopType, IsPes
<1> QED
  BY <1>1, <1>2

\* The fragment chosen has the smallest time.
LEMMA EarliestIs ==
    ASSUME Types, ~ LoopEnds
    PROVE  /\ Earliest \in Fragments /\ ~ Exhausted(Earliest)
           /\ \A g \in Fragments : Sample(Earliest).pts <= Sample(g).pts
<1> DEFINE Best(f) == \A g \in Fragments \ {f} :
                        ~ Exhausted(g) => \/ Sample(f).pts < Sample(g).pts
                                          \/ Sample(f).pts = Sample(g).pts /\ f < g
<1>1. \A f \in Fragments : ~ Exhausted(f) /\ Sample(f).pts \in Nat /\ f \in Nat
  BY SampleIs, StreamIs DEF LoopEnds
<1>2. Fragments = {1} \/ Fragments = {1, 2}
  <2>1. Len(fragment) \in 1 .. 2 /\ 1 .. 1 = {1} /\ 1 .. 2 = {1, 2}
    BY DEF Types, FragmentsType
  <2>2. CASE Len(fragment) = 1
    BY <2>1, <2>2 DEF Fragments
  <2>3. CASE Len(fragment) = 2
    BY <2>1, <2>3 DEF Fragments
  <2> QED
    BY <2>1, <2>2, <2>3
<1> HIDE DEF Best
<1>3. \E f \in Fragments : Best(f)
  <2>1. CASE Fragments = {1}
    BY <2>1 DEF Best
  <2>2. CASE Fragments = {1, 2}
    <3>1. CASE Sample(1).pts <= Sample(2).pts
      <4>1. Best(1)
        BY <1>1, <2>2, <3>1 DEF Best
      <4> QED
        BY <2>2, <4>1
    <3>2. CASE Sample(2).pts < Sample(1).pts
      <4>1. Best(2)
        BY <1>1, <2>2, <3>2 DEF Best
      <4> QED
        BY <2>2, <4>1
    <3> QED
      BY <1>1, <2>2, <3>1, <3>2
  <2> QED
    BY <1>2, <2>1, <2>2
<1>4. Earliest \in Fragments /\ ~ Exhausted(Earliest) /\ Best(Earliest)
  <2>1. Earliest = CHOOSE f \in Fragments : ~ Exhausted(f) /\ Best(f)
    BY DEF Earliest, Best
  <2> QED
    BY <1>1, <1>3, <2>1
<1>5. ASSUME NEW g \in Fragments PROVE Sample(Earliest).pts <= Sample(g).pts
  BY <1>1, <1>4 DEF Best
<1> QED
  BY <1>4, <1>5

-------------------------------------------------------------------------------
(* The type invariant. *)

\* The bucket and what write_packet keeps have their types in the next state.
OutputType ==
    /\ stream \in [Fragments -> StreamOf(MaxPayload - 1)]
    /\ mux \in [next_pat : Nat, pat_cc : 0 .. 15, pmt_cc : 0 .. 15]
    /\ sent \in Seq(TablesRec \cup PesRec)
    /\ \A k \in 1 .. Len(sent) : IsPes(sent[k]) => sent[k].stream \in Fragments

LEMMA TypesAgain ==
    ASSUME Types, UNCHANGED fragment, pc' \in {"choose", "audio", "video", "done", "failed", "crashed"},
           first' \in [Fragments -> Nat], \A f \in Fragments : first'[f] <= fragment[f].size,
           order' \in 0 .. Len(fragment), at' \in Nat, OutputType', InHand'
    PROVE  Types'
<1>1. Fragments' = Fragments /\ FragmentsType'
  BY DEF Types, FragmentsType, Fragments
<1>2. LoopType'
  BY <1>1 DEF LoopType, OutputType
<1> QED
  BY <1>1, <1>2 DEF Types

LEMMA SameOutput ==
    ASSUME Types, UNCHANGED <<fragment, stream, mux, sent>>
    PROVE  OutputType'
BY DEF Types, LoopType, OutputType, Fragments, IsPes

LEMMA FlushedOutput ==
    ASSUME Types, NEW f \in Fragments, NEW s \in StreamOf(MaxPayload),
           s.cc = stream[f].cc, s.packets = stream[f].packets, Flush(f, s), UNCHANGED fragment
    PROVE  OutputType'
BY FlushTypes DEF OutputType

\* The loop turns to the fragment with the smallest time.
Turn ==
    /\ pc = "choose" /\ ~ LoopEnds
    /\ order' = Earliest /\ at' = 0
    /\ pc' = IF fragment[Earliest].kind = "soun" THEN "audio" ELSE "video"
    /\ UNCHANGED <<fragment, first, window>>

LEMMA TurnTypes ==
    ASSUME Types, Turn, OutputType'
    PROVE  Types'
<1>1. Earliest \in Fragments /\ ~ Exhausted(Earliest)
  BY EarliestIs DEF Turn
<1>2. first[Earliest] < fragment[Earliest].size /\ first[Earliest] \in Nat
  BY <1>1, StreamIs DEF Exhausted
<1>3. PICK g \in Fragments : g = Earliest
  BY <1>1
<1>4. /\ order' = g /\ at' = 0 /\ pc' = IF fragment[g].kind = "soun" THEN "audio" ELSE "video"
      /\ UNCHANGED <<fragment, first, window>>
  BY <1>3 DEF Turn
<1>5. first[g] < fragment[g].size /\ fragment[g].kind \in {"soun", "vide"}
  BY <1>2, <1>3, StreamIs, FragmentIs DEF IsFragment
<1>6. FrameSize' \in Nat /\ 0 <= FrameSize'
  <2>1. FrameSize' = AdtsSize + Sample(g).size
    BY <1>4 DEF FrameSize, Sample
  <2> QED
    BY <2>1, SampleIs, Numbers
<1>7. Fragments' = Fragments
  BY <1>4 DEF Fragments
<1>8. InHand'
  BY <1>4, <1>5, <1>6, <1>7 DEF InHand, IsAudio
<1>9. order' \in 0 .. Len(fragment) /\ at' \in Nat
  BY <1>4 DEF Fragments
<1>10. first' \in [Fragments -> Nat] /\ \A f \in Fragments : first'[f] <= fragment[f].size
  BY <1>4 DEF Types, LoopType
<1>11. pc' \in {"choose", "audio", "video", "done", "failed"} /\ UNCHANGED fragment
  BY <1>4
<1> QED
  BY ONLY Types, OutputType', <1>8, <1>9, <1>10, <1>11, TypesAgain

\* The loop goes on to the next sample of the fragment whose turn it is.
LEMMA TakenTypes ==
    ASSUME Types, pc \in {"audio", "video"}, first' = [first EXCEPT ![order] = @ + 1], pc' = "choose",
           UNCHANGED <<fragment, order, at>>, OutputType'
    PROVE  Types'
<1>1. order \in Fragments /\ first[order] \in 0 .. fragment[order].size - 1
  BY HandIs
<1>2. /\ first \in [Fragments -> Nat] /\ \A f \in Fragments : first[f] <= fragment[f].size
      /\ order \in 0 .. Len(fragment) /\ at \in Nat
  BY DEF Types, LoopType
<1>3. fragment[order].size \in Nat
  BY <1>1, StreamIs
<1>4. first' \in [Fragments -> Nat] /\ \A f \in Fragments : first'[f] <= fragment[f].size
  BY <1>1, <1>2, <1>3
<1>5. InHand'
  BY DEF InHand
<1>6. order' \in 0 .. Len(fragment) /\ at' \in Nat
  BY <1>2
<1> QED
  BY <1>4, <1>5, <1>6, TypesAgain

\* The loop has copied the next piece of the frame.
LEMMA CopiedTypes ==
    ASSUME Types, pc = "audio", at < FrameSize, at' = at + Copied,
           UNCHANGED <<fragment, first, order, pc>>, OutputType'
    PROVE  Types'
<1>1. Copied \in Nat /\ at + Copied <= FrameSize
  BY FilledIs
<1>2. /\ first \in [Fragments -> Nat] /\ \A f \in Fragments : first[f] <= fragment[f].size
      /\ order \in 0 .. Len(fragment) /\ at \in Nat
  BY DEF Types, LoopType
<1>3. FrameSize' = FrameSize /\ Fragments' = Fragments
  BY DEF FrameSize, Sample, Fragments
<1>4. InHand'
  BY <1>1, <1>3 DEF Types, InHand, IsAudio
<1>5. order' \in 0 .. Len(fragment) /\ at' \in Nat
  BY <1>1, <1>2
<1> QED
  BY <1>2, <1>4, <1>5, TypesAgain

\* The audio fragment that is turned away from.
LEMMA AwayIs ==
    ASSUME Types, pc = "choose", TurnsAway(Earliest)
    PROVE  order \in Fragments /\ IsAudio(order)
BY DEF Types, LoopType, TurnsAway, IsAudio, Fragments

LEMMA NextTypes == Types /\ [Next]_vars => Types'
<1> SUFFICES ASSUME Types, [Next]_vars PROVE Types'
  OBVIOUS
<1>1. CASE ConvertTimes
  BY <1>1, ConvertTypes
<1>2. CASE Refuse \/ Read \/ Finish
  <2>1. /\ pc' \in {"choose", "done", "failed"}
        /\ UNCHANGED <<fragment, first, stream, mux, order, at, sent>>
    BY <1>2 DEF Refuse, Read, Finish
  <2>2. OutputType' /\ InHand'
    BY <2>1, SameOutput DEF InHand
  <2>3. /\ first \in [Fragments -> Nat] /\ \A f \in Fragments : first[f] <= fragment[f].size
        /\ order \in 0 .. Len(fragment) /\ at \in Nat
    BY DEF Types, LoopType
  <2> QED
    BY <2>1, <2>2, <2>3, TypesAgain
<1>3. CASE ChooseFlush
  <2>1. Turn /\ pc = "choose" /\ TurnsAway(Earliest)
    BY <1>3 DEF ChooseFlush, Turn
  <2>2. Flush(order, stream[order])
    BY <1>3 DEF ChooseFlush
  <2>3. order \in Fragments
    BY <2>1, AwayIs
  <2>4. UNCHANGED fragment
    BY <2>1 DEF Turn
  <2>5. OutputType'
    BY <2>2, <2>3, <2>4, StreamIs, FlushedOutput
  <2> QED
    BY <2>1, <2>5, TurnTypes
<1>4. CASE Choose
  <2>1. Turn /\ UNCHANGED <<fragment, stream, mux, sent>>
    BY <1>4 DEF Choose, Turn
  <2> QED
    BY <2>1, SameOutput, TurnTypes
<1>5. CASE AudioCopy
  <2>1. /\ pc = "audio" /\ at < FrameSize /\ ~ MustFlush(Filled) /\ at' = at + Copied
        /\ stream' = [stream EXCEPT ![order] = Filled]
        /\ UNCHANGED <<fragment, first, order, pc, mux, sent>>
    BY <1>5 DEF AudioCopy
  <2>2. Filled \in StreamOf(MaxPayload) /\ Filled.index # MaxPayload
    BY <2>1, FilledIs DEF MustFlush
  <2>3. Filled.index \in 0 .. MaxPayload - 1
    BY <2>2, Numbers DEF StreamOf
  <2>4. Filled \in StreamOf(MaxPayload - 1)
    BY <2>2, <2>3 DEF StreamOf
  <2>5. OutputType'
    <3>1. Fragments' = Fragments
      BY <2>1 DEF Fragments
    <3>2. OutputType
      BY DEF OutputType, Types, LoopType
    <3> HIDE DEF Types
    <3> QED
      BY <2>1, <2>4, <3>1, <3>2 DEF OutputType, IsPes
  <2> QED
    BY <2>1, <2>5, CopiedTypes
<1>6. CASE AudioCopyFlush
  <2>1. /\ pc = "audio" /\ at < FrameSize /\ at' = at + Copied
        /\ UNCHANGED <<fragment, first, order, pc>>
    BY <1>6 DEF AudioCopyFlush
  <2>2. Flush(order, Filled)
    BY <1>6 DEF AudioCopyFlush
  <2>3. /\ order \in Fragments /\ Filled \in StreamOf(MaxPayload)
        /\ Filled.cc = stream[order].cc /\ Filled.packets = stream[order].packets
    BY <2>1, FilledIs, HandIs
  <2>4. OutputType'
    BY <2>1, <2>2, <2>3, FlushedOutput
  <2> QED
    BY <2>1, <2>4, CopiedTypes
<1>7. CASE AudioDone
  <2>1. /\ pc = "audio" /\ first' = [first EXCEPT ![order] = @ + 1] /\ pc' = "choose"
        /\ UNCHANGED <<fragment, order, at>>
    BY <1>7 DEF AudioDone
  <2>2. order \in Fragments
    BY <2>1, HandIs
  <2>3. CASE UNCHANGED <<stream, mux, sent>>
    BY <2>1, <2>3, SameOutput, TakenTypes
  <2>4. CASE Flush(order, stream[order])
    <3>1. OutputType'
      BY <2>1, <2>2, <2>4, StreamIs, FlushedOutput
    <3> QED
      BY <2>1, <3>1, TakenTypes
  <2> QED
    BY <1>7, <2>3, <2>4 DEF AudioDone
<1>8. CASE VideoDropped
  <2>1. /\ pc = "video" /\ first' = [first EXCEPT ![order] = @ + 1] /\ pc' = "choose"
        /\ UNCHANGED <<fragment, order, at, stream, mux, sent>>
    BY <1>8 DEF VideoDropped, VideoTaken
  <2> QED
    BY <2>1, SameOutput, TakenTypes
<1>9. CASE VideoSent
  <2>1. /\ pc = "video" /\ first' = [first EXCEPT ![order] = @ + 1] /\ pc' = "choose"
        /\ UNCHANGED <<fragment, order, at>>
    BY <1>9 DEF VideoSent, VideoTaken
  <2>2. PICK e, r : Emission(order, e, r)
    BY <1>9, VideoIs
  <2>3. OutputType'
    BY <2>1, <2>2, EmissionTypes DEF OutputType
  <2> QED
    BY <2>1, <2>3, TakenTypes
<1>10. CASE Crash
  <2>1. pc' = "crashed" /\ UNCHANGED <<fragment, first, stream, mux, order, at, sent>>
    BY <1>10 DEF Crash
  <2>2. OutputType' /\ InHand'
    BY <2>1, SameOutput DEF InHand
  <2>3. /\ first \in [Fragments -> Nat] /\ \A f \in Fragments : first[f] <= fragment[f].size
        /\ order \in 0 .. Len(fragment) /\ at \in Nat
    BY DEF Types, LoopType
  <2> QED
    BY <2>1, <2>2, <2>3, TypesAgain
<1>11. CASE UNCHANGED vars
  BY <1>11 DEF vars, Types, FragmentsType, LoopType, InHand, NothingYet, Fragments, IsPes, IsAudio,
               FrameSize, Sample
<1> QED
  BY <1>1, <1>2, <1>3, <1>4, <1>5, <1>6, <1>7, <1>8, <1>9, <1>10, <1>11 DEF Next

\* The variables keep their types: a payload always has room for a byte, the
\* counters have 4 bits, the sample in hand is one that is sent, and the times
\* stay apart from NoPts.
THEOREM TypesHold == Spec => []Types
<1>1. Init => Types
  BY InitTypes
<1>2. Types /\ [Next]_vars => Types'
  BY NextTypes
<1> QED
  BY <1>1, <1>2, PTL DEF Spec

-------------------------------------------------------------------------------
(* The steps, by what they do to the loop. *)

Rest ==
    /\ \/ pc \in {"read", "choose"} /\ pc' \in {"choose", "done", "failed"}
       \/ pc' = "crashed"
    /\ pc' = "done" => LoopEnds
    /\ UNCHANGED <<fragment, first, stream, mux, order, at, sent>>

Copy ==
    /\ pc = "audio" /\ at < FrameSize /\ at' = at + Copied
    /\ UNCHANGED <<fragment, first, window, order, pc>>

Taken ==
    /\ pc \in {"audio", "video"}
    /\ first' = [first EXCEPT ![order] = @ + 1] /\ pc' = "choose"
    /\ UNCHANGED <<fragment, window, order, at>>

LEMMA LoopSteps ==
    [Next]_vars => ConvertTimes \/ Rest \/ Turn \/ Copy \/ Taken \/ UNCHANGED vars
BY DEF Next, Rest, Turn, Copy, Taken, Refuse, Read, Finish, ChooseFlush, Choose, AudioCopy,
       AudioCopyFlush, AudioDone, VideoDropped, VideoSent, VideoTaken, Crash

\* The samples taken so far are not later than those to come, whichever
\* fragment they are of, and the one in hand is the earliest.
Merged ==
    /\ \A f, g \in Fragments :
         first[f] > 0 => fragment[f].samples[first[f] - 1].pts <= Sample(g).pts
    /\ pc \in {"audio", "video"} =>
         \A g \in Fragments : ~ Exhausted(g) /\ Sample(order).pts <= Sample(g).pts

LEMMA MergedNext == Types /\ Merged /\ [Next]_vars => Merged'
<1> SUFFICES ASSUME Types, Merged, [Next]_vars PROVE Merged'
  OBVIOUS
<1>1. CASE ConvertTimes
  <2>1. Fragments' = Fragments /\ pc' = "read" /\ \A f \in Fragments : first'[f] = 0
    BY <1>1 DEF ConvertTimes, Types, NothingYet, Fragments
  <2> QED
    BY <2>1 DEF Merged
<1>2. CASE Rest \/ Copy \/ UNCHANGED vars
  <2>1. UNCHANGED <<fragment, first, order>> /\ (pc' = pc \/ pc' \notin {"audio", "video"})
    BY <1>2 DEF Rest, Copy, vars
  <2> QED
    BY <2>1 DEF Merged, Fragments, Sample, Exhausted
<1>3. CASE Turn
  <2>1. UNCHANGED <<fragment, first>> /\ order' = Earliest /\ ~ LoopEnds
    BY <1>3 DEF Turn
  <2>2. /\ \A g \in Fragments : ~ Exhausted(g) /\ Sample(Earliest).pts <= Sample(g).pts
    BY <2>1, EarliestIs DEF LoopEnds
  <2>3. /\ Fragments' = Fragments
        /\ \A g \in Fragments : Sample(g)' = Sample(g) /\ (Exhausted(g)' <=> Exhausted(g))
    BY <2>1 DEF Fragments, Sample, Exhausted
  <2>4. Sample(order)' = Sample(Earliest)
    BY <2>1 DEF Sample
  <2> HIDE DEF Turn
  <2> QED
    BY <2>1, <2>2, <2>3, <2>4 DEF Merged
<1>4. CASE Taken
  <2>1. /\ pc \in {"audio", "video"} /\ pc' = "choose" /\ UNCHANGED fragment
        /\ first' = [first EXCEPT ![order] = @ + 1] /\ Fragments' = Fragments
    BY <1>4 DEF Taken, Fragments
  <2>2. order \in Fragments /\ first[order] \in 0 .. fragment[order].size - 1
    BY <2>1, HandIs
  <2>3. /\ first'[order] = first[order] + 1
        /\ \A f \in Fragments \ {order} : first'[f] = first[f]
    BY <2>1, <2>2 DEF Types, LoopType
  <2>4. \A g \in Fragments : Sample(order).pts <= Sample(g).pts
    BY <2>1 DEF Merged
  <2>8. ASSUME NEW g \in Fragments
        PROVE  first'[g] \in 0 .. fragment[g].size /\ fragment[g].size \in Nat
    <3>1. first[g] \in 0 .. fragment[g].size /\ fragment[g].size \in Nat
      BY StreamIs
    <3> QED
      BY <2>2, <2>3, <3>1
  <2>5. \A g \in Fragments : Sample(g).pts \in Nat /\ Sample(g)'.pts \in Nat
    <3> SUFFICES ASSUME NEW g \in Fragments PROVE Sample(g).pts \in Nat /\ Sample(g)'.pts \in Nat
      OBVIOUS
    <3>1. Sample(g)' = fragment[g].samples[first'[g]]
      BY <2>1 DEF Sample
    <3> QED
      BY <2>8, <3>1, SampleIs, StreamIs, FragmentIs
  <2>6. \A g \in Fragments : Sample(g).pts <= Sample(g)'.pts
    <3> SUFFICES ASSUME NEW g \in Fragments PROVE Sample(g).pts <= Sample(g)'.pts
      OBVIOUS
    <3>1. CASE g = order
      <4>1. first[order] + 1 \in 0 .. fragment[order].size
        BY <2>2, StreamIs
      <4>2. fragment[order].samples[first[order]].pts <= fragment[order].samples[first[order] + 1].pts
        BY <2>2, <4>1, StreamIs, TimesGrow
      <4> QED
        BY <2>1, <2>3, <3>1, <4>2 DEF Sample
    <3>2. CASE g # order
      BY <2>1, <2>3, <2>5, <3>2 DEF Sample
    <3> QED
      BY <3>1, <3>2
  <2>7. ASSUME NEW f \in Fragments, NEW g \in Fragments, first'[f] > 0
        PROVE  fragment[f].samples[first'[f] - 1].pts <= Sample(g)'.pts
    <3>1. fragment[f].samples[first'[f] - 1].pts <= Sample(g).pts
      <4>1. CASE f = order
        <5>1. first'[f] - 1 = first[order]
          BY <2>2, <2>3, <4>1
        <5> QED
          BY <2>4, <4>1, <5>1 DEF Sample
      <4>2. CASE f # order
        <5>1. first'[f] = first[f]
          BY <2>3, <4>2
        <5> QED
          BY <2>7, <5>1 DEF Merged
      <4> QED
        BY <4>1, <4>2
    <3>2. fragment[f].samples[first'[f] - 1].pts \in Nat
      <4>2. first'[f] - 1 \in 0 .. fragment[f].size
        BY <2>7, <2>8
      <4> QED
        BY <4>2, StreamIs, FragmentIs
    <3> QED
      BY <2>5, <2>6, <3>1, <3>2
  <2> QED
    BY <2>1, <2>7 DEF Merged
<1> QED
  BY <1>1, <1>2, <1>3, <1>4, LoopSteps

\* Two fragments are merged by their times: what is left of one when the other
\* is used up is not earlier than anything taken of the other.
THEOREM TailLeft == Spec => []OnlyTailLeft
<1>1. Init => Merged
  BY DEF Init, Merged
<1>2. Types /\ Merged => OnlyTailLeft
  <2> SUFFICES ASSUME Types, Merged, NEW f \in Fragments, NEW g \in Fragments, Exhausted(f)
               PROVE  Sample(g).pts >= fragment[f].samples[fragment[f].size - 1].pts
    BY DEF OnlyTailLeft
  <2>1. first[f] = fragment[f].size /\ first[f] > 0
    BY StreamIs DEF Exhausted
  <2>2. fragment[f].samples[fragment[f].size - 1].pts <= Sample(g).pts
    BY <2>1 DEF Merged
  <2>3. fragment[f].samples[fragment[f].size - 1].pts \in Nat /\ Sample(g).pts \in Nat
    <3>1. fragment[f].size - 1 \in 0 .. fragment[f].size
      BY StreamIs
    <3> QED
      BY <3>1, StreamIs, FragmentIs, SampleIs
  <2> QED
    BY <2>2, <2>3
<1> QED
  BY <1>1, <1>2, MergedNext, TypesHold, PTL DEF Spec

-------------------------------------------------------------------------------
(* The window. *)

\* Positions that do not overlap grow over a fragment.
LEMMA PositionsGrow ==
    ASSUME NEW f, IsFragment(fragment[f]), PositionsOrdered(f),
           NEW a \in 0 .. fragment[f].size, NEW b \in 0 .. fragment[f].size, a <= b
    PROVE  fragment[f].samples[a].pos <= fragment[f].samples[b].pos
<1> DEFINE size == fragment[f].size
           p(s) == fragment[f].samples[s].pos
           bad == {k \in 0 .. size : a <= k /\ ~ (p(a) <= p(k))}
<1>1. size \in Nat
  BY DEF IsFragment
<1>2. \A s \in 0 .. size : p(s) \in Nat
  BY FragmentIs
<1>3. \A s \in 0 .. size - 1 : p(s) <= p(s + 1)
  <2> SUFFICES ASSUME NEW s \in 0 .. size - 1 PROVE p(s) <= p(s + 1)
    OBVIOUS
  <2>1. s \in 0 .. size /\ s + 1 \in 0 .. size
    BY <1>1
  <2>2. fragment[f].samples[s].size \in Nat
    BY <2>1, FragmentIs
  <2>3. p(s) + fragment[f].samples[s].size <= p(s + 1)
    BY DEF PositionsOrdered
  <2>4. p(s) \in Nat /\ p(s + 1) \in Nat
    BY <1>2, <2>1
  <2> HIDE DEF p
  <2> QED
    BY <2>2, <2>3, <2>4
<1> SUFFICES ASSUME bad # {} PROVE FALSE
  OBVIOUS
<1> HIDE DEF p
<1>4. PICK m \in bad : \A k \in bad : m <= k
  <2>1. bad \in SUBSET Nat
    BY <1>1
  <2> HIDE DEF bad
  <2> QED
    BY <2>1, LeastNumber
<1>5. m \in 0 .. size /\ a <= m /\ ~ (p(a) <= p(m)) /\ m \in Nat /\ a \in Nat
  BY <1>1
<1>6. m # a
  BY <1>2, <1>5
<1>7. m - 1 \in 0 .. size - 1 /\ m - 1 \in 0 .. size /\ a <= m - 1
  BY <1>1, <1>5, <1>6
<1>8. m - 1 \notin bad
  BY <1>4, <1>5
<1>9. p(a) <= p(m - 1)
  BY <1>7, <1>8
<1>10. p(m - 1) <= p(m - 1 + 1) /\ m - 1 + 1 = m
  BY <1>3, <1>5, <1>7
<1> QED
  BY <1>2, <1>5, <1>7, <1>9, <1>10

\* The span of the fragments has every one of them.
LEMMA SpanIs ==
    ASSUME Types, NEW f \in Fragments
    PROVE  /\ Span.offset \in Nat /\ Span.end \in Nat
           /\ Span.offset <= Begins(f) /\ Ends(f) <= Span.end
<1> DEFINE B == {Begins(g) : g \in Fragments}
           E == {Ends(g) : g \in Fragments}
<1>1. \A g \in Fragments : Begins(g) \in Nat /\ Ends(g) \in Nat
  <2> SUFFICES ASSUME NEW g \in Fragments PROVE Begins(g) \in Nat /\ Ends(g) \in Nat
    OBVIOUS
  <2>1. 0 \in 0 .. fragment[g].size /\ fragment[g].size \in 0 .. fragment[g].size
    BY StreamIs
  <2> QED
    BY <2>1, StreamIs, FragmentIs DEF Begins, Ends
<1>2. B \in SUBSET Nat /\ B # {} /\ Begins(f) \in B
  BY <1>1
<1>3. E \in SUBSET Nat /\ Ends(f) \in E
  BY <1>1
<1>4. PICK x \in E : \A y \in E : y <= x
  <2>1. Fragments = {1} \/ Fragments = {1, 2}
    <3>1. Len(fragment) \in 1 .. 2 /\ 1 .. 1 = {1} /\ 1 .. 2 = {1, 2}
      BY DEF Types, FragmentsType
    <3>2. CASE Len(fragment) = 1
      BY <3>1, <3>2 DEF Fragments
    <3>3. CASE Len(fragment) = 2
      BY <3>1, <3>3 DEF Fragments
    <3> QED
      BY <3>1, <3>2, <3>3
  <2>2. CASE Fragments = {1}
    BY <1>1, <2>2
  <2>3. CASE Fragments = {1, 2}
    <3>1. E = {Ends(1), Ends(2)} /\ Ends(1) \in Nat /\ Ends(2) \in Nat
      BY <1>1, <2>3
    <3> HIDE DEF E
    <3>2. CASE Ends(1) <= Ends(2)
      BY <3>1, <3>2
    <3>3. CASE Ends(2) <= Ends(1)
      BY <3>1, <3>3
    <3> QED
      BY <3>1, <3>2, <3>3
  <2> QED
    BY <2>1, <2>2, <2>3
<1>5. Span.offset = Min(B) /\ Span.end = Max(E)
  BY DEF Span
<1> HIDE DEF B, E
<1>6. Min(B) \in B /\ \A y \in B : Min(B) <= y
  BY <1>2, MinIs
<1>7. Max(E) \in E /\ \A y \in E : y <= Max(E)
  BY <1>4, MaxIs
<1> QED
  BY <1>2, <1>3, <1>5, <1>6, <1>7

\* What was read is the span of the fragments, as far as the file goes.
WindowRead ==
    pc \in {"choose", "audio", "video"} => window = [Span EXCEPT !.end = Min({@, filesize})]

LEMMA WindowNext == Types /\ WindowRead /\ [Next]_vars => WindowRead'
<1> SUFFICES ASSUME Types, WindowRead, [Next]_vars PROVE WindowRead'
  OBVIOUS
<1>1. UNCHANGED fragment => Span' = Span
  BY DEF Span, Begins, Ends, Fragments
<1>2. CASE ConvertTimes
  BY <1>2 DEF ConvertTimes, WindowRead
<1>3. CASE Refuse \/ Read \/ Finish \/ Crash
  BY <1>1, <1>3 DEF Refuse, Read, Finish, Crash, WindowRead
<1>4. CASE /\ Turn \/ Copy \/ Taken \/ UNCHANGED vars
           /\ UNCHANGED filesize
  <2>1. UNCHANGED <<fragment, window, filesize>> /\ (pc' = pc \/ pc \in {"choose", "audio", "video"})
    BY <1>4 DEF Turn, Copy, Taken, vars
  <2> QED
    BY <1>1, <2>1 DEF WindowRead
<1>5. CASE ChooseFlush \/ Choose \/ AudioCopy \/ AudioCopyFlush \/ AudioDone \/ VideoDropped \/ VideoSent
  <2>1. (Turn \/ Copy \/ Taken) /\ UNCHANGED filesize
    BY <1>5 DEF Turn, Copy, Taken, ChooseFlush, Choose, AudioCopy,
                AudioCopyFlush, AudioDone, VideoDropped, VideoSent, VideoTaken
  <2> QED
    BY <2>1, <1>4
<1>6. CASE UNCHANGED vars
  BY <1>4, <1>6 DEF vars
<1> QED
  BY <1>2, <1>3, <1>5, <1>6 DEF Next

FileSizeHolds == filesize \in Nat

LEMMA FileSizeNext == FileSizeHolds /\ [Next]_vars => FileSizeHolds'
BY DEF FileSizeHolds, Next, vars, ConvertTimes, Refuse, Read, Finish, ChooseFlush, Choose, AudioCopy,
       AudioCopyFlush, AudioDone, VideoDropped, VideoSent, VideoTaken, Crash

\* The bytes of the sample in hand were read, whichever fragment it is of, if
\* the positions of its fragment are in order and the file has those bytes.
THEOREM HandInWindow == Spec => []InWindow
<1>1. Init => WindowRead /\ FileSizeHolds
  BY BoundsAssumption DEF Init, WindowRead, FileSizeHolds
<1>2. Types /\ WindowRead /\ FileSizeHolds => InWindow
  <2> SUFFICES ASSUME Types, WindowRead, FileSizeHolds, pc \in {"audio", "video"},
                      PositionsOrdered(order), ~ (filesize < Sample(order).pos + Sample(order).size)
               PROVE  /\ Sample(order).pos >= window.offset
                      /\ Sample(order).pos + Sample(order).size <= window.end
    BY DEF InWindow, Readable
  <2> DEFINE s == first[order]
             size == fragment[order].size
             p(k) == fragment[order].samples[k].pos
  <2>1. order \in Fragments /\ s \in 0 .. size - 1 /\ size \in Nat /\ IsFragment(fragment[order])
    BY HandIs, StreamIs
  <2>2. s \in 0 .. size /\ s + 1 \in 0 .. size /\ 0 \in 0 .. size /\ size \in 0 .. size
        /\ 0 <= s /\ s + 1 <= size
    BY <2>1
  <2>3. p(0) <= p(s) /\ p(s + 1) <= p(size)
    BY <2>1, <2>2, PositionsGrow
  <2>4. p(s) + Sample(order).size <= p(s + 1)
    BY <2>1 DEF PositionsOrdered, Sample
  <2>5. p(0) \in Nat /\ p(s) \in Nat /\ p(s + 1) \in Nat /\ p(size) \in Nat
        /\ Sample(order).size \in Nat /\ filesize \in Nat
    BY <2>1, <2>2, FragmentIs, SampleIs DEF FileSizeHolds
  <2>6. p(0) = Begins(order) /\ p(size) = Ends(order) /\ Sample(order).pos = p(s)
    BY DEF Begins, Ends, Sample
  <2>7. Span.offset \in Nat /\ Span.end \in Nat /\ Span.offset <= p(0) /\ p(size) <= Span.end
    BY <2>1, <2>6, SpanIs
  <2>8. window.offset = Span.offset /\ window.end = Min({Span.end, filesize})
    BY DEF WindowRead, Span
  <2>9. Min({Span.end, filesize}) \in {Span.end, filesize}
    BY <2>5, <2>7, MinOfTwo
  <2> HIDE DEF p, s, size
  <2> QED
    BY <2>3, <2>4, <2>5, <2>6, <2>7, <2>8, <2>9
<1> QED
  BY <1>1, <1>2, WindowNext, FileSizeNext, TypesHold, PTL DEF Spec

-------------------------------------------------------------------------------
(* The steps, by what they do to the loop and to the output. *)

Silent == UNCHANGED <<stream, mux, sent>>

\* The payload of the fragment whose turn it was leaves as it is.
HeldLeaves ==
    /\ order \in Fragments /\ IsAudio(order) /\ stream[order].index # 0
    /\ \E e, r : Emission(order, e, r) /\ Payload(stream[order], e, r)

\* It leaves with the piece just copied.
FilledLeaves == \E e, r : Emission(order, e, r) /\ Payload(Filled, e, r)

VideoLeaves == \E e, r : Emission(order, e, r) /\ Video(e, r)

\* Nothing is held back by the fragment the loop turns from.
Released == TurnsAway(Earliest) => stream[order].index = 0

\* Nothing is held back after the last sample.
LastFlushed == first[order] + 1 = fragment[order].size => stream[order].index = 0

Steps ==
    \/ ConvertTimes \/ Rest \/ UNCHANGED vars
    \/ Turn /\ Silent /\ Released
    \/ Turn /\ TurnsAway(Earliest) /\ HeldLeaves
    \/ Copy /\ AudioCopy
    \/ Copy /\ FilledLeaves
    \/ Taken /\ pc = "audio" /\ at = FrameSize /\ Silent /\ LastFlushed
    \/ Taken /\ pc = "audio" /\ at = FrameSize /\ HeldLeaves
    \/ Taken /\ pc = "video" /\ Silent
    \/ Taken /\ pc = "video" /\ VideoLeaves

\* A flush of what is held.
LEMMA HeldFlush ==
    ASSUME Types, order \in Fragments, IsAudio(order), Flush(order, stream[order])
    PROVE  (Silent /\ stream[order].index = 0) \/ HeldLeaves
<1>1. CASE stream[order].index = 0
  <2>1. stream' = [stream EXCEPT ![order] = stream[order]] /\ UNCHANGED <<mux, sent>>
    BY <1>1 DEF Flush
  <2>2. stream \in [Fragments -> StreamOf(MaxPayload - 1)]
    BY DEF Types, LoopType
  <2>3. stream' = stream
    BY <2>1, <2>2
  <2> QED
    BY <1>1, <2>1, <2>3 DEF Silent
<1>2. CASE stream[order].index # 0
  <2>1. \E e, r : Emission(order, e, r) /\ Payload(stream[order], e, r)
    BY <1>2, StreamIs, FlushIs
  <2> QED
    BY <1>2, <2>1 DEF HeldLeaves
<1> QED
  BY <1>1, <1>2

LEMMA StepsTaken == Types /\ [Next]_vars => Steps
<1> SUFFICES ASSUME Types, [Next]_vars PROVE Steps
  OBVIOUS
<1>1. CASE Refuse \/ Read \/ Finish \/ Crash
  BY <1>1 DEF Refuse, Read, Finish, Crash, Rest, Steps
<1>2. CASE ChooseFlush
  <2>1. Turn /\ pc = "choose" /\ TurnsAway(Earliest)
    BY <1>2 DEF ChooseFlush, Turn
  <2>2. Flush(order, stream[order])
    BY <1>2 DEF ChooseFlush
  <2>3. order \in Fragments /\ IsAudio(order)
    BY <2>1, AwayIs
  <2>4. (Silent /\ stream[order].index = 0) \/ HeldLeaves
    BY <2>2, <2>3, HeldFlush
  <2> QED
    BY <2>1, <2>4 DEF Steps, Released
<1>3. CASE Choose
  BY <1>3 DEF Choose, Turn, Silent, Released, Steps
<1>4. CASE AudioCopy
  BY <1>4 DEF AudioCopy, Copy, Steps
<1>5. CASE AudioCopyFlush
  <2>1. Copy
    BY <1>5 DEF AudioCopyFlush, Copy
  <2>2. Flush(order, Filled)
    BY <1>5 DEF AudioCopyFlush
  <2>3. /\ order \in Fragments /\ Filled \in StreamOf(MaxPayload)
        /\ Filled.cc = stream[order].cc /\ Filled.packets = stream[order].packets
        /\ Filled.index = stream[order].index + Copied /\ Copied \in Nat \ {0}
    BY <2>1, FilledIs, HandIs DEF Copy
  <2>4. Filled.index # 0
    BY <2>3, StreamIs
  <2>5. FilledLeaves
    BY <2>2, <2>3, <2>4, FlushIs DEF FilledLeaves
  <2> QED
    BY <2>1, <2>5 DEF Steps
<1>6. CASE AudioDone
  <2>1. Taken /\ pc = "audio" /\ at = FrameSize
    BY <1>6 DEF AudioDone, Taken
  <2>2. order \in Fragments /\ IsAudio(order)
    BY <2>1, HandIs DEF Types, InHand
  <2>3. CASE first[order] + 1 # fragment[order].size
    BY <1>6, <2>1, <2>3 DEF AudioDone, Silent, LastFlushed, Steps
  <2>4. CASE first[order] + 1 = fragment[order].size
    <3>1. Flush(order, stream[order])
      BY <1>6, <2>4 DEF AudioDone
    <3>2. (Silent /\ stream[order].index = 0) \/ HeldLeaves
      BY <2>2, <3>1, HeldFlush
    <3> QED
      BY <2>1, <3>2 DEF LastFlushed, Steps
  <2> QED
    BY <2>3, <2>4
<1>7. CASE VideoDropped
  BY <1>7 DEF VideoDropped, VideoTaken, Taken, Silent, Steps
<1>8. CASE VideoSent
  <2>1. Taken /\ pc = "video"
    BY <1>8 DEF VideoSent, VideoTaken, Taken
  <2>2. VideoLeaves
    BY <1>8, VideoIs DEF VideoLeaves
  <2> QED
    BY <2>1, <2>2 DEF Steps
<1> QED
  BY <1>1, <1>2, <1>3, <1>4, <1>5, <1>6, <1>7, <1>8 DEF Next, Steps

\* The three ways a packet leaves, as one.
Leaves ==
    /\ UNCHANGED fragment
    /\ \E e, r : /\ Emission(order, e, r)
                 /\ IsAudio(order) => ~ e.params
                 /\ ~ IsAudio(order) => (e.params <=> stream[order].packets = 0)

\* No packet leaves, and no counter is changed.
Keeps ==
    /\ Fragments' = Fragments /\ UNCHANGED <<mux, sent>>
    /\ \A f \in Fragments : /\ IsAudio(f)' <=> IsAudio(f)
                            /\ stream'[f].cc = stream[f].cc
                            /\ stream'[f].packets = stream[f].packets

LEMMA LeavesOrKeeps == Types /\ [Next]_vars => Leaves \/ Keeps
<1> SUFFICES ASSUME Types, Steps PROVE Leaves \/ Keeps
  BY StepsTaken
<1>1. CASE ConvertTimes
  <2>1. UNCHANGED <<stream, mux, sent>> /\ Fragments' = Fragments
    BY <1>1 DEF ConvertTimes, Fragments, Types, FragmentsType
  <2>2. \A f \in Fragments : fragment'[f].kind = fragment[f].kind
    <3> SUFFICES ASSUME NEW f \in Fragments PROVE fragment'[f].kind = fragment[f].kind
      OBVIOUS
    <3>1. fragment'[f] = Converted(fragment[f])
      BY <1>1 DEF ConvertTimes
    <3> QED
      BY <3>1, StreamIs, ConvertedIs
  <2> QED
    BY <2>1, <2>2 DEF Keeps, IsAudio
<1>2. CASE UNCHANGED <<fragment, stream, mux, sent>>
  BY <1>2 DEF Keeps, Fragments, IsAudio
<1>3. CASE Copy /\ AudioCopy
  <2>1. /\ stream' = [stream EXCEPT ![order] = Filled] /\ UNCHANGED <<fragment, mux, sent>>
    BY <1>3 DEF AudioCopy
  <2>2. Filled.cc = stream[order].cc /\ Filled.packets = stream[order].packets
    BY <1>3, FilledIs DEF Copy
  <2>3. stream \in [Fragments -> StreamOf(MaxPayload - 1)]
    BY DEF Types, LoopType
  <2> HIDE DEF Types
  <2> QED
    BY <2>1, <2>2, <2>3 DEF Keeps, Fragments, IsAudio
<1>4. CASE HeldLeaves /\ UNCHANGED fragment
  BY <1>4 DEF HeldLeaves, Leaves, Payload
<1>5. CASE Copy /\ FilledLeaves
  <2>1. IsAudio(order)
    BY <1>5 DEF Copy, Types, InHand
  <2> QED
    BY <1>5, <2>1 DEF FilledLeaves, Leaves, Payload, Copy
<1>6. CASE Taken /\ pc = "video" /\ VideoLeaves
  <2>1. ~ IsAudio(order)
    BY <1>6 DEF Types, InHand
  <2> QED
    BY <1>6, <2>1 DEF VideoLeaves, Leaves, Video, Taken
<1> QED
  BY <1>1, <1>2, <1>3, <1>4, <1>5, <1>6 DEF Steps, Rest, Turn, Taken, Silent, vars

\* How the places of the entries grow when stream f sends e: the bucket had n
\* entries and has m.
Grown(f, e, n, m) ==
    /\ n = Len(sent) /\ m = Len(sent')
    /\ n \in Nat /\ m \in Nat /\ m = IF TablesDue(e.dts) THEN n + 2 ELSE n + 1
    /\ \A k \in 1 .. n : sent'[k] = sent[k]
    /\ sent'[m] = e
    /\ TablesDue(e.dts) => TablesFor(sent'[n + 1], e.dts)
    /\ \A k \in 0 .. n : TablesAt(k)' = TablesAt(k)
    /\ \A k \in 0 .. n : \A g : PesAt(g, k)' = PesAt(g, k) /\ BuiltAt(g, k)' = BuiltAt(g, k)
    /\ TablesAt(m - 1)' = IF TablesDue(e.dts) THEN TablesAt(n) \cup {n + 1} ELSE TablesAt(n)
    /\ TablesAt(m)' = TablesAt(m - 1)'
    /\ \A g : PesAt(g, m - 1)' = PesAt(g, n) /\ BuiltAt(g, m - 1)' = BuiltAt(g, n)
    /\ PesAt(f, m)' = PesAt(f, n) \cup {m}
    /\ \A g : g # f => PesAt(g, m)' = PesAt(g, n)
    /\ e.kind # "lost" => BuiltAt(f, m)' = BuiltAt(f, n) \cup {m}
    /\ \A g : ~ (g = f /\ e.kind # "lost") => BuiltAt(g, m)' = BuiltAt(g, n)

LEMMA PlacesGrow ==
    ASSUME Types, NEW f, NEW e, NEW r, Emission(f, e, r)
    PROVE  \E n, m : Grown(f, e, n, m)
<1> PICK n : n = Len(sent)
  OBVIOUS
<1> PICK m : m = Len(sent')
  OBVIOUS
<1>1. /\ n \in Nat /\ m \in Nat /\ m = IF TablesDue(e.dts) THEN n + 2 ELSE n + 1
      /\ \A k \in 1 .. n : sent'[k] = sent[k]
      /\ sent'[m] = e
      /\ TablesDue(e.dts) => TablesFor(sent'[n + 1], e.dts)
  BY EmissionGrows
<1>2. e \in PesRec /\ e.stream = f
  BY DEF Emission
<1>3. e.dts \in Nat /\ IsPes(e)
  BY <1>2 DEF PesRec, IsPes
<1>4. TablesDue(e.dts) => ~ IsPes(sent'[n + 1])
  BY <1>1, <1>3, TablesType
<1>5. ASSUME NEW k \in 0 .. n
      PROVE  /\ TablesAt(k)' = TablesAt(k)
             /\ \A g : PesAt(g, k)' = PesAt(g, k) /\ BuiltAt(g, k)' = BuiltAt(g, k)
  <2>1. \A j \in 1 .. k : sent'[j] = sent[j]
    BY <1>1
  <2>2. TablesAt(k)' = TablesAt(k)
    BY <2>1 DEF TablesAt, IsPes
  <2>3. \A g : PesAt(g, k)' = PesAt(g, k)
    BY <2>1 DEF PesAt, IsPes
  <2>4. \A g : BuiltAt(g, k)' = BuiltAt(g, k)
    BY <2>1 DEF PesAt, BuiltAt, IsPes
  <2> QED
    BY <2>2, <2>3, <2>4
<1> DEFINE Parts ==
             /\ TablesAt(m - 1)' = IF TablesDue(e.dts) THEN TablesAt(n) \cup {n + 1} ELSE TablesAt(n)
             /\ TablesAt(m)' = TablesAt(m - 1)'
             /\ \A g : PesAt(g, m - 1)' = PesAt(g, n) /\ BuiltAt(g, m - 1)' = BuiltAt(g, n)
             /\ PesAt(f, m)' = PesAt(f, n) \cup {m}
             /\ \A g : g # f => PesAt(g, m)' = PesAt(g, n)
             /\ e.kind # "lost" => BuiltAt(f, m)' = BuiltAt(f, n) \cup {m}
             /\ \A g : ~ (g = f /\ e.kind # "lost") => BuiltAt(g, m)' = BuiltAt(g, n)
<1>6. ASSUME TablesDue(e.dts) PROVE Parts
  <2>1. m = n + 2 /\ 1 .. m - 1 = (1 .. n) \cup {n + 1} /\ 1 .. m = (1 .. m - 1) \cup {m}
        /\ m \notin 1 .. n
    BY <1>1, <1>6
  <2>2. /\ ~ IsPes(sent'[n + 1]) /\ IsPes(sent'[m]) /\ sent'[m].stream = f /\ sent'[m].kind = e.kind
    BY <1>1, <1>2, <1>3, <1>4, <1>6
  <2> HIDE DEF IsPes
  <2>3. TablesAt(m - 1)' = TablesAt(n) \cup {n + 1} /\ TablesAt(m)' = TablesAt(m - 1)'
    <3>1. \A j \in 1 .. n : IsPes(sent[j])' <=> IsPes(sent[j])
      BY <1>1 DEF IsPes
    <3> QED
      BY <2>1, <2>2, <3>1 DEF TablesAt
  <2>4. ASSUME NEW g
        PROVE  /\ PesAt(g, m - 1)' = PesAt(g, n)
               /\ PesAt(g, m)' = IF g = f THEN PesAt(g, n) \cup {m} ELSE PesAt(g, n)
    <3>1. \A j \in 1 .. n : (IsPes(sent[j])' <=> IsPes(sent[j])) /\ sent'[j] = sent[j]
      BY <1>1 DEF IsPes
    <3> QED
      BY <2>1, <2>2, <3>1 DEF PesAt
  <2>5. ASSUME NEW g
        PROVE  /\ BuiltAt(g, m - 1)' = BuiltAt(g, n)
               /\ BuiltAt(g, m)' = IF g = f /\ e.kind # "lost" THEN BuiltAt(g, n) \cup {m}
                                                              ELSE BuiltAt(g, n)
    <3>1. \A j \in PesAt(g, n) : sent'[j] = sent[j]
      BY <1>1 DEF PesAt
    <3> QED
      BY <2>2, <2>4, <3>1 DEF BuiltAt
  <2> QED
    BY <1>6, <2>3, <2>4, <2>5
<1>7. ASSUME ~ TablesDue(e.dts) PROVE Parts
  <2>1. m = n + 1 /\ m - 1 = n /\ 1 .. m = (1 .. n) \cup {m} /\ m \notin 1 .. n /\ n \in 0 .. n
    BY <1>1, <1>7
  <2>2. IsPes(sent'[m]) /\ sent'[m].stream = f /\ sent'[m].kind = e.kind
    BY <1>1, <1>2, <1>3
  <2>3. TablesAt(m)' = TablesAt(m - 1)' /\ TablesAt(m - 1)' = TablesAt(n)
    <3>1. TablesAt(m)' = TablesAt(n)'
      BY <2>1, <2>2 DEF TablesAt
    <3> QED
      BY <1>5, <2>1, <3>1
  <2>4. ASSUME NEW g
        PROVE  /\ PesAt(g, m - 1)' = PesAt(g, n)
               /\ PesAt(g, m)' = IF g = f THEN PesAt(g, n) \cup {m} ELSE PesAt(g, n)
    <3>1. PesAt(g, m)' = IF g = f THEN PesAt(g, n)' \cup {m} ELSE PesAt(g, n)'
      BY <2>1, <2>2 DEF PesAt
    <3> QED
      BY <1>5, <2>1, <3>1
  <2>5. ASSUME NEW g
        PROVE  /\ BuiltAt(g, m - 1)' = BuiltAt(g, n)
               /\ BuiltAt(g, m)' = IF g = f /\ e.kind # "lost" THEN BuiltAt(g, n) \cup {m}
                                                              ELSE BuiltAt(g, n)
    <3>1. BuiltAt(g, m - 1)' = BuiltAt(g, n)
      BY <1>5, <2>1
    <3>2. \A j \in PesAt(g, n) : sent'[j] = sent[j]
      BY <1>1 DEF PesAt
    <3> QED
      BY <2>2, <2>4, <3>1, <3>2 DEF BuiltAt
  <2> QED
    BY <1>7, <2>3, <2>4, <2>5
<1>8. /\ \A k \in 0 .. n : TablesAt(k)' = TablesAt(k)
      /\ \A k \in 0 .. n : \A g : PesAt(g, k)' = PesAt(g, k) /\ BuiltAt(g, k)' = BuiltAt(g, k)
  BY <1>5
<1>9. n = Len(sent) /\ m = Len(sent')
  OBVIOUS
<1> QED
  <2>1. Parts
    BY <1>6, <1>7
  <2>2. Grown(f, e, n, m)
    BY ONLY <1>1, <1>8, <1>9, <2>1 DEF Grown
  <2> QED
    BY <2>2

-------------------------------------------------------------------------------
(* Continuity counters and parameter sets. *)

\* The counter that follows the packets at these places.
CounterAfter(places) ==
    IF places = {} THEN 0 ELSE (sent[Max(places)].cc + sent[Max(places)].n) % 16

\* A stream's counter is what its packets so far make it; it has sent some if
\* any of its PES packets found memory.
StreamCounters ==
    \A f \in Fragments :
        /\ stream[f].packets = 0 <=> BuiltAt(f, Len(sent)) = {}
        /\ stream[f].cc = CounterAfter(BuiltAt(f, Len(sent)))

\* The tables' counters are what the tables so far make them.
TableCounters ==
    /\ mux.pat_cc = Cardinality(TablesAt(Len(sent))) % 16
    /\ mux.pmt_cc = Cardinality(TablesAt(Len(sent))) % 16

Counters == StreamCounters /\ TableCounters /\ CountersContinue /\ ParametersFirst

LEMMA PlacesIn ==
    ASSUME Types, NEW k \in 0 .. Len(sent)
    PROVE  /\ TablesAt(k) \in SUBSET (1 .. k)
           /\ \A f : PesAt(f, k) \in SUBSET (1 .. k) /\ BuiltAt(f, k) \in SUBSET (1 .. k)
BY DEF TablesAt, PesAt, BuiltAt

\* What was sent before is not changed.
LEMMA CounterAfterKept ==
    ASSUME Types, NEW f, NEW e, NEW r, Emission(f, e, r), NEW g, NEW k \in 0 .. Len(sent)
    PROVE  CounterAfter(BuiltAt(g, k))' = CounterAfter(BuiltAt(g, k))
<1>0. PICK n, m : Grown(f, e, n, m)
  BY PlacesGrow
<1>1. PICK S : S = BuiltAt(g, k)
  OBVIOUS
<1>2. BuiltAt(g, k)' = S /\ n \in Nat /\ n = Len(sent) /\ \A j \in 1 .. n : sent'[j] = sent[j]
  <2>1. \A j \in 0 .. n : \A h : BuiltAt(h, j)' = BuiltAt(h, j)
    BY <1>0 DEF Grown
  <2>2. n \in Nat /\ n = Len(sent) /\ \A j \in 1 .. n : sent'[j] = sent[j]
    BY <1>0 DEF Grown
  <2> QED
    BY <1>1, <2>1, <2>2
<1>3. S \in SUBSET (1 .. k) /\ k \in 0 .. n
  BY <1>1, <1>2, PlacesIn
<1>4. \A j \in 1 .. n : sent'[j] = sent[j]
  BY <1>2
<1>5. CASE S = {}
  BY <1>1, <1>2, <1>5 DEF CounterAfter
<1>6. CASE S # {}
  <2>1. k \in Nat
    BY <1>2, <1>3
  <2>2. Max(S) \in S
    BY <1>3, <1>6, <2>1, MaxPlace
  <2>3. Max(S) \in 1 .. n
    <3>1. PICK x : x = Max(S)
      OBVIOUS
    <3>2. x \in 1 .. k
      BY <1>3, <2>2, <3>1
    <3>3. \A y \in 1 .. k : y \in 1 .. n
      BY <1>2, <1>3, <2>1
    <3> QED
      BY <3>1, <3>2, <3>3
  <2>4. sent'[Max(S)] = sent[Max(S)]
    BY <1>4, <2>3
  <2> QED
    BY <1>1, <1>2, <1>6, <2>4 DEF CounterAfter
<1> QED
  BY <1>5, <1>6

LEMMA CountersInit == Init => Counters
<1> SUFFICES ASSUME Init PROVE Counters
  OBVIOUS
<1>1. sent = <<>> /\ Len(sent) = 0 /\ 1 .. 0 = {}
  BY DEF Init
<1>2. TablesAt(Len(sent)) = {} /\ \A f : BuiltAt(f, Len(sent)) = {} /\ PesAt(f, Len(sent)) = {}
  BY <1>1 DEF TablesAt, BuiltAt, PesAt
<1>3. mux.pat_cc = 0 /\ mux.pmt_cc = 0 /\ \A f \in Fragments : stream[f].cc = 0 /\ stream[f].packets = 0
  BY DEF Init, NewStream
<1>4. Cardinality(TablesAt(Len(sent))) % 16 = 0
  BY <1>2, FS_EmptySet
<1> QED
  BY <1>2, <1>3, <1>4
  DEF Counters, StreamCounters, TableCounters, CountersContinue, ParametersFirst, CounterAfter

LEMMA CountersKept ==
    ASSUME Types, Counters, Keeps
    PROVE  Counters'
<1>1. /\ Fragments' = Fragments /\ UNCHANGED <<mux, sent>>
      /\ \A f \in Fragments : /\ IsAudio(f)' <=> IsAudio(f)
                              /\ stream'[f].cc = stream[f].cc
                              /\ stream'[f].packets = stream[f].packets
  BY DEF Keeps
<1>2. \A k : TablesAt(k)' = TablesAt(k)
  BY <1>1 DEF TablesAt, IsPes
<1>3. \A f, k : BuiltAt(f, k)' = BuiltAt(f, k)
  BY <1>1 DEF BuiltAt, PesAt, IsPes
<1>4. \A S : CounterAfter(S)' = CounterAfter(S)
  BY <1>1 DEF CounterAfter
<1>5. StreamCounters'
  BY <1>1, <1>3, <1>4 DEF Counters, StreamCounters
<1>6. TableCounters'
  BY <1>1, <1>2 DEF Counters, TableCounters
<1>7. CountersContinue'
  BY <1>1, <1>2, <1>3 DEF Counters, CountersContinue
<1>8. ParametersFirst'
  BY <1>1, <1>3 DEF Counters, ParametersFirst
<1> QED
  BY <1>5, <1>6, <1>7, <1>8 DEF Counters

LEMMA CountersLeave ==
    ASSUME Types, Counters, Leaves
    PROVE  Counters'
<1>1. PICK e, r : /\ Emission(order, e, r)
                  /\ IsAudio(order) => ~ e.params
                  /\ ~ IsAudio(order) => (e.params <=> stream[order].packets = 0)
  BY DEF Leaves
<1>2. PICK o \in Fragments : o = order
  BY <1>1 DEF Emission
<1>3. PICK n, m : Grown(o, e, n, m)
  BY <1>1, <1>2, PlacesGrow
<1> DEFINE due == TablesDue(e.dts)
<1>5. /\ Emission(o, e, r) /\ e \in PesRec /\ e.cc = stream[o].cc
      /\ r.cc = IF e.kind # "lost" THEN (stream[o].cc + e.n) % 16 ELSE stream[o].cc
      /\ r.packets = IF e.kind # "lost" THEN stream[o].packets + e.n ELSE stream[o].packets
      /\ stream' = [stream EXCEPT ![o] = r]
      /\ mux' = NextMux(e.dts)
  BY <1>1, <1>2 DEF Emission
<1>4. n = Len(sent) /\ m = Len(sent')
  BY <1>3 DEF Grown
<1>6. /\ n \in Nat /\ m \in Nat /\ m = IF due THEN n + 2 ELSE n + 1
      /\ \A k \in 0 .. n : TablesAt(k)' = TablesAt(k)
      /\ \A k \in 0 .. n : \A g : BuiltAt(g, k)' = BuiltAt(g, k)
      /\ TablesAt(m - 1)' = IF due THEN TablesAt(n) \cup {n + 1} ELSE TablesAt(n)
      /\ TablesAt(m)' = TablesAt(m - 1)'
      /\ \A g : BuiltAt(g, m - 1)' = BuiltAt(g, n)
      /\ e.kind # "lost" => BuiltAt(o, m)' = BuiltAt(o, n) \cup {m}
      /\ \A g : ~ (g = o /\ e.kind # "lost") => BuiltAt(g, m)' = BuiltAt(g, n)
  BY ONLY <1>3 DEF Grown
<1>7. /\ \A k \in 1 .. n : sent'[k] = sent[k]
      /\ sent'[m] = e
      /\ due => TablesFor(sent'[n + 1], e.dts)
  BY ONLY <1>3 DEF Grown
<1>8. /\ Fragments' = Fragments /\ \A f \in Fragments : IsAudio(f)' <=> IsAudio(f)
  BY DEF Leaves, Fragments, IsAudio
<1>9. /\ stream'[o] = r /\ \A f \in Fragments \ {o} : stream'[f] = stream[f]
  <2>1. stream \in [Fragments -> StreamOf(MaxPayload - 1)]
    BY DEF Types, LoopType
  <2> QED
    BY <1>5, <2>1
<1>10. \A k \in 0 .. n : \A g : CounterAfter(BuiltAt(g, k))' = CounterAfter(BuiltAt(g, k))
  BY <1>4, <1>5, CounterAfterKept
<1>11. /\ \A k \in 0 .. n : TablesAt(k) \in SUBSET (1 .. k) /\ \A g : BuiltAt(g, k) \in SUBSET (1 .. k)
       /\ n \in 0 .. n
  BY <1>4, <1>6, PlacesIn
<1>12. Len(sent)' = m
  BY <1>4
<1> HIDE DEF due
<1>13. StreamCounters'
  <2> SUFFICES ASSUME NEW f \in Fragments
               PROVE  /\ stream'[f].packets = 0 <=> BuiltAt(f, m)' = {}
                      /\ stream'[f].cc = CounterAfter(BuiltAt(f, m))'
    BY <1>8, <1>12 DEF StreamCounters
  <2>1. /\ stream[f].packets = 0 <=> BuiltAt(f, n) = {}
        /\ stream[f].cc = CounterAfter(BuiltAt(f, n))
    BY <1>4 DEF Counters, StreamCounters
  <2>2. CASE f = o /\ e.kind # "lost"
    <3>1. BuiltAt(f, m)' = BuiltAt(f, n) \cup {m}
      BY <1>6, <2>2
    <3>2. Max(BuiltAt(f, n) \cup {m}) = m
      <4>1. m - 1 \in Nat /\ BuiltAt(f, n) \in SUBSET (1 .. m - 1) /\ m - 1 + 1 = m
        BY <1>6, <1>11
      <4> QED
        BY <4>1, MaxTop
    <3>3. CounterAfter(BuiltAt(f, m))' = (e.cc + e.n) % 16
      BY <1>7, <3>1, <3>2 DEF CounterAfter
    <3>4. stream'[f].packets = stream[f].packets + e.n /\ stream'[f].cc = (stream[f].cc + e.n) % 16
      BY <1>5, <1>9, <2>2
    <3>5. stream[f].packets \in Nat /\ e.n \in Nat \ {0}
      BY <1>5, StreamIs DEF StreamOf, PesRec
    <3>6. stream'[f].packets # 0
      BY <3>4, <3>5
    <3> QED
      BY <1>5, <2>2, <3>1, <3>3, <3>4, <3>6
  <2>3. CASE ~ (f = o /\ e.kind # "lost")
    <3>1. BuiltAt(f, m)' = BuiltAt(f, n)
      BY <1>6, <2>3
    <3>2. BuiltAt(f, n)' = BuiltAt(f, n) /\ CounterAfter(BuiltAt(f, n))' = CounterAfter(BuiltAt(f, n))
      BY <1>6, <1>10, <1>11
    <3>3. CounterAfter(BuiltAt(f, m))' = CounterAfter(BuiltAt(f, n))'
      BY <3>1, <3>2 DEF CounterAfter
    <3>4. stream'[f].packets = stream[f].packets /\ stream'[f].cc = stream[f].cc
      BY <1>5, <1>9, <2>3
    <3> QED
      BY <2>1, <3>1, <3>2, <3>3, <3>4
  <2> QED
    BY <2>2, <2>3
<1>14. TableCounters'
  <2>1. mux.pat_cc = Cardinality(TablesAt(n)) % 16 /\ mux.pmt_cc = Cardinality(TablesAt(n)) % 16
    BY <1>4 DEF Counters, TableCounters
  <2>2. CASE due
    <3>1. TablesAt(m)' = TablesAt(n) \cup {n + 1}
      BY <1>6, <2>2
    <3>2. Cardinality(TablesAt(n) \cup {n + 1}) = Cardinality(TablesAt(n)) + 1
          /\ Cardinality(TablesAt(n)) \in Nat
      <4>1. IsFiniteSet(TablesAt(n)) /\ n + 1 \notin TablesAt(n)
        <5>1. IsFiniteSet(1 .. n)
          BY <1>6, FS_Interval
        <5> QED
          BY <1>6, <1>11, <5>1, FS_Subset
      <4> QED
        BY <4>1, FS_AddElement, FS_CardinalityType
    <3>3. \A c \in Nat : ((c % 16) + 1) % 16 = (c + 1) % 16
      OBVIOUS
    <3>4. mux'.pat_cc = (mux.pat_cc + 1) % 16 /\ mux'.pmt_cc = (mux.pmt_cc + 1) % 16
      BY <1>5, <2>2 DEF NextMux, due
    <3>5. ((Cardinality(TablesAt(n)) % 16) + 1) % 16 = (Cardinality(TablesAt(n)) + 1) % 16
      BY <3>2, <3>3
    <3> QED
      BY <1>12, <2>1, <3>1, <3>2, <3>4, <3>5 DEF TableCounters
  <2>3. CASE ~ due
    <3>1. TablesAt(m)' = TablesAt(n) /\ mux' = mux
      BY <1>5, <1>6, <2>3 DEF NextMux, due
    <3> QED
      BY <1>12, <2>1, <3>1 DEF TableCounters
  <2> QED
    BY <2>2, <2>3
<1>15. CountersContinue'
  <2>1. ASSUME NEW f \in Fragments, NEW k \in BuiltAt(f, m)'
        PROVE  sent'[k].cc = CounterAfter(BuiltAt(f, k - 1))'
    <3>1. CASE k \in BuiltAt(f, n)
      <4>1. k \in 1 .. n /\ k - 1 \in 0 .. n
        BY <1>6, <1>11, <3>1
      <4>2. sent[k].cc = CounterAfter(BuiltAt(f, k - 1))
        BY <1>4, <3>1 DEF Counters, CountersContinue, CounterAfter
      <4> QED
        BY <1>7, <1>10, <4>1, <4>2
    <3>2. CASE f = o /\ e.kind # "lost" /\ k = m
      <4>1. BuiltAt(f, m - 1)' = BuiltAt(f, n) /\ BuiltAt(f, n)' = BuiltAt(f, n)
        BY <1>6, <1>11
      <4>2. CounterAfter(BuiltAt(f, m - 1))' = CounterAfter(BuiltAt(f, n))'
        BY <4>1 DEF CounterAfter
      <4>3. CounterAfter(BuiltAt(f, n))' = CounterAfter(BuiltAt(f, n))
        BY <1>10, <1>11
      <4>4. stream[f].cc = CounterAfter(BuiltAt(f, n))
        BY <1>4 DEF Counters, StreamCounters
      <4> QED
        BY <1>5, <1>7, <3>2, <4>2, <4>3, <4>4
    <3> QED
      BY <1>6, <2>1, <3>1, <3>2
  <2>2. ASSUME NEW k \in TablesAt(m)'
        PROVE  /\ sent'[k].pat = Cardinality(TablesAt(k - 1)') % 16
               /\ sent'[k].pmt = Cardinality(TablesAt(k - 1)') % 16
    <3>1. CASE k \in TablesAt(n)
      <4>1. k \in 1 .. n /\ k - 1 \in 0 .. n
        BY <1>6, <1>11, <3>1
      <4>2. /\ sent[k].pat = Cardinality(TablesAt(k - 1)) % 16
            /\ sent[k].pmt = Cardinality(TablesAt(k - 1)) % 16
        BY <1>4, <3>1 DEF Counters, CountersContinue
      <4> QED
        BY <1>6, <1>7, <4>1, <4>2
    <3>2. CASE due /\ k = n + 1
      <4>1. k - 1 = n /\ TablesAt(n)' = TablesAt(n)
        BY <1>6, <1>11, <3>2
      <4>2. sent'[k].pat = mux.pat_cc /\ sent'[k].pmt = mux.pmt_cc
        BY <1>7, <3>2 DEF TablesFor
      <4> QED
        BY <1>4, <4>1, <4>2 DEF Counters, TableCounters
    <3> QED
      BY <1>6, <2>2, <3>1, <3>2
  <2> QED
    BY <1>8, <1>12, <2>1, <2>2 DEF CountersContinue, CounterAfter
<1>16. ParametersFirst'
  <2> SUFFICES ASSUME NEW f \in Fragments, ~ IsAudio(f), NEW k \in BuiltAt(f, m)'
               PROVE  sent'[k].params <=> BuiltAt(f, k - 1)' = {}
    BY <1>8, <1>12 DEF ParametersFirst
  <2>1. CASE k \in BuiltAt(f, n)
    <3>1. k \in 1 .. n /\ k - 1 \in 0 .. n
      BY <1>6, <1>11, <2>1
    <3>2. sent[k].params <=> BuiltAt(f, k - 1) = {}
      BY <1>4, <2>1 DEF Counters, ParametersFirst
    <3> QED
      BY <1>6, <1>7, <3>1, <3>2
  <2>2. CASE f = o /\ e.kind # "lost" /\ k = m
    <3>1. BuiltAt(f, k - 1)' = BuiltAt(f, n)
      BY <1>6, <2>2
    <3>2. e.params <=> stream[f].packets = 0
      BY <1>1, <1>2, <2>2
    <3>3. stream[f].packets = 0 <=> BuiltAt(f, n) = {}
      BY <1>4 DEF Counters, StreamCounters
    <3> QED
      BY <1>7, <2>2, <3>1, <3>2, <3>3
  <2> QED
    BY <1>6, <2>1, <2>2
<1> QED
  BY <1>13, <1>14, <1>15, <1>16 DEF Counters

LEMMA CountersAlways == Spec => []Counters
<1>1. Types /\ Counters /\ [Next]_vars => Counters'
  BY LeavesOrKeeps, CountersLeave, CountersKept
<1> QED
  BY <1>1, CountersInit, TypesHold, PTL DEF Spec

\* On each pid the continuity counter goes on from where the packet built before
\* left it, however many packets a PES packet takes and whether bucket_insert
\* drops them; a payload without memory for its packets uses none.
THEOREM CountersGoOn == Spec => []CountersContinue
<1>1. Counters => CountersContinue
  BY DEF Counters
<1> QED
  BY <1>1, CountersAlways, PTL

\* The parameter sets are in the first video packet that is built, whether or
\* not bucket_insert drops it, and in no other.
THEOREM ParametersLeadVideo == Spec => []ParametersFirst
<1>1. Counters => ParametersFirst
  BY DEF Counters
<1> QED
  BY <1>1, CountersAlways, PTL

-------------------------------------------------------------------------------
(* The time the tables are due. *)

\* A payload's time stays apart from NoPts; as long as nothing was sent, what
\* is in a payload without a time is nothing.
Timed ==
    \A f \in Fragments :
        /\ stream[f].dts # NoPts => stream[f].dts + MaxDelay + PatDelta < NoPts
        /\ sent = <<>> /\ stream[f].dts = NoPts =>
             stream[f].index = 0 /\ ~ (pc = "audio" /\ order = f /\ at > 0)

\* The fields of the payload with the next piece, in the same terms.
LEMMA FilledTimed ==
    ASSUME Types, Timed, pc = "audio", at < FrameSize
    PROVE  /\ Filled.dts # NoPts => Filled.dts + MaxDelay + PatDelta < NoPts
           /\ Filled.dts = NoPts => sent # <<>>
<1>1. /\ order \in Fragments /\ Sample(order).pts \in Nat /\ Sample(order).cto \in Nat
      /\ TimeFits(Sample(order)) /\ at \in Nat
  BY HandIs, SampleIs DEF Types, LoopType
<1>2. IF at = 0 /\ stream[order].dts = NoPts
      THEN Filled.dts = Sample(order).pts ELSE Filled.dts = stream[order].dts
  BY FilledIs
<1>3. CASE at = 0 /\ stream[order].dts = NoPts
  <2>1. Filled.dts + MaxDelay + PatDelta < NoPts /\ Filled.dts # NoPts
    BY <1>1, <1>2, <1>3, Numbers DEF TimeFits
  <2> QED
    BY <2>1
<1>4. CASE ~ (at = 0 /\ stream[order].dts = NoPts)
  <2>1. Filled.dts = stream[order].dts
    BY <1>2, <1>4
  <2>2. /\ stream[order].dts # NoPts => stream[order].dts + MaxDelay + PatDelta < NoPts
        /\ sent = <<>> /\ stream[order].dts = NoPts => ~ (at > 0)
    BY <1>1 DEF Timed
  <2>3. at # 0 => at > 0
    BY <1>1
  <2> QED
    BY <1>4, <2>1, <2>2, <2>3
<1> QED
  BY <1>3, <1>4

\* The payload fields after any step, in the same terms.
LEMMA TimedNext == Types /\ Timed /\ [Next]_vars => Timed'
<1> SUFFICES ASSUME Types, Timed, Steps PROVE Timed'
  BY StepsTaken
<1>1. stream \in [Fragments -> StreamOf(MaxPayload - 1)] /\ at \in Nat
  BY DEF Types, LoopType
<1>2. CASE ConvertTimes
  <2>1. UNCHANGED <<stream, sent, order, at>> /\ Fragments' = Fragments /\ pc' = "read"
    BY <1>2 DEF ConvertTimes, Fragments, Types, FragmentsType
  <2> QED
    BY <2>1 DEF Timed
<1>3. CASE UNCHANGED <<fragment, stream, sent>> /\ (pc' # "audio" \/ at' = 0 \/ UNCHANGED vars)
  <2>1. Fragments' = Fragments
    BY <1>3 DEF Fragments
  <2> QED
    BY <1>3, <2>1 DEF Timed, vars
<1>4. CASE Copy /\ AudioCopy
  <2>1. /\ stream' = [stream EXCEPT ![order] = Filled]
        /\ UNCHANGED <<fragment, sent, order, pc>> /\ Fragments' = Fragments
    BY <1>4 DEF AudioCopy, Fragments
  <2>2. /\ Filled.dts # NoPts => Filled.dts + MaxDelay + PatDelta < NoPts
        /\ Filled.dts = NoPts => sent # <<>>
    BY <1>4, FilledTimed DEF Copy
  <2>3. \A f \in Fragments : stream'[f] = IF f = order THEN Filled ELSE stream[f]
    BY <1>1, <2>1
  <2> HIDE DEF Steps
  <2> QED
    BY <2>1, <2>2, <2>3 DEF Timed
<1>5. ASSUME NEW e, NEW r, Emission(order, e, r), UNCHANGED fragment,
             r.dts # NoPts => r.dts + MaxDelay + PatDelta < NoPts
      PROVE  Timed'
  <2>1. \E n, m : Grown(order, e, n, m)
    BY <1>5, PlacesGrow
  <2>2. sent' # <<>>
    <3>1. PICK n, m : Grown(order, e, n, m)
      BY <2>1
    <3>2. Len(sent') = m /\ m \in Nat /\ m # 0
      BY <3>1 DEF Grown
    <3> QED
      BY <3>2
  <2>3. \A f \in Fragments : stream'[f] = IF f = order THEN r ELSE stream[f]
    BY <1>1, <1>5 DEF Emission
  <2>4. Fragments' = Fragments
    BY <1>5 DEF Fragments
  <2> QED
    BY <1>5, <2>2, <2>3, <2>4 DEF Timed
<1>6. CASE UNCHANGED fragment /\ (HeldLeaves \/ FilledLeaves)
  <2>1. PICK e, r : Emission(order, e, r) /\ r.dts = NoPts
    BY <1>6 DEF HeldLeaves, FilledLeaves, Payload
  <2> QED
    BY <1>5, <1>6, <2>1
<1>7. CASE UNCHANGED fragment /\ VideoLeaves
  <2>1. PICK e, r : Emission(order, e, r) /\ r.dts = stream[order].dts
    BY <1>7 DEF VideoLeaves, Video
  <2>2. order \in Fragments
    BY <2>1 DEF Emission
  <2> QED
    BY <1>5, <1>7, <2>1, <2>2 DEF Timed
<1> QED
  BY <1>2, <1>3, <1>4, <1>6, <1>7 DEF Steps, Rest, Turn, Copy, Taken, Silent, vars

\* What leaves has a time the tables can be set by, or tables went before.
TimedLeaves ==
    /\ UNCHANGED fragment
    /\ \E e, r : /\ Emission(order, e, r)
                 /\ e.dts # NoPts => e.dts + PatDelta < NoPts
                 /\ e.dts = NoPts => sent # <<>>

LEMMA TimedLeavesOrKeeps == Types /\ Timed /\ [Next]_vars => TimedLeaves \/ Keeps
<1> SUFFICES ASSUME Types, Timed, [Next]_vars, ~ Keeps PROVE TimedLeaves
  OBVIOUS
<1>1. Steps /\ Leaves
  BY StepsTaken, LeavesOrKeeps
<1>2. UNCHANGED fragment
  BY <1>1 DEF Leaves
<1>3. ASSUME NEW t \in Nat, t # NoPts => t + MaxDelay + PatDelta < NoPts, t = NoPts => sent # <<>>
      PROVE  /\ Delayed(t) # NoPts => Delayed(t) + PatDelta < NoPts
             /\ Delayed(t) = NoPts => sent # <<>>
  <2>1. CASE t = NoPts
    BY <1>3, <2>1 DEF Delayed
  <2>2. CASE t # NoPts
    <3>1. Delayed(t) = t + MaxDelay
      BY <2>2 DEF Delayed
    <3>2. t + MaxDelay + PatDelta < NoPts
      BY <1>3, <2>2
    <3> QED
      BY <3>1, <3>2, Numbers
  <2> QED
    BY <2>1, <2>2
<1>4. CASE HeldLeaves
  <2>1. PICK e, r : Emission(order, e, r) /\ Payload(stream[order], e, r)
    BY <1>4 DEF HeldLeaves
  <2>2. order \in Fragments /\ stream[order].index # 0
    BY <1>4 DEF HeldLeaves
  <2>3. /\ stream[order].dts # NoPts => stream[order].dts + MaxDelay + PatDelta < NoPts
        /\ stream[order].dts = NoPts => sent # <<>>
    BY <2>2 DEF Timed
  <2>4. stream[order].dts \in Nat
    BY <2>2, StreamIs
  <2>5. e.dts = Delayed(stream[order].dts)
    BY <2>1 DEF Payload
  <2> QED
    BY <1>2, <1>3, <2>1, <2>3, <2>4, <2>5 DEF TimedLeaves
<1>5. CASE Copy /\ FilledLeaves
  <2>1. PICK e, r : Emission(order, e, r) /\ Payload(Filled, e, r)
    BY <1>5 DEF FilledLeaves
  <2>2. pc = "audio" /\ at < FrameSize
    BY <1>5 DEF Copy
  <2>3. /\ Filled.dts # NoPts => Filled.dts + MaxDelay + PatDelta < NoPts
        /\ Filled.dts = NoPts => sent # <<>>
    BY <2>2, FilledTimed
  <2>4. Filled.dts \in Nat
    BY <2>2, FilledIs DEF StreamOf
  <2>5. e.dts = Delayed(Filled.dts)
    BY <2>1 DEF Payload
  <2> QED
    BY <1>2, <1>3, <2>1, <2>3, <2>4, <2>5 DEF TimedLeaves
<1>6. CASE pc = "video" /\ VideoLeaves
  <2>1. PICK e, r : Emission(order, e, r) /\ Video(e, r)
    BY <1>6 DEF VideoLeaves
  <2>2. order \in Fragments
    BY <2>1 DEF Emission
  <2>3. e.dts = Sample(order).pts + MaxDelay
    BY <2>1 DEF Video
  <2>4. e.dts + PatDelta < NoPts /\ e.dts # NoPts
    BY <2>2, <2>3, SampleIs, Numbers DEF TimeFits
  <2> QED
    BY <1>2, <2>1, <2>4 DEF TimedLeaves
<1>7. CASE Copy /\ AudioCopy
  <2>1. UNCHANGED sent
    BY <1>7 DEF AudioCopy
  <2>2. PICK e, r : Emission(order, e, r)
    BY <1>1 DEF Leaves
  <2>3. PICK n, m : Grown(order, e, n, m)
    BY <2>2, PlacesGrow
  <2> QED
    BY <2>1, <2>3 DEF Grown
<1>8. CASE UNCHANGED <<fragment, stream, mux, sent>>
  BY <1>8 DEF Keeps, Fragments, IsAudio
<1>9. CASE ConvertTimes
  <2>1. UNCHANGED sent
    BY <1>9 DEF ConvertTimes
  <2>2. PICK e, r : Emission(order, e, r)
    BY <1>1 DEF Leaves
  <2>3. PICK n, m : Grown(order, e, n, m)
    BY <2>2, PlacesGrow
  <2> QED
    BY <2>1, <2>3 DEF Grown
<1> QED
  BY <1>1, <1>4, <1>5, <1>6, <1>7, <1>8, <1>9 DEF Steps, Rest, Turn, Taken, Silent, vars

\* An entry that was in the bucket is in it still, at its place.
LEMMA PlaceKept ==
    ASSUME NEW f, NEW e, NEW n, NEW m, Grown(f, e, n, m), NEW k \in 0 .. n,
           NEW S \in SUBSET (1 .. k), S # {}
    PROVE  Max(S) \in S /\ Max(S) \in 1 .. n /\ sent'[Max(S)] = sent[Max(S)]
<1>1. n \in Nat /\ k \in Nat /\ k <= n /\ \A j \in 1 .. n : sent'[j] = sent[j]
  BY DEF Grown
<1>2. Max(S) \in S
  BY <1>1, MaxPlace
<1>3. PICK x : x = Max(S)
  OBVIOUS
<1>4. x \in 1 .. k
  BY <1>2, <1>3
<1>5. \A y \in 1 .. k : y \in 1 .. n
  BY <1>1
<1> QED
  BY <1>1, <1>2, <1>3, <1>4, <1>5

\* Every packet comes after tables that were built in time, dropped or not.
BuiltInTime ==
    \A k \in 1 .. Len(sent) : IsPes(sent[k]) =>
        /\ TablesAt(k - 1) # {}
        /\ InTime(sent[Max(TablesAt(k - 1))], sent[k])

\* Tables are not built more often than that.
Spaced == \A t, u \in TablesAt(Len(sent)) : t < u => sent[t].at + PatDelta <= sent[u].at

\* The tables are due next when the last ones, that every packet follows, say so.
Tabled ==
    /\ TablesAt(Len(sent)) = {} => sent = <<>> /\ mux.next_pat = NoPts
    /\ TablesAt(Len(sent)) # {} =>
         LET t == sent[Max(TablesAt(Len(sent)))]
         IN  t.at # NoPts /\ mux.next_pat = t.at + PatDelta /\ mux.next_pat # NoPts
    /\ BuiltInTime
    /\ Spaced

LEMMA TabledKept ==
    ASSUME Types, Tabled, Keeps
    PROVE  Tabled'
<1>1. UNCHANGED <<mux, sent>>
  BY DEF Keeps
<1>2. \A k : TablesAt(k)' = TablesAt(k)
  BY <1>1 DEF TablesAt, IsPes
<1> QED
  BY <1>1, <1>2 DEF Tabled, BuiltInTime, Spaced, InTime, IsPes

LEMMA TabledLeave ==
    ASSUME Types, Tabled, TimedLeaves
    PROVE  Tabled'
<1>1. PICK e, r : /\ Emission(order, e, r)
                  /\ e.dts # NoPts => e.dts + PatDelta < NoPts
                  /\ e.dts = NoPts => sent # <<>>
  BY DEF TimedLeaves
<1>2. PICK n, m : Grown(order, e, n, m)
  BY <1>1, PlacesGrow
<1>3. /\ e \in PesRec /\ mux' = NextMux(e.dts)
  BY <1>1 DEF Emission
<1>4. e.dts \in Nat /\ IsPes(e) /\ mux.next_pat \in Nat
  BY <1>3 DEF PesRec, IsPes, Types, LoopType
<1>5. /\ n = Len(sent) /\ m = Len(sent')
      /\ n \in Nat /\ m \in Nat /\ m = IF TablesDue(e.dts) THEN n + 2 ELSE n + 1
      /\ \A k \in 1 .. n : sent'[k] = sent[k]
      /\ sent'[m] = e
      /\ TablesDue(e.dts) => TablesFor(sent'[n + 1], e.dts)
      /\ \A k \in 0 .. n : TablesAt(k)' = TablesAt(k)
      /\ TablesAt(m - 1)' = IF TablesDue(e.dts) THEN TablesAt(n) \cup {n + 1} ELSE TablesAt(n)
      /\ TablesAt(m)' = TablesAt(m - 1)'
  BY ONLY <1>2 DEF Grown
<1>6. \A k \in 0 .. n : TablesAt(k) \in SUBSET (1 .. k)
  BY <1>5, PlacesIn
<1>7. n \in 0 .. n
  BY <1>5
<1>8. /\ TablesAt(m)' # {}
      /\ LET t == sent'[Max(TablesAt(m)')]
         IN  /\ t.at # NoPts /\ mux'.next_pat = t.at + PatDelta /\ mux'.next_pat # NoPts
             /\ e.dts # NoPts => e.dts < t.at + PatDelta
  <2>1. CASE TablesDue(e.dts)
    <3>1. e.dts # NoPts
      <4>1. CASE mux.next_pat = NoPts
        <5>1. sent = <<>>
          BY <4>1 DEF Tabled
        <5> QED
          BY <1>1, <5>1
      <4>2. CASE mux.next_pat # NoPts
        BY <2>1, <4>2 DEF TablesDue
      <4> QED
        BY <4>1, <4>2
    <3>2. TablesAt(m)' = TablesAt(n) \cup {n + 1} /\ Max(TablesAt(n) \cup {n + 1}) = n + 1
      BY <1>5, <1>6, <1>7, <2>1, MaxTop
    <3>3. sent'[n + 1].at = e.dts
      BY <1>4, <1>5, <2>1, TablesType
    <3>4. mux'.next_pat = e.dts + PatDelta
      BY <1>3, <2>1 DEF NextMux
    <3>5. e.dts + PatDelta < NoPts
      BY <1>1, <3>1
    <3>6. e.dts < e.dts + PatDelta /\ e.dts + PatDelta # NoPts
      BY <1>4, <3>5, Numbers
    <3> QED
      BY <3>1, <3>2, <3>3, <3>4, <3>6
  <2>2. CASE ~ TablesDue(e.dts)
    <3>1. mux.next_pat # NoPts /\ mux' = mux /\ (e.dts # NoPts => ~ (e.dts >= mux.next_pat))
      BY <1>3, <2>2 DEF TablesDue, NextMux
    <3>2. TablesAt(n) # {}
      BY <1>5, <3>1 DEF Tabled
    <3>3. LET t == sent[Max(TablesAt(n))]
          IN  t.at # NoPts /\ mux.next_pat = t.at + PatDelta /\ mux.next_pat # NoPts
      BY <1>5, <3>2 DEF Tabled
    <3>4. TablesAt(m)' = TablesAt(n) /\ sent'[Max(TablesAt(n))] = sent[Max(TablesAt(n))]
      BY <1>2, <1>5, <1>6, <1>7, <2>2, <3>2, PlaceKept
    <3>5. e.dts # NoPts => e.dts < mux.next_pat
      BY <1>4, <3>1
    <3> QED
      BY <3>1, <3>2, <3>3, <3>4, <3>5
  <2> QED
    BY <2>1, <2>2
<1>9. BuiltInTime'
  <2>1. ASSUME NEW k \in 1 .. m, IsPes(sent'[k])
        PROVE  /\ TablesAt(k - 1)' # {}
               /\ LET t == sent'[Max(TablesAt(k - 1)')]
                  IN  t.at # NoPts /\ (sent'[k].dts # NoPts => sent'[k].dts < t.at + PatDelta)
    <3>1. CASE k \in 1 .. n
      <4>1. k - 1 \in 0 .. n /\ sent'[k] = sent[k]
        BY <1>5, <3>1
      <4>2. TablesAt(k - 1)' = TablesAt(k - 1)
        BY <1>5, <4>1
      <4>3. IsPes(sent[k])
        BY <2>1, <4>1
      <4>4. /\ TablesAt(k - 1) # {}
            /\ LET t == sent[Max(TablesAt(k - 1))]
               IN  t.at # NoPts /\ (sent[k].dts # NoPts => sent[k].dts < t.at + PatDelta)
        BY <1>5, <3>1, <4>3 DEF Tabled, BuiltInTime, InTime
      <4>5. sent'[Max(TablesAt(k - 1))] = sent[Max(TablesAt(k - 1))]
        BY <1>2, <1>6, <4>1, <4>4, PlaceKept
      <4> QED
        BY <4>1, <4>2, <4>4, <4>5
    <3>2. CASE k = m
      BY <1>5, <1>8, <3>2
    <3>3. CASE TablesDue(e.dts) /\ k = n + 1
      BY <1>4, <1>5, <2>1, <3>3, TablesType
    <3> QED
      BY <1>5, <3>1, <3>2, <3>3
  <2> QED
    BY <1>5, <2>1 DEF BuiltInTime, InTime, IsPes
<1>10. ASSUME NEW t \in TablesAt(m)', NEW u \in TablesAt(m)', t < u
       PROVE  sent'[t].at + PatDelta <= sent'[u].at
  <2>1. \A x \in TablesAt(n) : /\ x \in 1 .. n /\ sent'[x] = sent[x]
                               /\ sent[x].at \in Nat
    <3> SUFFICES ASSUME NEW x \in TablesAt(n)
                 PROVE  x \in 1 .. n /\ sent'[x] = sent[x] /\ sent[x].at \in Nat
      OBVIOUS
    <3>1. x \in 1 .. n /\ ~ IsPes(sent[x])
      BY <1>6, <1>7 DEF TablesAt
    <3>2. sent[x] \in TablesRec \cup PesRec
      BY <1>5, <3>1 DEF Types, LoopType
    <3>3. sent[x] \in TablesRec
      BY <3>1, <3>2 DEF IsPes, PesRec
    <3> QED
      BY <1>5, <3>1, <3>3 DEF TablesRec
  <2>2. \A x, y \in TablesAt(n) : x < y => sent[x].at + PatDelta <= sent[y].at
    BY <1>5 DEF Tabled, Spaced
  <2>3. CASE u \in TablesAt(n) /\ t \in TablesAt(n)
    BY <1>10, <2>1, <2>2, <2>3
  <2>4. CASE ~ (u \in TablesAt(n) /\ t \in TablesAt(n))
    <3>1. TablesDue(e.dts) /\ TablesAt(m)' = TablesAt(n) \cup {n + 1}
      BY <1>5, <2>4
    <3>2. u = n + 1 /\ t \in TablesAt(n)
      BY <1>5, <1>10, <2>1, <2>4, <3>1
    <3>3. PICK l : l = Max(TablesAt(n))
      OBVIOUS
    <3>4. l \in TablesAt(n) /\ t <= l
      BY <1>5, <1>6, <1>7, <3>2, <3>3, MaxPlace
    <3>5. mux.next_pat = sent[l].at + PatDelta /\ mux.next_pat # NoPts
      BY <1>5, <3>2, <3>3 DEF Tabled
    <3>6. mux.next_pat <= e.dts
      BY <1>4, <3>1, <3>5 DEF TablesDue
    <3>7. sent'[u].at = e.dts
      BY <1>5, <3>1, <3>2, TablesType
    <3>8. sent[t].at <= sent[l].at
      <4>1. CASE t = l
        BY <2>1, <3>4, <4>1
      <4>2. CASE t # l
        <5>1. t < l
          BY <2>1, <3>2, <3>4, <4>2
        <5>2. sent[t].at + PatDelta <= sent[l].at
          BY <2>2, <3>2, <3>4, <5>1
        <5> QED
          BY <2>1, <3>2, <3>4, <5>2, Numbers
      <4> QED
        BY <4>1, <4>2
    <3> QED
      BY <1>4, <2>1, <3>2, <3>4, <3>5, <3>6, <3>7, <3>8, Numbers
  <2> QED
    BY <2>3, <2>4
<1>11. Spaced'
  BY <1>5, <1>10 DEF Spaced
<1> QED
  BY <1>5, <1>8, <1>9, <1>11 DEF Tabled

\* The last tables built are in the bucket, or the ones dropped are in time.
LEMMA KeptOrDropped ==
    ASSUME Types, Tabled
    PROVE  TablesInTime
<1> DEFINE n == Len(sent)
<1>1. n \in Nat
  BY DEF Types, LoopType
<1>2. ASSUME NEW k \in 1 .. n, IsPes(sent[k])
      PROVE  LET there == {t \in TablesAt(k - 1) : sent[t].kept}
             IN  \/ there # {} /\ InTime(sent[Max(there)], sent[k])
                 \/ \E t \in TablesAt(k - 1) \ there :
                      (\A u \in there : u < t) /\ InTime(sent[t], sent[k])
  <2> DEFINE S == TablesAt(k - 1)
             there == {t \in S : sent[t].kept}
  <2>1. S # {} /\ InTime(sent[Max(S)], sent[k])
    BY <1>2 DEF Tabled, BuiltInTime
  <2>2. S \in SUBSET (1 .. k - 1) /\ k - 1 \in Nat
    BY <1>1 DEF TablesAt
  <2>3. PICK top : top = Max(S)
    OBVIOUS
  <2> HIDE DEF S
  <2>4. top \in S /\ \A u \in S : u <= top
    BY <2>1, <2>2, <2>3, MaxPlace
  <2>5. CASE sent[top].kept
    <3>1. there \in SUBSET (1 .. k - 1) /\ there # {} /\ top \in there
      BY <2>2, <2>4, <2>5
    <3>2. PICK x : x = Max(there)
      OBVIOUS
    <3>3. x \in there /\ \A u \in there : u <= x
      BY <2>2, <3>1, <3>2, MaxPlace
    <3>4. x = top
      BY <2>2, <2>4, <3>1, <3>3
    <3> QED
      BY <2>1, <2>3, <3>1, <3>2, <3>4 DEF S
  <2>6. CASE ~ sent[top].kept
    <3>1. top \in S \ there
      BY <2>4, <2>6
    <3>2. \A u \in there : u < top
      BY <2>2, <2>4, <2>6
    <3> QED
      BY <2>1, <2>3, <3>1, <3>2 DEF S
  <2> QED
    BY <2>5, <2>6
<1> QED
  BY <1>2 DEF TablesInTime, Tabled, Spaced

\* The PAT and PMT in the bucket before a packet are no older than is set for
\* them, unless bucket_insert dropped later ones that were in time; and what was
\* dropped is not built again before that time is over.
THEOREM TablesComeInTime == Spec => []TablesInTime
<1>1. Init => Timed /\ Tabled
  <2> SUFFICES ASSUME Init PROVE Timed /\ Tabled
    OBVIOUS
  <2>1. /\ sent = <<>> /\ Len(sent) = 0 /\ 1 .. 0 = {} /\ mux.next_pat = NoPts /\ pc = "convert"
        /\ \A f \in Fragments : stream[f].dts = NoPts /\ stream[f].index = 0
    BY DEF Init, NewStream
  <2>2. TablesAt(Len(sent)) = {}
    BY <2>1 DEF TablesAt
  <2> QED
    BY <2>1, <2>2 DEF Timed, Tabled, BuiltInTime, Spaced
<1>2. Types /\ Timed /\ Tabled /\ [Next]_vars => Timed' /\ Tabled'
  BY TimedNext, TimedLeavesOrKeeps, TabledLeave, TabledKept
<1>3. Types /\ Tabled => TablesInTime
  BY KeptOrDropped
<1> QED
  BY <1>1, <1>2, <1>3, TypesHold, PTL DEF Spec

\* A payload with one more piece.
LEMMA BegunIs ==
    ASSUME NEW q \in Seq(Piece), NEW p \in Piece
    PROVE  /\ Len(q) \in Nat /\ Append(q, p) # <<>>
           /\ Begun(q) \in SUBSET (1 .. Len(q))
           /\ Begun(Append(q, p)) = IF p.at = 0 THEN Begun(q) \cup {Len(q) + 1} ELSE Begun(q)
           /\ \A k \in 1 .. Len(q) : Append(q, p)[k] = q[k]
           /\ Append(q, p)[Len(q) + 1] = p /\ Len(Append(q, p)) = Len(q) + 1
<1>1. /\ Len(q) \in Nat /\ Append(q, p) # <<>>
      /\ \A k \in 1 .. Len(q) : Append(q, p)[k] = q[k]
      /\ Append(q, p)[Len(q) + 1] = p /\ Len(Append(q, p)) = Len(q) + 1
  OBVIOUS
<1>2. Begun(q) \in SUBSET (1 .. Len(q))
  BY DEF Begun
<1>3. \A n \in Nat : 1 .. n + 1 = (1 .. n) \cup {n + 1} /\ n + 1 \notin 1 .. n
  OBVIOUS
<1> DEFINE a == Append(q, p)
           n == Len(q)
<1>4. 1 .. Len(a) = (1 .. n) \cup {n + 1} /\ n + 1 \notin 1 .. n
  BY <1>1, <1>3
<1>5. (\A k \in 1 .. n : a[k] = q[k]) /\ a[n + 1] = p
  BY <1>1
<1>6. Begun(a) = {k \in 1 .. Len(a) : a[k].at = 0} /\ Begun(q) = {k \in 1 .. n : q[k].at = 0}
  BY DEF Begun
<1> HIDE DEF a, n
<1>7. Begun(a) = IF p.at = 0 THEN Begun(q) \cup {n + 1} ELSE Begun(q)
  BY <1>4, <1>5, <1>6
<1> QED
  BY <1>1, <1>2, <1>7 DEF a, n

-------------------------------------------------------------------------------
(* What is held back. *)

\* Only the audio fragment whose turn it is holds anything back, and nothing
\* when the loop ends.
Holding ==
    \A f \in Fragments :
        /\ stream[f].index = 0 <=> stream[f].pieces = <<>>
        /\ stream[f].pieces # <<>> => f = order /\ IsAudio(f) /\ pc # "done" /\ ~ LoopEnds

LEMMA HoldingNext == Types /\ Merged /\ Holding /\ [Next]_vars => Holding'
<1> SUFFICES ASSUME Types, Merged, Holding, [Next]_vars PROVE Holding'
  OBVIOUS
<1>1. Steps
  BY StepsTaken
<1>2. stream \in [Fragments -> StreamOf(MaxPayload - 1)]
  BY DEF Types, LoopType
<1>3. ASSUME UNCHANGED fragment,
             \A f \in Fragments : stream'[f].index = 0 /\ stream'[f].pieces = <<>>
      PROVE  Holding'
  BY <1>3 DEF Holding, Fragments
<1>4. ASSUME UNCHANGED fragment, NEW e, NEW r, Emission(order, e, r), r.index = 0, r.pieces = <<>>
      PROVE  Holding'
  <2>1. \A f \in Fragments : stream'[f] = IF f = order THEN r ELSE stream[f]
    BY <1>2, <1>4 DEF Emission
  <2> QED
    BY <1>3, <1>4, <2>1 DEF Holding
<1>5. CASE ConvertTimes
  <2>1. UNCHANGED stream /\ Fragments' = Fragments
    BY <1>5 DEF ConvertTimes, Fragments, Types, FragmentsType
  <2>2. \A f \in Fragments : stream[f].index = 0 /\ stream[f].pieces = <<>>
    BY <1>5 DEF ConvertTimes, Types, NothingYet, NewStream
  <2> QED
    BY <2>1, <2>2 DEF Holding
<1>6. CASE Rest \/ UNCHANGED vars
  <2>1. /\ UNCHANGED <<fragment, first, stream, order>> /\ Fragments' = Fragments
        /\ (pc' = pc \/ (pc' = "done" => LoopEnds))
    BY <1>6 DEF Rest, vars, Fragments
  <2>2. LoopEnds' <=> LoopEnds
    BY <2>1 DEF LoopEnds, Exhausted
  <2> QED
    BY <2>1, <2>2 DEF Holding, IsAudio
<1>7. CASE Turn /\ Silent /\ Released
  <2>1. /\ UNCHANGED <<fragment, first, stream>> /\ Fragments' = Fragments
        /\ order' = Earliest /\ ~ LoopEnds
        /\ pc' # "done"
    BY <1>7 DEF Turn, Silent, Fragments
  <2>2. LoopEnds' <=> LoopEnds
    BY <2>1 DEF LoopEnds, Exhausted
  <2>3. ASSUME NEW f \in Fragments, stream[f].pieces # <<>>
        PROVE  f = Earliest /\ IsAudio(f)
    <3>1. f = order /\ IsAudio(f) /\ stream[f].index # 0
      BY <2>3 DEF Holding
    <3>2. order # 0
      BY <3>1 DEF Fragments
    <3>3. ~ TurnsAway(Earliest)
      BY <1>7, <3>1 DEF Released
    <3> QED
      BY <3>1, <3>2, <3>3 DEF TurnsAway, IsAudio
  <2> HIDE DEF Steps
  <2> QED
    BY <2>1, <2>2, <2>3 DEF Holding, IsAudio
<1>8. CASE UNCHANGED fragment /\ (HeldLeaves \/ FilledLeaves)
  <2>1. PICK e, r : Emission(order, e, r) /\ r.index = 0 /\ r.pieces = <<>>
    BY <1>8 DEF HeldLeaves, FilledLeaves, Payload
  <2> QED
    BY <1>4, <1>8, <2>1
<1>9. CASE Copy /\ AudioCopy
  <2>1. /\ stream' = [stream EXCEPT ![order] = Filled]
        /\ UNCHANGED <<fragment, first, order, pc>> /\ Fragments' = Fragments
        /\ pc = "audio" /\ at < FrameSize
    BY <1>9 DEF AudioCopy, Fragments
  <2>2. /\ Copied \in Nat \ {0} /\ Filled.index = stream[order].index + Copied
        /\ Filled.pieces
             = Append(stream[order].pieces, [sample |-> first[order], at |-> at, size |-> Copied])
    BY <2>1, FilledIs
  <2>3. order \in Fragments /\ IsAudio(order)
    BY <2>1, HandIs DEF Types, InHand
  <2>4. stream[order].index \in Nat /\ stream[order].pieces \in Seq(Piece)
    BY <2>3, StreamIs
  <2>5. Filled.index # 0
    BY <2>2, <2>4
  <2>6. Filled.pieces # <<>>
    <3>1. [sample |-> first[order], at |-> at, size |-> Copied] \in Piece
      BY <2>1, FilledIs
    <3> QED
      BY <2>2, <2>4, <3>1, BegunIs
  <2>7. ~ LoopEnds' /\ (IsAudio(order)' <=> IsAudio(order))
    BY <2>1 DEF Merged, LoopEnds, Exhausted, IsAudio
  <2>8. \A f \in Fragments : stream'[f] = IF f = order THEN Filled ELSE stream[f]
    BY <1>2, <2>1
  <2>9. \A f \in Fragments \ {order} : stream[f].index = 0 /\ stream[f].pieces = <<>>
    BY DEF Holding
  <2> HIDE DEF Steps, Filled
  <2> QED
    BY <2>1, <2>3, <2>5, <2>6, <2>7, <2>8, <2>9 DEF Holding, IsAudio
<1>10. CASE Taken /\ pc = "audio" /\ Silent /\ LastFlushed
  <2>1. /\ UNCHANGED <<fragment, stream, order>> /\ Fragments' = Fragments /\ pc' = "choose"
        /\ first' = [first EXCEPT ![order] = @ + 1]
    BY <1>10 DEF Taken, Silent, Fragments
  <2>2. first \in [Fragments -> Nat] /\ order \in Fragments
    BY <1>10, HandIs DEF Types, LoopType
  <2>3. \A f \in Fragments : ~ Exhausted(f)
    BY <1>10 DEF Merged
  <2>4. ASSUME LoopEnds' PROVE stream[order].index = 0
    <3>1. PICK g \in Fragments : first'[g] = fragment[g].size
      BY <2>1, <2>4 DEF LoopEnds, Exhausted
    <3>2. g = order
      BY <2>1, <2>2, <2>3, <3>1 DEF Exhausted
    <3>3. first[order] + 1 = fragment[order].size
      BY <2>1, <2>2, <3>1, <3>2
    <3> QED
      BY <1>10, <3>3 DEF LastFlushed
  <2> HIDE DEF Steps
  <2> QED
    BY <2>1, <2>4 DEF Holding, IsAudio
<1>11. CASE Taken /\ pc = "video"
  <2>1. \A f \in Fragments : stream[f].index = 0 /\ stream[f].pieces = <<>>
    BY <1>11 DEF Holding, Types, InHand
  <2>2. CASE Silent
    BY <1>3, <1>11, <2>1, <2>2 DEF Taken, Silent
  <2>3. CASE VideoLeaves
    <3>1. PICK e, r : Emission(order, e, r) /\ r.index = stream[order].index
                      /\ r.pieces = stream[order].pieces
      BY <2>3 DEF VideoLeaves, Video
    <3>2. order \in Fragments
      BY <3>1 DEF Emission
    <3> QED
      BY <1>4, <1>11, <2>1, <3>1, <3>2 DEF Taken
  <2> QED
    BY <1>1, <1>11, <2>2, <2>3
    DEF Steps, ConvertTimes, Rest, vars, Silent, Turn, Copy, Taken
<1> QED
  BY <1>1, <1>5, <1>6, <1>7, <1>8, <1>9, <1>10, <1>11 DEF Steps, Turn, Copy, Taken

LEMMA HoldingAlways == Spec => [](Merged /\ Holding)
<1>1. Init => Merged /\ Holding
  BY DEF Init, Merged, Holding, NewStream
<1>2. Types /\ (Merged /\ Holding) /\ [Next]_vars => (Merged /\ Holding)'
  BY MergedNext, HoldingNext
<1> QED
  BY <1>1, <1>2, TypesHold, PTL DEF Spec

-------------------------------------------------------------------------------
(* The pieces of a payload. *)

LEMMA MinTop ==
    ASSUME NEW n \in Nat, NEW S \in SUBSET (1 .. n), S # {}
    PROVE  /\ Min(S) \in S /\ Min(S) \in 1 .. n
           /\ Min(S \cup {n + 1}) = Min(S)
<1> DEFINE T == S \cup {n + 1}
<1>1. S \in SUBSET Nat /\ T \in SUBSET Nat /\ T # {}
  OBVIOUS
<1>2. Min(S) \in S /\ \A y \in S : Min(S) <= y
  BY <1>1, MinIs
<1>3. Min(T) \in T /\ \A y \in T : Min(T) <= y
  <2> HIDE DEF T
  <2> QED
    BY <1>1, MinIs
<1>4. Min(S) \in 1 .. n
  BY <1>2
<1>5. Min(T) <= Min(S) /\ Min(T) # n + 1
  BY <1>2, <1>3, <1>4
<1>6. Min(T) \in S
  BY <1>3, <1>5
<1>7. Min(S) <= Min(T) /\ Min(T) \in Nat /\ Min(S) \in Nat
  <2> HIDE DEF T
  <2> QED
    BY <1>1, <1>2, <1>6
<1>8. Min(T) = Min(S)
  BY <1>5, <1>7
<1> QED
  BY <1>2, <1>4, <1>8

LEMMA MinOne == \A x \in Nat : Min({x}) = x
<1> SUFFICES ASSUME NEW x \in Nat PROVE Min({x}) = x
  OBVIOUS
<1>1. {x} \in SUBSET Nat /\ {x} # {}
  OBVIOUS
<1> QED
  BY <1>1, MinIs

-------------------------------------------------------------------------------
(* The times of a PES packet. *)

\* The bucket had n entries and has m; its only new PES packet is e, the last.
Newer(e, n, m) ==
    /\ n = Len(sent) /\ m = Len(sent') /\ n \in Nat /\ m \in Nat /\ n < m
    /\ sent'[m] = e /\ IsPes(e)
    /\ \A k \in 1 .. n : sent'[k] = sent[k]
    /\ \A k \in 1 .. m : IsPes(sent'[k]) => k \in 1 .. n \/ k = m

LEMMA NewEntries ==
    ASSUME Types, NEW f, NEW e, NEW r, Emission(f, e, r)
    PROVE  \E n, m : Newer(e, n, m)
<1>1. PICK n, m : Grown(f, e, n, m)
  BY PlacesGrow
<1>2. e \in PesRec
  BY DEF Emission
<1>3. e.dts \in Nat /\ IsPes(e)
  BY <1>2 DEF PesRec, IsPes
<1>4. /\ n = Len(sent) /\ m = Len(sent') /\ n \in Nat /\ m \in Nat
      /\ m = IF TablesDue(e.dts) THEN n + 2 ELSE n + 1
      /\ \A k \in 1 .. n : sent'[k] = sent[k]
      /\ sent'[m] = e
      /\ TablesDue(e.dts) => TablesFor(sent'[n + 1], e.dts)
  BY ONLY <1>1 DEF Grown
<1>5. TablesDue(e.dts) => ~ IsPes(sent'[n + 1])
  BY <1>4, TablesType
<1>6. n < m
  BY <1>4
<1>7. ASSUME NEW k \in 1 .. m, IsPes(sent'[k])
      PROVE  k \in 1 .. n \/ k = m
  <2>1. k \in 1 .. n \/ k = m \/ (TablesDue(e.dts) /\ k = n + 1)
    BY <1>4
  <2> QED
    BY <1>4, <1>5, <1>7, <2>1
<1>8. Newer(e, n, m)
  BY ONLY <1>3, <1>4, <1>6, <1>7 DEF Newer
<1> QED
  BY <1>8

\* The times that go with the pieces of a payload of stream f.
TimesOf(f, p, dts, pts) ==
    IF Begun(p) = {} THEN dts = NoPts /\ pts = NoPts
    ELSE LET s == fragment[f].samples[p[Min(Begun(p))].sample]
         IN  dts = s.pts /\ pts = s.pts + s.cto /\ dts < NoPts /\ pts < NoPts

\* An entry of the bucket has the times PesTimes asks for.
SentTimes(e) ==
    IF Begun(e.pieces) = {} THEN e.dts = NoPts /\ e.pts = NoPts
    ELSE LET s == fragment[e.stream].samples[e.pieces[Min(Begun(e.pieces))].sample]
         IN  e.dts = s.pts + MaxDelay /\ e.pts = s.pts + s.cto + MaxDelay

Stamped1(f) == TimesOf(f, stream[f].pieces, stream[f].dts, stream[f].pts)

StampedAll == PesTimes /\ \A f \in Fragments : Stamped1(f)

LEMMA BegunNone == Begun(<<>>) = {}
BY DEF Begun

LEMMA FilledStamped ==
    ASSUME Types, StampedAll, pc = "audio", at < FrameSize
    PROVE  TimesOf(order, Filled.pieces, Filled.dts, Filled.pts)
<1> DEFINE s == stream[order]
           p == [sample |-> first[order], at |-> at, size |-> Copied]
           q == s.pieces
           n == Len(q)
<1>1. /\ order \in Fragments /\ Sample(order).pts \in Nat /\ Sample(order).cto \in Nat
      /\ TimeFits(Sample(order))
  BY HandIs, SampleIs
<1>2. q \in Seq(Piece) /\ TimesOf(order, q, s.dts, s.pts)
  BY <1>1, StreamIs DEF StampedAll, Stamped1
<1>3. /\ p \in Piece /\ Filled.pieces = Append(q, p)
      /\ IF at = 0 /\ s.dts = NoPts
         THEN Filled.dts = Sample(order).pts /\ Filled.pts = Sample(order).pts + Sample(order).cto
         ELSE Filled.dts = s.dts /\ Filled.pts = s.pts
  BY FilledIs
<1>4. p.at = at /\ p.sample = first[order]
  OBVIOUS
<1> HIDE DEF p, s, q
<1>5. /\ n \in Nat /\ Begun(q) \in SUBSET (1 .. n)
      /\ Begun(Append(q, p)) = IF at = 0 THEN Begun(q) \cup {n + 1} ELSE Begun(q)
      /\ \A k \in 1 .. n : Append(q, p)[k] = q[k]
      /\ Append(q, p)[n + 1] = p
  BY <1>2, <1>3, <1>4, BegunIs
<1> HIDE DEF n
<1>6. CASE Begun(q) = {}
  <2>1. s.dts = NoPts /\ s.pts = NoPts
    BY <1>2, <1>6 DEF TimesOf
  <2>2. CASE at = 0
    <3>1. Begun(Append(q, p)) = {n + 1} /\ Min({n + 1}) = n + 1
      BY <1>5, <1>6, <2>2, MinOne
    <3>2. fragment[order].samples[Append(q, p)[Min(Begun(Append(q, p)))].sample] = Sample(order)
      BY <1>4, <1>5, <3>1 DEF Sample
    <3>3. Filled.dts = Sample(order).pts /\ Filled.pts = Sample(order).pts + Sample(order).cto
      BY <1>3, <2>1, <2>2
    <3>4. Filled.dts < NoPts /\ Filled.pts < NoPts
      BY <1>1, <3>3, Numbers DEF TimeFits
    <3> QED
      BY <1>3, <3>1, <3>2, <3>3, <3>4 DEF TimesOf
  <2>3. CASE at # 0
    BY <1>3, <1>5, <1>6, <2>1, <2>3 DEF TimesOf
  <2> QED
    BY <2>2, <2>3
<1>7. CASE Begun(q) # {}
  <2> DEFINE x == Min(Begun(q))
  <2>1. x \in 1 .. n /\ Min(Begun(q) \cup {n + 1}) = x
    BY <1>5, <1>7, MinTop
  <2>2. Begun(Append(q, p)) # {} /\ Min(Begun(Append(q, p))) = x /\ Append(q, p)[x] = q[x]
    BY <1>5, <1>7, <2>1
  <2>3. LET t == fragment[order].samples[q[x].sample]
        IN  s.dts = t.pts /\ s.pts = t.pts + t.cto /\ s.dts < NoPts /\ s.pts < NoPts
    BY <1>2, <1>7 DEF TimesOf
  <2>4. s.dts # NoPts
    <3>1. s.dts < NoPts /\ s.dts \in Nat
      BY <1>1, <2>3, StreamIs DEF s
    <3> QED
      BY <3>1, Numbers
  <2>5. Filled.dts = s.dts /\ Filled.pts = s.pts
    BY <1>3, <2>4
  <2> HIDE DEF x
  <2> QED
    BY <1>3, <2>2, <2>3, <2>5 DEF TimesOf
<1> QED
  BY <1>6, <1>7

\* What an emission leaves, if its entry and what is left have the right times.
LEMMA LeavesStamped ==
    ASSUME Types, StampedAll, UNCHANGED fragment, NEW e, NEW r, Emission(order, e, r),
           SentTimes(e), TimesOf(order, r.pieces, r.dts, r.pts)
    PROVE  StampedAll'
<1>1. stream \in [Fragments -> StreamOf(MaxPayload - 1)] /\ Fragments' = Fragments
  BY DEF Types, LoopType, Fragments
<1>2. \A f \in Fragments : stream'[f] = IF f = order THEN r ELSE stream[f]
  BY <1>1 DEF Emission
<1>3. ASSUME NEW f \in Fragments
      PROVE  TimesOf(f, stream'[f].pieces, stream'[f].dts, stream'[f].pts)
  BY <1>2 DEF StampedAll, Stamped1
<1>4. PICK n, m : Newer(e, n, m)
  BY NewEntries
<1>5. /\ m = Len(sent') /\ n = Len(sent) /\ sent'[m] = e
      /\ \A k \in 1 .. n : sent'[k] = sent[k]
      /\ \A k \in 1 .. m : IsPes(sent'[k]) => k \in 1 .. n \/ k = m
  BY <1>4 DEF Newer
<1>6. ASSUME NEW k \in 1 .. m, IsPes(sent'[k])
      PROVE  SentTimes(sent'[k])
  <2>1. CASE k \in 1 .. n
    <3>1. IsPes(sent[k]) /\ sent'[k] = sent[k]
      BY <1>5, <1>6, <2>1
    <3>2. SentTimes(sent[k])
      BY <1>5, <2>1, <3>1 DEF StampedAll, PesTimes, SentTimes
    <3> QED
      BY <3>1, <3>2
  <2>2. CASE k = m
    BY <1>5, <2>2
  <2> QED
    BY <1>5, <1>6, <2>1, <2>2
<1>7. PesTimes'
  BY <1>5, <1>6 DEF PesTimes, SentTimes, IsPes
<1>8. \A f \in Fragments' : Stamped1(f)'
  BY <1>1, <1>3 DEF Stamped1, TimesOf
<1> QED
  BY <1>7, <1>8 DEF StampedAll

LEMMA PayloadStamped ==
    ASSUME NEW f, NEW s, TimesOf(f, s.pieces, s.dts, s.pts), NEW e, NEW r, Payload(s, e, r),
           e.stream = f, s.dts \in Nat, s.pts \in Nat
    PROVE  SentTimes(e) /\ TimesOf(f, r.pieces, r.dts, r.pts)
<1>1. /\ e.pieces = s.pieces /\ e.dts = Delayed(s.dts) /\ e.pts = Delayed(s.pts)
      /\ r.pieces = <<>> /\ r.dts = NoPts /\ r.pts = NoPts
  BY DEF Payload
<1>2. TimesOf(f, r.pieces, r.dts, r.pts)
  BY <1>1, BegunNone DEF TimesOf
<1>3. SentTimes(e)
  <2>1. CASE Begun(s.pieces) = {}
    <3>1. s.dts = NoPts /\ s.pts = NoPts
      BY <2>1 DEF TimesOf
    <3> QED
      BY <1>1, <2>1, <3>1, DelayedType DEF SentTimes
  <2>2. CASE Begun(s.pieces) # {}
    <3> DEFINE t == fragment[f].samples[s.pieces[Min(Begun(s.pieces))].sample]
    <3>1. s.dts = t.pts /\ s.pts = t.pts + t.cto /\ s.dts < NoPts /\ s.pts < NoPts
      BY <2>2 DEF TimesOf
    <3>2. e.dts = s.dts + MaxDelay /\ e.pts = s.pts + MaxDelay
      BY <1>1, <3>1, DelayedType
    <3>3. e.dts = t.pts + MaxDelay /\ e.pts = t.pts + t.cto + MaxDelay
      BY <3>1, <3>2
    <3> QED
      BY <1>1, <2>2, <3>3 DEF SentTimes
  <2> QED
    BY <2>1, <2>2
<1> QED
  BY <1>2, <1>3

LEMMA StampedNext == Types /\ StampedAll /\ [Next]_vars => StampedAll'
<1> SUFFICES ASSUME Types, StampedAll, Steps PROVE StampedAll'
  BY StepsTaken
<1>1. stream \in [Fragments -> StreamOf(MaxPayload - 1)]
  BY DEF Types, LoopType
<1>2. CASE ConvertTimes
  <2>1. UNCHANGED <<stream, sent>> /\ Fragments' = Fragments
    BY <1>2 DEF ConvertTimes, Fragments, Types, FragmentsType
  <2>2. sent = <<>> /\ \A f \in Fragments : /\ stream[f].pieces = <<>>
                                            /\ stream[f].dts = NoPts /\ stream[f].pts = NoPts
    BY <1>2 DEF ConvertTimes, Types, NothingYet, NewStream
  <2>3. PesTimes'
    <3>1. 1 .. Len(sent') = {}
      BY <2>1, <2>2
    <3> QED
      BY ONLY <3>1 DEF PesTimes
  <2>4. \A f \in Fragments' : Stamped1(f)'
    BY <2>1, <2>2, BegunNone DEF Stamped1, TimesOf
  <2> QED
    BY <2>3, <2>4 DEF StampedAll
<1>3. CASE UNCHANGED <<fragment, stream, sent>>
  BY <1>3 DEF StampedAll, PesTimes, Stamped1, TimesOf, Fragments, IsPes
<1>4. CASE Copy /\ AudioCopy
  <2>1. /\ stream' = [stream EXCEPT ![order] = Filled]
        /\ UNCHANGED <<fragment, sent>> /\ Fragments' = Fragments
    BY <1>4 DEF AudioCopy, Fragments
  <2>2. TimesOf(order, Filled.pieces, Filled.dts, Filled.pts)
    BY <1>4, FilledStamped DEF Copy
  <2>3. \A f \in Fragments : stream'[f] = IF f = order THEN Filled ELSE stream[f]
    BY <1>1, <2>1
  <2>4. PesTimes'
    BY <2>1 DEF StampedAll, PesTimes, IsPes
  <2> HIDE DEF Steps, Filled
  <2>5. ASSUME NEW f \in Fragments
        PROVE  TimesOf(f, stream'[f].pieces, stream'[f].dts, stream'[f].pts)
    BY <2>2, <2>3 DEF StampedAll, Stamped1
  <2>6. \A f \in Fragments' : Stamped1(f)'
    BY <2>1, <2>5 DEF Stamped1, TimesOf
  <2> QED
    BY <2>4, <2>6 DEF StampedAll
<1>5. CASE HeldLeaves /\ UNCHANGED fragment
  <2>1. PICK e, r : Emission(order, e, r) /\ Payload(stream[order], e, r)
    BY <1>5 DEF HeldLeaves
  <2>2. order \in Fragments /\ e.stream = order
    BY <2>1 DEF Emission
  <2>3. Stamped1(order) /\ stream[order].dts \in Nat /\ stream[order].pts \in Nat
    BY <2>2, StreamIs DEF StampedAll
  <2>4. SentTimes(e) /\ TimesOf(order, r.pieces, r.dts, r.pts)
    BY <2>1, <2>2, <2>3, PayloadStamped DEF Stamped1
  <2> QED
    BY <1>5, <2>1, <2>4, LeavesStamped
<1>6. CASE Copy /\ FilledLeaves
  <2>1. PICK e, r : Emission(order, e, r) /\ Payload(Filled, e, r)
    BY <1>6 DEF FilledLeaves
  <2>2. e.stream = order
    BY <2>1 DEF Emission
  <2>3. TimesOf(order, Filled.pieces, Filled.dts, Filled.pts)
    BY <1>6, FilledStamped DEF Copy
  <2>4. Filled.dts \in Nat /\ Filled.pts \in Nat
    BY <1>6, FilledIs DEF Copy, StreamOf
  <2>5. SentTimes(e) /\ TimesOf(order, r.pieces, r.dts, r.pts)
    BY <2>1, <2>2, <2>3, <2>4, PayloadStamped
  <2> QED
    BY <1>6, <2>1, <2>5, LeavesStamped DEF Copy
<1>7. CASE VideoLeaves /\ UNCHANGED fragment
  <2>1. PICK e, r : Emission(order, e, r) /\ Video(e, r)
    BY <1>7 DEF VideoLeaves
  <2>2. order \in Fragments /\ e.stream = order
    BY <2>1 DEF Emission
  <2>3. /\ e.dts = Sample(order).pts + MaxDelay
        /\ e.pts = Sample(order).pts + Sample(order).cto + MaxDelay
        /\ e.pieces = <<[sample |-> first[order], at |-> 0, size |-> Sample(order).size]>>
        /\ r.pieces = stream[order].pieces /\ r.dts = stream[order].dts /\ r.pts = stream[order].pts
    BY <2>1 DEF Video
  <2>4. TimesOf(order, r.pieces, r.dts, r.pts)
    BY <2>2, <2>3 DEF StampedAll, Stamped1
  <2>5. Begun(e.pieces) = {1} /\ Min({1}) = 1 /\ e.pieces[1].sample = first[order]
    <3>1. Len(e.pieces) = 1 /\ e.pieces[1].at = 0 /\ e.pieces[1].sample = first[order] /\ 1 .. 1 = {1}
      BY <2>3
    <3> QED
      BY <3>1, MinOne DEF Begun
  <2>6. SentTimes(e)
    BY <2>2, <2>3, <2>5 DEF SentTimes, Sample
  <2> QED
    BY <1>7, <2>1, <2>4, <2>6, LeavesStamped
<1> QED
  BY <1>2, <1>3, <1>4, <1>5, <1>6, <1>7 DEF Steps, Rest, Turn, Copy, Taken, Silent, vars

\* A PES packet has the times of the first sample that begins in it, or none.
THEOREM PesTimed == Spec => []PesTimes
<1>1. Init => StampedAll
  <2> SUFFICES ASSUME Init PROVE StampedAll
    OBVIOUS
  <2>1. /\ sent = <<>> /\ Len(sent) = 0
        /\ \A f \in Fragments : /\ stream[f].pieces = <<>>
                                /\ stream[f].dts = NoPts /\ stream[f].pts = NoPts
    BY DEF Init, NewStream
  <2>2. PesTimes
    <3> SUFFICES ASSUME NEW k \in 1 .. Len(sent) PROVE FALSE
      BY DEF PesTimes
    <3> QED
      BY <2>1
  <2>3. ASSUME NEW f \in Fragments PROVE Stamped1(f)
    BY <2>1, <2>3, BegunNone DEF Stamped1, TimesOf
  <2> QED
    BY <2>2, <2>3 DEF StampedAll
<1>2. StampedAll => PesTimes
  BY DEF StampedAll
<1> QED
  BY <1>1, <1>2, StampedNext, TypesHold, PTL DEF Spec

-------------------------------------------------------------------------------
(* The order of the times. *)

\* The times of the samples that begin in an entry of the bucket.
EntryTimes(e) == BegunTimes(e.stream, e.pieces)

HeldTimes(f) == BegunTimes(f, stream[f].pieces)

\* What was sent is not later than what is held back, and neither is later than
\* a sample to come.
Ordered ==
    /\ \A f \in Fragments : \A s \in HeldTimes(f) :
         s \in Nat /\ \A g \in Fragments : s <= Sample(g).pts
    /\ \A k \in 1 .. Len(sent) : IsPes(sent[k]) => \A s \in EntryTimes(sent[k]) :
         /\ s \in Nat
         /\ \A g \in Fragments : s <= Sample(g).pts
         /\ \A f \in Fragments : \A t \in HeldTimes(f) : s <= t
    /\ TimesInOrder

\* One more piece adds the time of the sample, if it begins with it.
LEMMA BegunTimesIs ==
    ASSUME NEW f, NEW q \in Seq(Piece), NEW p \in Piece
    PROVE  \A s \in BegunTimes(f, Append(q, p)) :
             \/ s \in BegunTimes(f, q)
             \/ p.at = 0 /\ s = fragment[f].samples[p.sample].pts
<1>1. /\ Begun(q) \in SUBSET (1 .. Len(q))
      /\ Begun(Append(q, p)) = IF p.at = 0 THEN Begun(q) \cup {Len(q) + 1} ELSE Begun(q)
      /\ \A k \in 1 .. Len(q) : Append(q, p)[k] = q[k]
      /\ Append(q, p)[Len(q) + 1] = p
  BY BegunIs
<1> SUFFICES ASSUME NEW k \in Begun(Append(q, p))
             PROVE  \/ fragment[f].samples[Append(q, p)[k].sample].pts \in BegunTimes(f, q)
                    \/ /\ p.at = 0
                       /\ fragment[f].samples[Append(q, p)[k].sample].pts
                            = fragment[f].samples[p.sample].pts
  BY DEF BegunTimes
<1>2. CASE k \in Begun(q)
  <2>1. Append(q, p)[k] = q[k]
    BY <1>1, <1>2
  <2> QED
    BY <1>2, <2>1 DEF BegunTimes
<1>3. CASE p.at = 0 /\ k = Len(q) + 1
  BY <1>1, <1>3
<1> QED
  BY <1>1, <1>2, <1>3

\* What the loop does to the times to come: none gets earlier.
LEMMA TimesToCome ==
    ASSUME Types, Rest \/ Turn \/ Copy \/ Taken \/ UNCHANGED vars
    PROVE  /\ Fragments' = Fragments /\ UNCHANGED fragment
           /\ \A g \in Fragments : /\ Sample(g).pts \in Nat /\ Sample(g)'.pts \in Nat
                                   /\ Sample(g).pts <= Sample(g)'.pts
<1>1. UNCHANGED fragment /\ Fragments' = Fragments
  BY DEF Rest, Turn, Copy, Taken, vars, Fragments
<1>2. \A g \in Fragments : Sample(g).pts \in Nat
  BY SampleIs
<1>3. CASE UNCHANGED first
  BY <1>1, <1>2, <1>3 DEF Sample
<1>4. CASE Taken
  <2>1. order \in Fragments /\ first[order] \in 0 .. fragment[order].size - 1
        /\ first' = [first EXCEPT ![order] = @ + 1] /\ first \in [Fragments -> Nat]
    BY <1>4, HandIs DEF Taken, Types, LoopType
  <2>2. ASSUME NEW g \in Fragments
        PROVE  Sample(g)'.pts \in Nat /\ Sample(g).pts <= Sample(g)'.pts
    <3>1. CASE g = order
      <4>1. first[g] \in 0 .. fragment[g].size /\ first[g] + 1 \in 0 .. fragment[g].size
            /\ first[g] <= first[g] + 1
        BY <2>1, <3>1, StreamIs
      <4>2. fragment[g].samples[first[g]].pts <= fragment[g].samples[first[g] + 1].pts
        BY <4>1, StreamIs, TimesGrow
      <4>3. fragment[g].samples[first[g] + 1].pts \in Nat
        BY <4>1, StreamIs, FragmentIs
      <4>4. Sample(g)' = fragment[g].samples[first[g] + 1]
        BY <1>1, <2>1, <3>1 DEF Sample
      <4> QED
        BY <4>2, <4>3, <4>4 DEF Sample
    <3>2. CASE g # order
      <4>1. Sample(g)' = Sample(g)
        BY <1>1, <2>1, <3>2 DEF Sample
      <4> QED
        BY <1>2, <4>1
    <3> QED
      BY <3>1, <3>2
  <2> QED
    BY <1>1, <1>2, <2>2
<1> QED
  BY <1>3, <1>4 DEF Rest, Turn, Copy, vars

\* Nothing leaves, and what is held back stays in order.
LEMMA OrderedKept ==
    ASSUME Types, Ordered, UNCHANGED sent, Rest \/ Turn \/ Copy \/ Taken \/ UNCHANGED vars,
           \A f \in Fragments : \A s \in HeldTimes(f)' :
             \/ s \in HeldTimes(f)
             \/ s \in Nat /\ \A g \in Fragments : \E h \in Fragments :
                  s = Sample(h).pts /\ Sample(h).pts <= Sample(g).pts
    PROVE  Ordered'
<1>1. /\ Fragments' = Fragments /\ UNCHANGED fragment
      /\ \A g \in Fragments : /\ Sample(g).pts \in Nat /\ Sample(g)'.pts \in Nat
                              /\ Sample(g).pts <= Sample(g)'.pts
  BY TimesToCome
<1>2. \A e : EntryTimes(e)' = EntryTimes(e)
  BY <1>1 DEF EntryTimes, BegunTimes
<1>3. ASSUME NEW f \in Fragments, NEW s \in HeldTimes(f)'
      PROVE  s \in Nat /\ \A g \in Fragments : s <= Sample(g)'.pts
  <2> SUFFICES ASSUME NEW g \in Fragments PROVE s \in Nat /\ s <= Sample(g)'.pts
    BY <1>1
  <2>1. s \in Nat /\ s <= Sample(g).pts
    BY <1>3 DEF Ordered
  <2> QED
    BY <1>1, <2>1
<1>4. ASSUME NEW k \in 1 .. Len(sent), IsPes(sent[k]), NEW s \in EntryTimes(sent[k])
      PROVE  /\ s \in Nat
             /\ \A g \in Fragments : s <= Sample(g)'.pts
             /\ \A f \in Fragments : \A t \in HeldTimes(f)' : s <= t
  <2>1. /\ s \in Nat
        /\ \A g \in Fragments : s <= Sample(g).pts
        /\ \A f \in Fragments : \A t \in HeldTimes(f) : s <= t
    BY <1>4 DEF Ordered
  <2>2. \A g \in Fragments : s <= Sample(g)'.pts
    BY <1>1, <2>1
  <2>3. ASSUME NEW f \in Fragments, NEW t \in HeldTimes(f)' PROVE s <= t
    BY <2>1, <2>3
  <2> QED
    BY <2>1, <2>2, <2>3
<1>5. TimesInOrder'
  <2>1. \A k \in 1 .. Len(sent) :
          BegunTimes(sent[k].stream, sent[k].pieces)' = BegunTimes(sent[k].stream, sent[k].pieces)
    BY <1>1 DEF BegunTimes
  <2>2. TimesInOrder /\ UNCHANGED sent
    BY DEF Ordered
  <2> QED
    BY ONLY <2>1, <2>2 DEF TimesInOrder, IsPes
<1>6. \A f \in Fragments' : \A s \in HeldTimes(f)' :
        s \in Nat /\ \A g \in Fragments' : s <= Sample(g)'.pts
  BY <1>1, <1>3
<1>7. \A k \in 1 .. Len(sent') : IsPes(sent'[k]) => \A s \in EntryTimes(sent'[k]) :
         /\ s \in Nat
         /\ \A g \in Fragments' : s <= Sample(g)'.pts
         /\ \A f \in Fragments' : \A t \in HeldTimes(f)' : s <= t
  BY <1>1, <1>4
<1>8. \A k \in 1 .. Len(sent') : EntryTimes(sent[k])' = EntryTimes(sent'[k])
  BY <1>1 DEF EntryTimes, BegunTimes
<1> QED
  BY <1>5, <1>6, <1>7, <1>8 DEF Ordered, IsPes

\* An entry leaves that begins no earlier than what was sent, and nothing is
\* held back after it.
LEMMA OrderedLeaves ==
    ASSUME Types, Ordered, Rest \/ Turn \/ Copy \/ Taken, NEW e, NEW r, Emission(order, e, r),
           \A f \in Fragments : stream'[f].pieces = <<>>,
           \A s \in EntryTimes(e) : /\ s \in Nat
                                    /\ \A g \in Fragments : s <= Sample(g).pts
                                    /\ \/ s = Sample(order).pts
                                       \/ s \in HeldTimes(order)
    PROVE  Ordered'
<1>1. /\ Fragments' = Fragments /\ UNCHANGED fragment
      /\ \A g \in Fragments : /\ Sample(g).pts \in Nat /\ Sample(g)'.pts \in Nat
                              /\ Sample(g).pts <= Sample(g)'.pts
  BY TimesToCome
<1>2. PICK n, m : Newer(e, n, m)
  BY NewEntries
<1>3. /\ m = Len(sent') /\ n = Len(sent) /\ n \in Nat /\ m \in Nat /\ n < m /\ sent'[m] = e
      /\ \A k \in 1 .. n : sent'[k] = sent[k]
      /\ \A k \in 1 .. m : IsPes(sent'[k]) => k \in 1 .. n \/ k = m
  BY <1>2 DEF Newer
<1>4. \A f \in Fragments : HeldTimes(f)' = {}
  BY BegunNone DEF HeldTimes, BegunTimes
<1>5. order \in Fragments
  BY DEF Emission
<1>6. ASSUME NEW k \in 1 .. m, IsPes(sent'[k]), NEW s \in EntryTimes(sent'[k])
      PROVE  /\ s \in Nat /\ \A g \in Fragments : s <= Sample(g).pts
  <2>1. CASE k \in 1 .. n
    <3>1. sent'[k] = sent[k] /\ k \in 1 .. Len(sent)
      BY <1>3, <2>1
    <3> QED
      BY <1>6, <3>1 DEF Ordered
  <2>2. CASE k = m
    BY <1>3, <1>6, <2>2
  <2> QED
    BY <1>3, <1>6, <2>1, <2>2
<1>7. ASSUME NEW j \in 1 .. m, NEW k \in 1 .. m, j < k, IsPes(sent'[j]), IsPes(sent'[k]),
             NEW s \in EntryTimes(sent'[j]), NEW t \in EntryTimes(sent'[k])
      PROVE  s <= t
  <2>1. j \in 1 .. n
    BY <1>3, <1>7
  <2>2. sent'[j] = sent[j] /\ j \in 1 .. Len(sent) /\ IsPes(sent[j])
    BY <1>3, <1>7, <2>1
  <2>3. CASE k \in 1 .. n
    <3>1. sent'[k] = sent[k] /\ k \in 1 .. Len(sent) /\ IsPes(sent[k])
      BY <1>3, <1>7, <2>3
    <3> QED
      BY <1>7, <2>2, <3>1 DEF Ordered, TimesInOrder, EntryTimes
  <2>4. CASE k = m
    <3>1. t = Sample(order).pts \/ t \in HeldTimes(order)
      BY <1>3, <1>7, <2>4
    <3>2. /\ \A g \in Fragments : s <= Sample(g).pts
          /\ \A f \in Fragments : \A u \in HeldTimes(f) : s <= u
      BY <1>7, <2>2 DEF Ordered
    <3> QED
      BY <1>5, <3>1, <3>2
  <2> QED
    BY <1>3, <1>7, <2>3, <2>4
<1>8. \A x : EntryTimes(x)' = EntryTimes(x)
  BY <1>1 DEF EntryTimes, BegunTimes
<1>9. TimesInOrder'
  <2>1. \A k \in 1 .. m :
          BegunTimes(sent[k].stream, sent[k].pieces)' = EntryTimes(sent'[k])
    BY <1>1 DEF EntryTimes, BegunTimes
  <2> QED
    BY <1>3, <1>7, <2>1 DEF TimesInOrder, IsPes
<1>10. ASSUME NEW k \in 1 .. m, IsPes(sent'[k]), NEW s \in EntryTimes(sent'[k])
       PROVE  s \in Nat /\ \A g \in Fragments : s <= Sample(g)'.pts
  <2>1. s \in Nat /\ \A g \in Fragments : s <= Sample(g).pts
    BY <1>6, <1>10
  <2> QED
    BY <1>1, <2>1
<1>11. \A k \in 1 .. m : EntryTimes(sent[k])' = EntryTimes(sent'[k])
  BY <1>1 DEF EntryTimes, BegunTimes
<1> QED
  BY <1>1, <1>3, <1>4, <1>9, <1>10, <1>11 DEF Ordered, IsPes

\* The pieces with the one just copied begin what was held, or the sample in hand.
LEMMA FilledTimes ==
    ASSUME Types, Merged, pc = "audio", at < FrameSize
    PROVE  /\ order \in Fragments /\ Sample(order).pts \in Nat
           /\ \A g \in Fragments : Sample(order).pts <= Sample(g).pts
           /\ \A s \in BegunTimes(order, Filled.pieces) :
                s \in HeldTimes(order) \/ s = Sample(order).pts
<1> DEFINE p == [sample |-> first[order], at |-> at, size |-> Copied]
<1>1. order \in Fragments /\ Sample(order).pts \in Nat
      /\ \A g \in Fragments : Sample(order).pts <= Sample(g).pts
  BY HandIs, SampleIs DEF Merged
<1>2. stream[order].pieces \in Seq(Piece)
  BY <1>1, StreamIs
<1>3. p \in Piece /\ Filled.pieces = Append(stream[order].pieces, p)
  BY FilledIs
<1>4. fragment[order].samples[p.sample].pts = Sample(order).pts
  BY DEF Sample
<1> HIDE DEF p
<1>5. \A s \in BegunTimes(order, Filled.pieces) :
        s \in HeldTimes(order) \/ s = Sample(order).pts
  BY <1>2, <1>3, <1>4, BegunTimesIs DEF HeldTimes
<1> QED
  BY <1>1, <1>5

\* After an emission of the stream that held something, none holds any.
LEMMA NoneHeld ==
    ASSUME Types, Holding, NEW e, NEW r, Emission(order, e, r), r.pieces = <<>>
    PROVE  \A f \in Fragments : stream'[f].pieces = <<>>
<1>1. stream \in [Fragments -> StreamOf(MaxPayload - 1)]
  BY DEF Types, LoopType
<1>2. \A f \in Fragments : stream'[f] = IF f = order THEN r ELSE stream[f]
  BY <1>1 DEF Emission
<1> QED
  BY <1>2 DEF Holding

LEMMA OrderedNext == Types /\ Merged /\ Holding /\ Ordered /\ [Next]_vars => Ordered'
<1> SUFFICES ASSUME Types, Merged, Holding, Ordered, Steps PROVE Ordered'
  BY StepsTaken
<1>1. stream \in [Fragments -> StreamOf(MaxPayload - 1)]
  BY DEF Types, LoopType
<1>2. CASE ConvertTimes
  <2>1. UNCHANGED <<stream, sent>> /\ Fragments' = Fragments
    BY <1>2 DEF ConvertTimes, Fragments, Types, FragmentsType
  <2>2. sent = <<>> /\ Len(sent') = 0 /\ \A f \in Fragments : stream[f].pieces = <<>>
    BY <1>2, <2>1 DEF ConvertTimes, Types, NothingYet, NewStream
  <2>3. \A f \in Fragments' : HeldTimes(f)' = {}
    BY <2>1, <2>2, BegunNone DEF HeldTimes, BegunTimes
  <2>4. TimesInOrder'
    <3>1. 1 .. Len(sent') = {}
      BY <2>2
    <3> QED
      BY ONLY <3>1 DEF TimesInOrder
  <2> QED
    BY <2>2, <2>3, <2>4 DEF Ordered
<1>3. CASE UNCHANGED <<fragment, stream, sent>> /\ (Rest \/ Turn \/ Taken \/ UNCHANGED vars)
  <2>1. \A f \in Fragments : HeldTimes(f)' = HeldTimes(f)
    BY <1>3 DEF HeldTimes, BegunTimes
  <2> HIDE DEF Steps
  <2> QED
    BY <1>3, <2>1, OrderedKept
<1>4. CASE Copy /\ AudioCopy
  <2>1. /\ stream' = [stream EXCEPT ![order] = Filled] /\ UNCHANGED <<fragment, sent>>
        /\ pc = "audio" /\ at < FrameSize
    BY <1>4 DEF AudioCopy
  <2>2. /\ order \in Fragments /\ Sample(order).pts \in Nat
        /\ \A g \in Fragments : Sample(order).pts <= Sample(g).pts
        /\ \A s \in BegunTimes(order, Filled.pieces) :
             s \in HeldTimes(order) \/ s = Sample(order).pts
    BY <2>1, FilledTimes
  <2>3. \A f \in Fragments : stream'[f] = IF f = order THEN Filled ELSE stream[f]
    BY <1>1, <2>1
  <2> HIDE DEF Steps, Filled
  <2>4. ASSUME NEW f \in Fragments, NEW s \in HeldTimes(f)'
        PROVE  \/ s \in HeldTimes(f)
               \/ s \in Nat /\ \A g \in Fragments : \E h \in Fragments :
                    s = Sample(h).pts /\ Sample(h).pts <= Sample(g).pts
    <3>1. CASE f = order
      <4>1. HeldTimes(f)' = BegunTimes(order, Filled.pieces)
        <5>1. PICK p : p = Filled.pieces
          OBVIOUS
        <5>2. stream'[f].pieces = p /\ f = order
          BY <2>3, <3>1, <5>1
        <5>3. BegunTimes(f, stream[f].pieces)' = BegunTimes(order, p)
          BY <2>1, <5>2 DEF BegunTimes
        <5> QED
          BY <5>1, <5>3 DEF HeldTimes
      <4> QED
        BY <2>2, <2>4, <3>1, <4>1
    <3>2. CASE f # order
      <4>1. HeldTimes(f)' = HeldTimes(f)
        BY <2>1, <2>3, <3>2 DEF HeldTimes, BegunTimes
      <4> QED
        BY <2>4, <4>1
    <3> QED
      BY <3>1, <3>2
  <2> QED
    BY <1>4, <2>1, <2>4, OrderedKept
<1>5. CASE (Turn \/ Taken) /\ HeldLeaves
  <2>1. PICK e, r : Emission(order, e, r) /\ Payload(stream[order], e, r)
    BY <1>5 DEF HeldLeaves
  <2>2. /\ order \in Fragments /\ e.stream = order /\ e.pieces = stream[order].pieces
        /\ r.pieces = <<>>
    BY <2>1 DEF Emission, Payload
  <2>3. EntryTimes(e) = HeldTimes(order)
    BY <2>2 DEF EntryTimes, HeldTimes
  <2>4. \A f \in Fragments : stream'[f].pieces = <<>>
    BY <2>1, <2>2, NoneHeld
  <2>5. \A s \in EntryTimes(e) : /\ s \in Nat
                                 /\ \A g \in Fragments : s <= Sample(g).pts
                                 /\ \/ s = Sample(order).pts
                                    \/ s \in HeldTimes(order)
    BY <2>2, <2>3 DEF Ordered
  <2> QED
    BY <1>5, <2>1, <2>4, <2>5, OrderedLeaves
<1>6. CASE Copy /\ FilledLeaves
  <2>1. PICK e, r : Emission(order, e, r) /\ Payload(Filled, e, r)
    BY <1>6 DEF FilledLeaves
  <2>2. e.stream = order /\ e.pieces = Filled.pieces /\ r.pieces = <<>>
    BY <2>1 DEF Emission, Payload
  <2>3. /\ order \in Fragments /\ Sample(order).pts \in Nat
        /\ \A g \in Fragments : Sample(order).pts <= Sample(g).pts
        /\ \A s \in EntryTimes(e) : s \in HeldTimes(order) \/ s = Sample(order).pts
    BY <1>6, <2>2, FilledTimes DEF Copy, EntryTimes
  <2>4. \A f \in Fragments : stream'[f].pieces = <<>>
    BY <2>1, <2>2, NoneHeld
  <2>5. \A s \in EntryTimes(e) : /\ s \in Nat
                                 /\ \A g \in Fragments : s <= Sample(g).pts
                                 /\ \/ s = Sample(order).pts
                                    \/ s \in HeldTimes(order)
    BY <2>3 DEF Ordered
  <2> QED
    BY <1>6, <2>1, <2>4, <2>5, OrderedLeaves
<1>7. CASE Taken /\ pc = "video" /\ VideoLeaves
  <2>1. PICK e, r : Emission(order, e, r) /\ Video(e, r)
    BY <1>7 DEF VideoLeaves
  <2>2. /\ order \in Fragments /\ e.stream = order
        /\ e.pieces = <<[sample |-> first[order], at |-> 0, size |-> Sample(order).size]>>
        /\ r.pieces = stream[order].pieces
    BY <2>1 DEF Emission, Video
  <2>3. r.pieces = <<>>
    BY <1>7, <2>2 DEF Holding, Types, InHand
  <2>4. \A f \in Fragments : stream'[f].pieces = <<>>
    BY <2>1, <2>3, NoneHeld
  <2>5. \A s \in EntryTimes(e) : s = Sample(order).pts
    <3>1. Len(e.pieces) = 1 /\ e.pieces[1].sample = first[order] /\ 1 .. 1 = {1}
      BY <2>2
    <3>2. \A k \in Begun(e.pieces) : e.pieces[k].sample = first[order]
      BY <3>1 DEF Begun
    <3> QED
      BY <2>2, <3>2 DEF EntryTimes, BegunTimes, Sample
  <2>6. /\ Sample(order).pts \in Nat
        /\ \A g \in Fragments : Sample(order).pts <= Sample(g).pts
    BY <1>7, <2>2, SampleIs DEF Merged
  <2> QED
    BY <1>7, <2>1, <2>4, <2>5, <2>6, OrderedLeaves
<1> QED
  BY <1>2, <1>3, <1>4, <1>5, <1>6, <1>7 DEF Steps, Rest, Turn, Copy, Taken, Silent, vars

\* Samples leave in the order of their times, whichever fragment they are of.
THEOREM TimesLeaveInOrder == Spec => []TimesInOrder
<1>1. Init => Ordered
  <2> SUFFICES ASSUME Init PROVE Ordered
    OBVIOUS
  <2>1. sent = <<>> /\ Len(sent) = 0 /\ \A f \in Fragments : stream[f].pieces = <<>>
    BY DEF Init, NewStream
  <2>2. \A f \in Fragments : HeldTimes(f) = {}
    BY <2>1, BegunNone DEF HeldTimes, BegunTimes
  <2> QED
    BY <2>1, <2>2 DEF Ordered, TimesInOrder
<1>2. Types /\ (Merged /\ Holding) /\ Ordered /\ [Next]_vars => Ordered'
  BY OrderedNext
<1>3. Ordered => TimesInOrder
  BY DEF Ordered
<1> QED
  BY <1>1, <1>2, <1>3, TypesHold, HoldingAlways, PTL DEF Spec

-------------------------------------------------------------------------------
(* The pieces of audio. *)

\* The pieces sent and held of fragment f reach to where the loop is in it.
WholeOf(f) ==
    /\ \A k \in PesAt(f, Len(sent)) : Joined(f, SentTo(f, k - 1), sent[k].pieces)
    /\ IF stream[f].pieces = <<>> THEN SentTo(f, Len(sent)) = Here(f)
       ELSE /\ Joined(f, SentTo(f, Len(sent)), stream[f].pieces)
            /\ After(f, Last(stream[f].pieces)) = Here(f)

Whole == \A f \in Fragments : IsAudio(f) => WholeOf(f)

\* A piece that begins where the payload ends goes on with it.
LEMMA JoinedAppend ==
    ASSUME NEW f, NEW place, NEW q \in Seq(Piece), NEW p \in Piece,
           IF q = <<>> THEN Place(p) = place
           ELSE Joined(f, place, q) /\ After(f, Last(q)) = Place(p)
    PROVE  Joined(f, place, Append(q, p)) /\ Last(Append(q, p)) = p
<1> DEFINE a == Append(q, p)
           n == Len(q)
<1>1. /\ n \in Nat /\ a # <<>> /\ Len(a) = n + 1 /\ a[n + 1] = p
      /\ \A k \in 1 .. n : a[k] = q[k]
  BY BegunIs
<1>2. q = <<>> <=> n = 0
  OBVIOUS
<1> HIDE DEF a, n
<1>3. Last(a) = p
  BY <1>1 DEF Last
<1>4. Place(a[1]) = place
  <2>1. CASE n = 0
    <3>1. a[1] = p
      BY <1>1, <2>1
    <3> QED
      BY <1>2, <2>1, <3>1
  <2>2. CASE n # 0
    <3>1. 1 \in 1 .. n
      BY <1>1, <2>2
    <3> QED
      BY <1>1, <1>2, <2>2, <3>1 DEF Joined
  <2> QED
    BY <2>1, <2>2
<1>5. ASSUME NEW k \in 1 .. Len(a) - 1
      PROVE  Place(a[k + 1]) = After(f, a[k])
  <2>1. k \in 1 .. n /\ n # 0 /\ a[k] = q[k]
    BY <1>1
  <2>2. CASE k = n
    <3>1. a[k + 1] = p /\ Last(q) = q[k]
      BY <1>1, <2>2 DEF Last, n
    <3> QED
      BY <1>2, <2>1, <3>1
  <2>3. CASE k # n
    <3>1. k \in 1 .. n - 1 /\ k + 1 \in 1 .. n
      BY <1>1, <2>1, <2>3
    <3>2. Place(q[k + 1]) = After(f, q[k])
      BY <1>2, <2>1, <3>1 DEF Joined, n
    <3> QED
      BY <1>1, <2>1, <3>1, <3>2
  <2> QED
    BY <2>2, <2>3
<1>6. Joined(f, place, a)
  BY <1>1, <1>4, <1>5 DEF Joined
<1> QED
  BY <1>3, <1>6 DEF a

\* Where what was sent of a fragment ends, after one more entry.
LEMMA SentToGrows ==
    ASSUME Types, UNCHANGED fragment, NEW f, NEW e, NEW n, NEW m, Grown(f, e, n, m)
    PROVE  /\ \A g : \A k \in 0 .. n : SentTo(g, k)' = SentTo(g, k)
           /\ \A g : SentTo(g, m - 1)' = SentTo(g, n)
           /\ SentTo(f, m)' = After(f, Last(e.pieces))
           /\ \A g : g # f => SentTo(g, m)' = SentTo(g, n)
<1>1. /\ n = Len(sent) /\ n \in Nat /\ m \in Nat /\ n < m
      /\ sent'[m] = e
      /\ \A k \in 0 .. n : \A g : PesAt(g, k)' = PesAt(g, k)
      /\ \A g : PesAt(g, m - 1)' = PesAt(g, n)
      /\ PesAt(f, m)' = PesAt(f, n) \cup {m}
      /\ \A g : g # f => PesAt(g, m)' = PesAt(g, n)
  <2>1. n < m
    BY DEF Grown
  <2> QED
    BY <2>1 DEF Grown
<1>2. \A g : \A k \in 0 .. n : PesAt(g, k) \in SUBSET (1 .. k)
  BY <1>1, PlacesIn
<1>3. ASSUME NEW g, NEW k \in 0 .. n, NEW j, PesAt(g, j)' = PesAt(g, k)
      PROVE  SentTo(g, j)' = SentTo(g, k)
  <2>1. PICK S : S = PesAt(g, k)
    OBVIOUS
  <2>2. CASE S = {}
    BY <1>3, <2>1, <2>2 DEF SentTo
  <2>3. CASE S # {}
    <3>1. sent'[Max(S)] = sent[Max(S)]
      BY <1>2, <2>1, <2>3, PlaceKept
    <3>2. SentTo(g, k) = After(g, Last(sent[Max(S)].pieces))
      BY <2>1, <2>3 DEF SentTo
    <3>3. SentTo(g, j)' = After(g, Last(sent'[Max(S)].pieces))
      BY <1>3, <2>1, <2>3 DEF SentTo, After
    <3> QED
      BY <3>1, <3>2, <3>3
  <2> QED
    BY <2>2, <2>3
<1>4. n \in 0 .. n
  BY <1>1
<1>5. SentTo(f, m)' = After(f, Last(e.pieces))
  <2>1. m - 1 \in Nat /\ PesAt(f, n) \in SUBSET (1 .. m - 1) /\ m - 1 + 1 = m
    BY <1>1, <1>2, <1>4
  <2>2. Max(PesAt(f, n) \cup {m}) = m
    BY <2>1, MaxTop
  <2> QED
    BY <1>1, <2>2 DEF SentTo, After
<1> QED
  BY <1>1, <1>3, <1>4, <1>5

\* An entry leaves: of an audio fragment, what reaches to place, where the loop
\* is after it, and leaves nothing held; of a video fragment, anything.
LEMMA WholeLeaves ==
    ASSUME Types, Whole, UNCHANGED fragment, NEW o \in Fragments, NEW e, NEW r, Emission(o, e, r),
           \A f \in Fragments \ {o} : IsAudio(f) => Here(f)' = Here(f),
           IsAudio(o) => /\ r.pieces = <<>>
                         /\ Joined(o, SentTo(o, Len(sent)), e.pieces)
                         /\ Here(o)' = After(o, Last(e.pieces))
    PROVE  Whole'
<1>1. PICK n, m : Grown(o, e, n, m)
  BY PlacesGrow
<1>2. /\ n = Len(sent) /\ m = Len(sent') /\ n \in Nat /\ m \in Nat
      /\ sent'[m] = e
      /\ \A k \in 1 .. n : sent'[k] = sent[k]
      /\ PesAt(o, m)' = PesAt(o, n) \cup {m}
      /\ \A g : g # o => PesAt(g, m)' = PesAt(g, n)
  BY <1>1 DEF Grown
<1>3. /\ \A g : \A k \in 0 .. n : SentTo(g, k)' = SentTo(g, k)
      /\ \A g : SentTo(g, m - 1)' = SentTo(g, n)
      /\ SentTo(o, m)' = After(o, Last(e.pieces))
      /\ \A g : g # o => SentTo(g, m)' = SentTo(g, n)
  BY <1>1, SentToGrows
<1>4. /\ stream'[o] = r /\ \A f \in Fragments \ {o} : stream'[f] = stream[f]
  <2>1. stream \in [Fragments -> StreamOf(MaxPayload - 1)] /\ stream' = [stream EXCEPT ![o] = r]
    BY DEF Types, LoopType, Emission
  <2> QED
    BY <2>1
<1>5. Fragments' = Fragments /\ \A f : IsAudio(f)' <=> IsAudio(f)
  BY DEF Fragments, IsAudio
<1>6. \A f, place, p : Joined(f, place, p)' <=> Joined(f, place, p)
  BY DEF Joined, After
<1>7. \A f, p : After(f, p)' = After(f, p)
  BY DEF After
<1>8. \A g : PesAt(g, n) \in SUBSET (1 .. n)
  <2>1. n \in 0 .. Len(sent)
    BY <1>2
  <2> QED
    BY <2>1, PlacesIn
<1>9. ASSUME NEW f \in Fragments, IsAudio(f), NEW k \in PesAt(f, n)
      PROVE  Joined(f, SentTo(f, k - 1)', sent'[k].pieces)
  <2>1. Joined(f, SentTo(f, k - 1), sent[k].pieces)
    BY <1>2, <1>9 DEF Whole, WholeOf
  <2>2. k \in 1 .. n /\ k - 1 \in 0 .. n
    BY <1>2, <1>8, <1>9
  <2> QED
    BY <1>2, <1>3, <2>1, <2>2
<1>10. ASSUME NEW f \in Fragments, IsAudio(f)
       PROVE  /\ \A k \in PesAt(f, m)' : Joined(f, SentTo(f, k - 1)', sent'[k].pieces)
              /\ IF stream'[f].pieces = <<>> THEN SentTo(f, m)' = Here(f)'
                 ELSE /\ Joined(f, SentTo(f, m)', stream'[f].pieces)
                      /\ After(f, Last(stream'[f].pieces)) = Here(f)'
  <2>1. CASE f = o
    <3>1. r.pieces = <<>> /\ Joined(o, SentTo(o, n), e.pieces) /\ Here(o)' = After(o, Last(e.pieces))
      BY <1>2, <1>10, <2>1
    <3>2. \A k \in PesAt(f, m)' : k \in PesAt(f, n) \/ k = m
      BY <1>2, <2>1
    <3>3. Joined(f, SentTo(f, m - 1)', sent'[m].pieces)
      BY <1>2, <1>3, <2>1, <3>1
    <3> QED
      BY <1>3, <1>4, <1>9, <1>10, <2>1, <3>1, <3>2, <3>3
  <2>2. CASE f # o
    <3>1. /\ PesAt(f, m)' = PesAt(f, n) /\ SentTo(f, m)' = SentTo(f, n)
          /\ stream'[f] = stream[f] /\ Here(f)' = Here(f)
      BY <1>2, <1>3, <1>4, <1>10, <2>2
    <3>2. IF stream[f].pieces = <<>> THEN SentTo(f, n) = Here(f)
          ELSE Joined(f, SentTo(f, n), stream[f].pieces) /\ After(f, Last(stream[f].pieces)) = Here(f)
      BY <1>2, <1>10 DEF Whole, WholeOf
    <3> QED
      BY <1>9, <1>10, <3>1, <3>2
  <2> QED
    BY <2>1, <2>2
<1>11. \A f \in Fragments : IsAudio(f) => WholeOf(f)'
  <2> SUFFICES ASSUME NEW f \in Fragments, IsAudio(f) PROVE WholeOf(f)'
    OBVIOUS
  <2>1. PesAt(f, Len(sent))' = PesAt(f, m)' /\ SentTo(f, Len(sent))' = SentTo(f, m)'
    BY <1>2 DEF PesAt, SentTo
  <2>2. \A k : Joined(f, SentTo(f, k - 1), sent[k].pieces)'
                 <=> Joined(f, SentTo(f, k - 1)', sent'[k].pieces)
    BY DEF Joined, After
  <2>3. Joined(f, SentTo(f, Len(sent)), stream[f].pieces)'
          <=> Joined(f, SentTo(f, Len(sent))', stream'[f].pieces)
    BY DEF Joined, After
  <2>4. After(f, Last(stream[f].pieces))' = After(f, Last(stream'[f].pieces))
    BY DEF After, Last
  <2> QED
    BY <1>10, <2>1, <2>2, <2>3, <2>4 DEF WholeOf
<1> QED
  BY <1>5, <1>11 DEF Whole

\* Turning to a sample, and leaving one whose frame is done, moves no place.
LEMMA HereSame ==
    ASSUME Types, pc' # "crashed", Rest \/ Turn \/ Taken \/ UNCHANGED vars,
           pc = "audio" /\ Taken => at = FrameSize
    PROVE  \A f \in Fragments : IsAudio(f) => Here(f)' = Here(f)
<1> SUFFICES ASSUME NEW f \in Fragments, IsAudio(f) PROVE Here(f)' = Here(f)
  OBVIOUS
<1>1. CASE Rest
  BY <1>1 DEF Rest, Here
<1>2. CASE Turn
  <2>1. /\ pc = "choose" /\ UNCHANGED <<fragment, first>> /\ at' = 0
    BY <1>2 DEF Turn
  <2>2. Here(f) = <<first[f], 0>>
    BY <2>1 DEF Here
  <2>3. CASE pc' = "audio" /\ order' = f
    <3>1. FrameSize' = AdtsSize + Sample(f).size
      BY <2>1, <2>3 DEF FrameSize, Sample
    <3>2. 0 < FrameSize'
      BY <3>1, SampleIs, Numbers
    <3> QED
      BY <2>1, <2>2, <2>3, <3>2 DEF Here
  <2>4. CASE ~ (pc' = "audio" /\ order' = f)
    BY <2>1, <2>2, <2>4 DEF Here
  <2> QED
    BY <2>3, <2>4
<1>3. CASE Taken
  <2>1. /\ pc' = "choose" /\ first' = [first EXCEPT ![order] = @ + 1] /\ first \in [Fragments -> Nat]
        /\ order \in Fragments
    BY <1>3, HandIs DEF Taken, Types, LoopType
  <2>2. Here(f)' = <<first'[f], 0>>
    BY <2>1 DEF Here
  <2>3. CASE f = order
    <3>1. pc = "audio"
      BY <1>3, <2>3 DEF Taken, Types, InHand
    <3>2. at = FrameSize /\ FrameSize \in Nat
      BY <1>3, <3>1, HandIs
    <3>3. Here(f) = <<first[f] + 1, 0>>
      BY <2>3, <3>1, <3>2 DEF Here
    <3> QED
      BY <2>1, <2>2, <2>3, <3>3
  <2>4. CASE f # order
    <3>1. Here(f) = <<first[f], 0>> /\ first'[f] = first[f]
      BY <2>1, <2>4 DEF Here
    <3> QED
      BY <2>2, <3>1
  <2> QED
    BY <2>3, <2>4
<1>4. CASE UNCHANGED vars
  BY <1>4 DEF vars, Here, FrameSize, Sample
<1> QED
  BY <1>1, <1>2, <1>3, <1>4

\* A copy moves the place in its fragment over the piece copied, which follows
\* what was held.
LEMMA HereCopied ==
    ASSUME Types, Whole, Copy
    PROVE  /\ order \in Fragments /\ IsAudio(order)
           /\ \A f \in Fragments \ {order} : Here(f)' = Here(f)
           /\ Filled.pieces # <<>>
           /\ Joined(order, SentTo(order, Len(sent)), Filled.pieces)
           /\ Here(order)' = After(order, Last(Filled.pieces))
<1> DEFINE p == [sample |-> first[order], at |-> at, size |-> Copied]
           q == stream[order].pieces
           to == SentTo(order, Len(sent))
<1>1. /\ pc = "audio" /\ at < FrameSize /\ at' = at + Copied
      /\ UNCHANGED <<fragment, first, order, pc>>
  BY DEF Copy
<1>2. /\ order \in Fragments /\ IsAudio(order) /\ FrameSize \in Nat /\ at \in Nat
  BY <1>1, HandIs DEF Types, InHand, LoopType
<1>3. /\ Copied \in Nat \ {0} /\ at + Copied <= FrameSize
      /\ p \in Piece /\ Filled.pieces = Append(q, p)
  BY <1>1, FilledIs
<1>4. q \in Seq(Piece)
  BY <1>2, StreamIs
<1>5. p.sample = first[order] /\ p.at = at /\ p.size = Copied
  OBVIOUS
<1>6. Here(order) = <<first[order], at>>
  BY <1>1 DEF Here
<1>7. FrameSize' = FrameSize /\ FrameSize = AdtsSize + fragment[order].samples[first[order]].size
  BY <1>1 DEF FrameSize, Sample
<1> HIDE DEF p
<1>8. Here(order)' = After(order, p)
  <2>1. CASE at + Copied = FrameSize
    <3>1. After(order, p) = <<first[order] + 1, 0>>
      BY <1>5, <1>7, <2>1 DEF After
    <3>2. ~ (at' < FrameSize')
      BY <1>1, <1>2, <1>7, <2>1
    <3>3. Here(order)' = <<first[order] + 1, 0>>
      BY <1>1, <3>2 DEF Here
    <3> QED
      BY <3>1, <3>3
  <2>2. CASE at + Copied # FrameSize
    <3>1. After(order, p) = <<first[order], at + Copied>>
      BY <1>5, <1>7, <2>2 DEF After
    <3>2. at' < FrameSize'
      BY <1>1, <1>2, <1>3, <1>7, <2>2, SMTT(30)
    <3>3. Here(order)' = <<first[order], at + Copied>>
      BY <1>1, <3>2 DEF Here
    <3> QED
      BY <3>1, <3>3
  <2> QED
    BY <2>1, <2>2
<1>9. IF q = <<>> THEN Place(p) = to ELSE Joined(order, to, q) /\ After(order, Last(q)) = Place(p)
  <2>1. Place(p) = Here(order)
    BY <1>5, <1>6 DEF Place
  <2>2. WholeOf(order)
    BY <1>2 DEF Whole
  <2> QED
    BY <2>1, <2>2 DEF WholeOf
<1> HIDE DEF q, to
<1>10. Joined(order, to, Append(q, p)) /\ Last(Append(q, p)) = p
  BY <1>3, <1>4, <1>9, JoinedAppend
<1>11. Append(q, p) # <<>>
  BY <1>3, <1>4, BegunIs
<1>12. \A f \in Fragments \ {order} : Here(f)' = Here(f)
  BY <1>1 DEF Here
<1> QED
  BY <1>2, <1>3, <1>8, <1>10, <1>11, <1>12 DEF to

\* Nothing leaves, and the places are where they were.
LEMMA WholeKept ==
    ASSUME Types, Whole, UNCHANGED <<fragment, stream, sent>>,
           \A f \in Fragments : IsAudio(f) => Here(f)' = Here(f)
    PROVE  Whole'
<1>1. Fragments' = Fragments /\ \A f : IsAudio(f)' <=> IsAudio(f)
  BY DEF Fragments, IsAudio
<1>2. ASSUME NEW f \in Fragments, IsAudio(f)
      PROVE  WholeOf(f)'
  <2>1. WholeOf(f) /\ Here(f)' = Here(f)
    BY <1>2 DEF Whole
  <2>2. /\ PesAt(f, Len(sent))' = PesAt(f, Len(sent))
        /\ \A k : SentTo(f, k)' = SentTo(f, k)
        /\ SentTo(f, Len(sent))' = SentTo(f, Len(sent))
    BY DEF PesAt, SentTo, After, IsPes
  <2>3. \A k : Joined(f, SentTo(f, k - 1), sent[k].pieces)'
                 <=> Joined(f, SentTo(f, k - 1), sent[k].pieces)
    BY <2>2 DEF Joined, After
  <2>4. Joined(f, SentTo(f, Len(sent)), stream[f].pieces)'
          <=> Joined(f, SentTo(f, Len(sent)), stream[f].pieces)
    BY <2>2 DEF Joined, After
  <2>5. After(f, Last(stream[f].pieces))' = After(f, Last(stream[f].pieces))
    BY DEF After, Last
  <2> QED
    BY <2>1, <2>2, <2>3, <2>4, <2>5 DEF WholeOf
<1> QED
  BY <1>1, <1>2 DEF Whole

LEMMA WholeNext == Types /\ Holding /\ Whole /\ [Next]_vars /\ pc' # "crashed" => Whole'
<1> SUFFICES ASSUME Types, Holding, Whole, Steps, pc' # "crashed" PROVE Whole'
  BY StepsTaken
<1>1. stream \in [Fragments -> StreamOf(MaxPayload - 1)]
  BY DEF Types, LoopType
<1>2. CASE ConvertTimes
  <2>1. UNCHANGED <<stream, sent, first>> /\ Fragments' = Fragments /\ pc' = "read"
    BY <1>2 DEF ConvertTimes, Fragments, Types, FragmentsType
  <2>2. sent = <<>> /\ Len(sent') = 0
        /\ \A f \in Fragments : stream[f].pieces = <<>> /\ first[f] = 0
    BY <1>2, <2>1 DEF ConvertTimes, Types, NothingYet, NewStream
  <2>3. ASSUME NEW f \in Fragments
        PROVE  WholeOf(f)'
    <3>1. PesAt(f, Len(sent))' = {}
      BY <2>2 DEF PesAt
    <3>2. SentTo(f, Len(sent))' = <<0, 0>>
      BY <3>1 DEF SentTo
    <3>3. Here(f)' = <<0, 0>>
      BY <2>1, <2>2 DEF Here
    <3>4. stream'[f].pieces = <<>>
      BY <2>1, <2>2
    <3> QED
      BY <3>1, <3>2, <3>3, <3>4 DEF WholeOf
  <2> QED
    BY <2>1, <2>3 DEF Whole
<1>3. CASE /\ UNCHANGED <<fragment, stream, sent>>
           /\ Rest \/ Turn \/ Taken \/ UNCHANGED vars
           /\ pc = "audio" /\ Taken => at = FrameSize
  BY <1>3, HereSame, WholeKept
<1>4. CASE Copy /\ AudioCopy
  <2>1. /\ stream' = [stream EXCEPT ![order] = Filled] /\ UNCHANGED <<fragment, sent>>
    BY <1>4 DEF AudioCopy
  <2>2. /\ order \in Fragments /\ IsAudio(order)
        /\ \A f \in Fragments \ {order} : Here(f)' = Here(f)
        /\ Filled.pieces # <<>>
        /\ Joined(order, SentTo(order, Len(sent)), Filled.pieces)
        /\ Here(order)' = After(order, Last(Filled.pieces))
    BY <1>4, HereCopied
  <2>3. \A f \in Fragments : stream'[f] = IF f = order THEN Filled ELSE stream[f]
    BY <1>1, <2>1
  <2>4. Fragments' = Fragments /\ \A f : IsAudio(f)' <=> IsAudio(f)
    BY <2>1 DEF Fragments, IsAudio
  <2> HIDE DEF Steps, Filled
  <2>5. ASSUME NEW f \in Fragments, IsAudio(f)
        PROVE  WholeOf(f)'
    <3>1. WholeOf(f)
      BY <2>5 DEF Whole
    <3>2. /\ PesAt(f, Len(sent))' = PesAt(f, Len(sent))
          /\ \A k : SentTo(f, k)' = SentTo(f, k)
          /\ SentTo(f, Len(sent))' = SentTo(f, Len(sent))
      BY <2>1 DEF PesAt, SentTo, After, IsPes
    <3>3. /\ \A place, p : Joined(f, place, p)' <=> Joined(f, place, p)
          /\ \A p : After(f, p)' = After(f, p)
      BY <2>1 DEF Joined, After
    <3>4. \A k \in PesAt(f, Len(sent))' : Joined(f, SentTo(f, k - 1), sent[k].pieces)'
      <4>1. ASSUME NEW k \in PesAt(f, Len(sent))
            PROVE  Joined(f, SentTo(f, k - 1), sent[k].pieces)
        BY <3>1 DEF WholeOf
      <4>2. \A k : Joined(f, SentTo(f, k - 1), sent[k].pieces)'
                     <=> Joined(f, SentTo(f, k - 1), sent[k].pieces)
        BY <2>1, <3>2 DEF Joined, After
      <4> QED
        BY <3>2, <4>1, <4>2
    <3>5. CASE f = order
      <4>1. stream'[f] = Filled
        BY <2>3, <3>5
      <4>2. Joined(f, SentTo(f, Len(sent)), stream[f].pieces)'
              <=> Joined(f, SentTo(f, Len(sent)), Filled.pieces)
        BY <2>1, <3>2, <4>1 DEF Joined, After
      <4>3. After(f, Last(stream[f].pieces))' = After(f, Last(Filled.pieces))
        <5>1. PICK p : p = Last(Filled.pieces)
          OBVIOUS
        <5>2. Last(stream[f].pieces)' = p
          BY <4>1, <5>1 DEF Last
        <5> QED
          BY <2>1, <5>1, <5>2 DEF After
      <4>4. Here(f)' = Here(order)'
        <5>1. UNCHANGED order
          BY <1>4 DEF Copy
        <5> QED
          BY <3>5, <5>1 DEF Here
      <4> QED
        BY <2>2, <3>4, <3>5, <4>1, <4>2, <4>3, <4>4 DEF WholeOf
    <3>6. CASE f # order
      <4>1. stream'[f] = stream[f] /\ Here(f)' = Here(f)
        BY <2>2, <2>3, <3>6
      <4>2. Joined(f, SentTo(f, Len(sent)), stream[f].pieces)'
              <=> Joined(f, SentTo(f, Len(sent)), stream[f].pieces)
        BY <2>1, <3>2, <4>1 DEF Joined, After
      <4>3. After(f, Last(stream[f].pieces))' = After(f, Last(stream[f].pieces))
        <5>1. PICK p : p = Last(stream[f].pieces)
          OBVIOUS
        <5>2. Last(stream[f].pieces)' = p
          BY <4>1, <5>1 DEF Last
        <5> QED
          BY <2>1, <5>1, <5>2 DEF After
      <4> QED
        BY <3>1, <3>2, <3>4, <4>1, <4>2, <4>3 DEF WholeOf
    <3> QED
      BY <3>5, <3>6
  <2> QED
    BY <2>4, <2>5 DEF Whole
<1>5. CASE (Turn \/ Taken) /\ HeldLeaves /\ (pc = "audio" /\ Taken => at = FrameSize)
  <2>1. PICK e, r : Emission(order, e, r) /\ Payload(stream[order], e, r)
    BY <1>5 DEF HeldLeaves
  <2>2. PICK o \in Fragments : o = order
    BY <1>5 DEF HeldLeaves
  <2>3. /\ e.pieces = stream[o].pieces /\ r.pieces = <<>> /\ Emission(o, e, r)
    BY <2>1, <2>2 DEF Payload
  <2>4. IsAudio(o) /\ stream[o].pieces # <<>>
    BY <1>5, <2>2 DEF HeldLeaves, Holding
  <2>5. /\ Joined(o, SentTo(o, Len(sent)), stream[o].pieces)
        /\ After(o, Last(stream[o].pieces)) = Here(o)
    BY <2>4 DEF Whole, WholeOf
  <2>6. \A f \in Fragments : IsAudio(f) => Here(f)' = Here(f)
    BY <1>5, HereSame
  <2>7. UNCHANGED fragment
    BY <1>5 DEF Turn, Taken
  <2>8. Here(o)' = After(o, Last(e.pieces))
    BY <2>3, <2>4, <2>5, <2>6
  <2> QED
    BY <2>3, <2>5, <2>6, <2>7, <2>8, WholeLeaves
<1>6. CASE Copy /\ FilledLeaves
  <2>1. PICK e, r : Emission(order, e, r) /\ Payload(Filled, e, r)
    BY <1>6 DEF FilledLeaves
  <2>2. /\ order \in Fragments /\ IsAudio(order)
        /\ \A f \in Fragments \ {order} : Here(f)' = Here(f)
        /\ Joined(order, SentTo(order, Len(sent)), Filled.pieces)
        /\ Here(order)' = After(order, Last(Filled.pieces))
    BY <1>6, HereCopied
  <2>3. UNCHANGED <<fragment, order>>
    BY <1>6 DEF Copy
  <2>4. PICK o \in Fragments : o = order
    BY <2>2
  <2>5. /\ e.pieces = Filled.pieces /\ r.pieces = <<>> /\ Emission(o, e, r)
    BY <2>1, <2>4 DEF Payload
  <2>6. Here(o)' = After(o, Last(e.pieces))
    <3>1. Here(order)' = Here(o)'
      BY <2>3, <2>4 DEF Here
    <3> QED
      BY <2>2, <2>4, <2>5, <3>1
  <2> HIDE DEF Steps
  <2> QED
    BY <2>2, <2>3, <2>4, <2>5, <2>6, WholeLeaves
<1>7. CASE Taken /\ pc = "video" /\ VideoLeaves
  <2>1. PICK e, r : Emission(order, e, r)
    BY <1>7 DEF VideoLeaves
  <2>2. PICK o \in Fragments : o = order
    BY <2>1 DEF Emission
  <2>3. ~ IsAudio(o)
    BY <1>7, <2>2 DEF Types, InHand
  <2>4. \A f \in Fragments : IsAudio(f) => Here(f)' = Here(f)
    BY <1>7, HereSame
  <2>5. UNCHANGED fragment
    BY <1>7 DEF Taken
  <2> QED
    BY <2>1, <2>2, <2>3, <2>4, <2>5, WholeLeaves
<1> QED
  BY <1>2, <1>3, <1>4, <1>5, <1>6, <1>7 DEF Steps, Rest, Turn, Copy, Taken, Silent, vars

\* A crash is the last step.
LEMMA CrashIsLast == [Next]_vars /\ pc = "crashed" => pc' = "crashed"
BY DEF Next, vars, ConvertTimes, Refuse, Read, Finish, ChooseFlush, Choose, AudioCopy,
       AudioCopyFlush, AudioDone, VideoDropped, VideoSent, VideoTaken, Crash

Unbroken == pc # "crashed" => Whole

\* Splitting audio over payloads loses nothing, repeats nothing and changes no
\* order; at the end nothing is held back.
THEOREM AudioIsWhole == Spec => []AudioWhole
<1>1. Init => Unbroken
  <2> SUFFICES ASSUME Init PROVE Whole
    BY DEF Unbroken
  <2>1. /\ sent = <<>> /\ Len(sent) = 0 /\ pc = "convert"
        /\ \A f \in Fragments : stream[f].pieces = <<>> /\ first[f] = 0
    BY DEF Init, NewStream
  <2>2. \A f \in Fragments : PesAt(f, Len(sent)) = {} /\ Here(f) = <<0, 0>>
    BY <2>1 DEF PesAt, Here
  <2> QED
    BY <2>1, <2>2 DEF Whole, WholeOf, SentTo
<1>2. Types /\ (Merged /\ Holding) /\ Unbroken /\ [Next]_vars => Unbroken'
  BY WholeNext, CrashIsLast DEF Unbroken
<1>3. (Merged /\ Holding) /\ Unbroken => AudioWhole
  BY DEF Unbroken, Whole, WholeOf, Holding, AudioWhole
<1> QED
  BY <1>1, <1>2, <1>3, TypesHold, HoldingAlways, PTL DEF Spec

===============================================================================
