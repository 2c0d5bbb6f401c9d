------------------------------ MODULE SampleEntry ------------------------------
(***************************************************************************)
(* The sample descriptions of a track: what stsd_parse (mp4_reader.h)      *)
(* takes from an entry of stsd, and the ADTS header made of it for an      *)
(* audio frame (sample_entry_get_adts, mp4_io.h).                          *)
(*                                                                         *)
(* An entry is a record: fourcc; fixed (it is as long as its fixed part);  *)
(* version, and extended (as long as the part a version 1 or 2 adds);      *)
(* channels and rate (the integer part of the 16.16 number); and boxes. A  *)
(* box has a type and a fate: good, broken (a size below 8), or for an     *)
(* esds refused (below 9 bytes, or no decoder config descriptor). avcC has *)
(* the lists sps and pps, wave has boxes. Of the fields the parsers fill,  *)
(* those that something reads are here: the parameter sets, the channels   *)
(* and the rate.                                                           *)
(***************************************************************************)
EXTENDS Integers, SequencesExt, FiniteSetsExt

\* The entries and boxes there can be.
IsList(s) == s \in Seq(ToSet(s))

IsEntry(e) ==
    /\ {e.version, e.channels} \subseteq Nat
    /\ IsList(e.boxes)
    /\ \A b \in ToSet(e.boxes) :
         /\ b.type = "wave" => IsList(b.boxes)
         /\ b.type = "avcC" => IsList(b.sps) /\ IsList(b.pps)

NoSet == "none"     \* sps_ and pps_ are NULL

\* sample_entry_init
Fresh == [ok |-> TRUE, sps |-> NoSet, pps |-> NoSet, channels |-> 2, rate |-> 44100]

Refused == [Fresh EXCEPT !.ok = FALSE]

\* A loop over boxes, which the first broken or refused one ends.
OverBoxes(boxes, entry, Read(_, _)) ==
    LET after[n \in 0 .. Len(boxes)] ==
          IF n = 0 THEN entry
          ELSE IF ~ after[n - 1].ok THEN after[n - 1]
          ELSE IF boxes[n].fate = "broken" THEN Refused
          ELSE Read(after[n - 1], boxes[n])
    IN  after[Len(boxes)]

\* esds_read; of the fields it fills none is read.
Esds(e, b) == IF b.type = "esds" /\ b.fate = "refused" THEN Refused ELSE e

\* wave_read
Wave(e, b) == IF b.type = "wave" THEN OverBoxes(b.boxes, e, Esds) ELSE Esds(e, b)

\* Of several parameter sets in a list the last one stays.
LastSet(list, set) == IF list = <<>> THEN set ELSE Last(list)

VideBox(e, b) ==
    IF b.type = "avcC" THEN [e EXCEPT !.sps = LastSet(b.sps, @), !.pps = LastSet(b.pps, @)]
    ELSE Esds(e, b)

\* stsd_parse_vide
ParseVide(raw) ==
    IF ~ raw.fixed THEN Refused
    ELSE IF raw.fourcc = "ovc1" THEN Fresh
    ELSE OverBoxes(raw.boxes, Fresh, VideBox)

\* stsd_parse_soun
ParseSoun(raw) ==
    LET entry == [Fresh EXCEPT !.channels = IF raw.channels = 3 THEN 6 ELSE raw.channels,
                               !.rate = raw.rate]
    IN  IF ~ raw.fixed THEN Refused
        ELSE IF raw.fourcc = "owma" THEN entry
        ELSE IF raw.version > 2 \/ (raw.version > 0 /\ ~ raw.extended) THEN Refused
        ELSE OverBoxes(raw.boxes, entry, Wave)

Parsed(handler, raw) == IF handler = "vide" THEN ParseVide(raw) ELSE ParseSoun(raw)

\* stsd_parse
StsdAccepted(handler, entries) ==
    handler \in {"vide", "soun"} =>
        \A i \in 1 .. Len(entries) : Parsed(handler, entries[i]).ok

-------------------------------------------------------------------------------
(* The ADTS header: 56 bits, the set of the positions of those that are 1. *)

aac_samplerates ==
    <<96000, 88200, 64000, 48000, 44100, 32000, 24000, 22050, 16000, 12000, 11025, 8000, 7350>>

\* mp4_samplerate_to_index: the index of 44100 for a rate that has none.
SampleRateIndex(rate) ==
    LET at == {i \in 0 .. 12 : aac_samplerates[i + 1] = rate}
    IN  IF at = {} THEN 4 ELSE Min(at)

\* Those of the lower 31 bits of v that are 1.
Bits(v) ==
    LET half[b \in 0 .. 30] == IF b = 0 THEN v ELSE half[b - 1] \div 2
    IN  {b \in 0 .. 30 : half[b] % 2 = 1}

\* Faulty: the length of the frame without its header.
AdtsFieldsBare(entry, sample_size) ==
    <<<<12, 4095>>, <<1, 0>>, <<2, 0>>, <<1, 1>>, <<2, 1>>,
      <<4, SampleRateIndex(entry.rate)>>, <<1, 0>>, <<3, entry.channels>>,
      <<1, 0>>, <<1, 0>>, <<1, 0>>, <<1, 0>>,
      <<13, sample_size>>, <<11, 2047>>, <<2, 0>>>>

\* Width and value of the fields, the first one in the highest bits.
AdtsFields(entry, sample_size) ==
    <<<<12, 4095>>, <<1, 0>>, <<2, 0>>, <<1, 1>>, <<2, 1>>,
      <<4, SampleRateIndex(entry.rate)>>, <<1, 0>>, <<3, entry.channels>>,
      <<1, 0>>, <<1, 0>>, <<1, 0>>, <<1, 0>>,
      <<13, 7 + sample_size>>, <<11, 2047>>, <<2, 0>>>>

\* adts << width | value: a value wider than its field runs into those before.
Adts(entry, sample_size) ==
    LET fields == AdtsFields(entry, sample_size)
        adts[n \in 0 .. Len(fields)] ==
            IF n = 0 THEN {}
            ELSE {b + fields[n][1] : b \in adts[n - 1]} \cup Bits(fields[n][2])
    IN  adts[Len(fields)] \cap 0 .. 55

-------------------------------------------------------------------------------
(* What a player reads in the header (ISO/IEC 13818-7). *)

\* The field of so many bits above the lowest, the highest bit first.
Field(adts, low, width) ==
    LET read[n \in 0 .. width] ==
            IF n = 0 THEN 0
            ELSE 2 * read[n - 1] + (IF low + width - n \in adts THEN 1 ELSE 0)
    IN  read[width]

Reading(adts) ==
    [syncword |-> Field(adts, 44, 12), layer |-> Field(adts, 41, 2),
     protection_absent |-> Field(adts, 40, 1), profile |-> Field(adts, 38, 2),
     sampling_frequency_index |-> Field(adts, 34, 4),
     channel_configuration |-> Field(adts, 30, 3),
     frame_length |-> Field(adts, 13, 13), raw_data_blocks |-> Field(adts, 0, 2)]

===============================================================================
