----------------------------- MODULE SplitOptions -----------------------------
(***************************************************************************)
(* mp4_split_options_set (moov.h): one pass over the arguments of a        *)
(* request, which remembers where the key and the value began.             *)
(*                                                                         *)
(* The arguments are a sequence of tokens: "=", "&" and words, no word     *)
(* next to a word. Names[w] is the set of option names that word w is a    *)
(* beginning of (no two names begin with the same letter); Number[w] is    *)
(* what strtod and atoi64 make of w; Flv is the set of words that are      *)
(* beginnings of "flv". A leading "?" is skipped and not modelled.         *)
(***************************************************************************)
EXTENDS Integers, SequencesExt, FiniteSetsExt

CONSTANTS Words, Names, Number, Flv

Keys == {"start", "end", "bitrate", "video", "audio", "length", "hash", "input"}

ASSUME WordsAssumption ==
    /\ {"=", "&"} \cap Words = {}
    /\ Names \in [Words -> SUBSET Keys] /\ \A w \in Words : \A x, y \in Names[w] : x = y
    /\ Number \in [Words -> Nat]
    /\ Flv \subseteq Words

\* The value of an option: the text between "=" and "&", which has no "=" in it.
NumberIn(val) == IF val = <<>> THEN 0 ELSE Number[val[1]]

NoLength == -1      \* conf->length is left alone

NoHash == <<"&">>   \* NULL: no value has this text

\* mp4_split_options_init
Defaults ==
    [start |-> 0, end |-> 0, fragment_bitrate |-> 0, fragments |-> 0, fragment_start |-> 0,
     fragment_track_id |-> 0, length |-> NoLength, hash |-> NoHash, input_format |-> "mp4"]

\* strncmp(name, key, key_len): the option a key sets. The empty key is a
\* beginning of the first name the code compares it with.
Named(key) ==
    CASE key = <<>> -> {"start"}
      [] Len(key) = 1 /\ key[1] \in Words -> Names[key[1]]
      [] OTHER -> {}

\* What the comparison chain does with a key and its value.
Assign(options, key, val) ==
    LET n == NumberIn(val)
    IN  CASE Named(key) = {"start"} -> [options EXCEPT !.start = n]
          [] Named(key) = {"end"} -> [options EXCEPT !.end = n]
          [] Named(key) = {"bitrate"} -> [options EXCEPT !.fragment_bitrate = n]
          [] Named(key) = {"video"} -> [options EXCEPT !.fragments = 1, !.fragment_start = n]
          [] Named(key) = {"audio"} -> [options EXCEPT !.fragment_track_id = n]
          [] Named(key) = {"length"} -> [options EXCEPT !.length = n]
          [] Named(key) = {"hash"} -> [options EXCEPT !.hash = val]
          [] Named(key) = {"input"} /\ (val = <<>> \/ val[1] \in Flv) ->
               [options EXCEPT !.input_format = "flv"]
          [] OTHER -> options

\* Faulty: the key of the pair before stays the key.
NextPairKeepsKey(s, i) == [s EXCEPT !.is_key = TRUE]

\* A pair ends at token i.
NextPair(s, i) == [s EXCEPT !.key = i + 1, !.is_key = TRUE]

\* The loop's state s is that in front of token i of args; the end of args is one
\* more token, the faked 0. val and key are positions, key_len a number of tokens.
Pass(args, s, i) ==
    CASE i <= Len(args) /\ args[i] = "=" ->
           [s EXCEPT !.val = i + 1, !.key_len = i - s.key, !.is_key = FALSE]
      [] i = Len(args) + 1 \/ args[i] = "&" ->
           NextPair(IF s.is_key THEN s
                    ELSE [s EXCEPT !.options =
                            Assign(s.options, SubSeq(args, s.key, s.key + s.key_len - 1),
                                   SubSeq(args, s.val, i - 1))],
                    i)
      [] OTHER -> s

AtFirst == [key |-> 1, val |-> 0, key_len |-> 0, is_key |-> TRUE, options |-> Defaults]

Scan(args) ==
    LET from[i \in 1 .. Len(args) + 2] ==
            IF i = 1 THEN AtFirst ELSE Pass(args, from[i - 1], i - 1)
    IN  from[Len(args) + 2].options

-------------------------------------------------------------------------------
(* The arguments, read without a scanner. *)

\* From a to b is a pair: what is between two "&".
IsPair(args, a, b) ==
    /\ a = 1 \/ args[a - 1] = "&"
    /\ b = Len(args) \/ args[b + 1] = "&"
    /\ \A i \in a .. b : args[i] # "&"

\* Where the pairs that set an option begin, and their values: there is one "="
\* in the pair, behind a beginning of the name (the empty one is start's).
Settings(args, name) ==
    {[at |-> p[1], val |-> SubSeq(args, p[2] + 1, p[3])] :
        p \in {q \in (1 .. Len(args)) \X (1 .. Len(args)) \X (1 .. Len(args)) :
            /\ q[1] <= q[2] /\ q[2] <= q[3] /\ IsPair(args, q[1], q[3])
            /\ {i \in q[1] .. q[3] : args[i] = "="} = {q[2]}
            /\ \/ q[2] = q[1] /\ name = "start"
               \/ q[2] = q[1] + 1 /\ name \in Names[args[q[1]]]}}

\* The last of them wins.
Latest(settings) == CHOOSE s \in settings : \A t \in settings : t.at <= s.at

ValueOf(args, name, default) ==
    LET all == Settings(args, name)
    IN  IF all = {} THEN default ELSE NumberIn(Latest(all).val)

AsNamed(args) ==
    [start |-> ValueOf(args, "start", 0), end |-> ValueOf(args, "end", 0),
     fragment_bitrate |-> ValueOf(args, "bitrate", 0),
     fragments |-> IF Settings(args, "video") = {} THEN 0 ELSE 1,
     fragment_start |-> ValueOf(args, "video", 0),
     fragment_track_id |-> ValueOf(args, "audio", 0),
     length |-> ValueOf(args, "length", NoLength),
     hash |-> LET all == Settings(args, "hash")
              IN  IF all = {} THEN NoHash ELSE Latest(all).val,
     input_format |->
         IF \E s \in Settings(args, "input") : s.val = <<>> \/ s.val[1] \in Flv
         THEN "flv" ELSE "mp4"]

===============================================================================
