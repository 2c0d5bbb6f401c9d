------------------------------- MODULE Playback -------------------------------
(***************************************************************************)
(* What a viewer is promised: the segments of a file, played one after the *)
(* other, are pieces of the file in order, each from where the segment     *)
(* before it was to end. A piece may stop short of the end of its segment, *)
(* except for the viewers that are promised the whole file. How the        *)
(* segments are cut is left open.                                          *)
(***************************************************************************)
EXTENDS Naturals, Sequences

CONSTANTS Viewers, Sizes    \* the numbers of samples a file may have

VARIABLES size,             \* of the file that is played
          whole,            \* whole[v]: v is promised every sample
          at,               \* at[v]: where v's last segment was to end
          out               \* out[v]: the pieces viewer v has received

vars == <<size, whole, at, out>>

Init ==
    /\ size \in Sizes
    /\ whole \in [Viewers -> BOOLEAN]
    /\ at = [v \in Viewers |-> 0]
    /\ out = [v \in Viewers |-> <<>>]

\* The next segment: up to n, of which v receives the samples before e.
Play(v) ==
    \E n \in at[v] + 1 .. size : \E e \in at[v] .. n :
        /\ whole[v] => e = n
        /\ at' = [at EXCEPT ![v] = n]
        /\ out' = [out EXCEPT ![v] = Append(@, [from |-> at[v], to |-> e])]

Next ==
    /\ UNCHANGED <<size, whole>>
    /\ \E v \in Viewers : Play(v)

Spec == Init /\ [][Next]_vars

===============================================================================
