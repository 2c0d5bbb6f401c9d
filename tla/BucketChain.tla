------------------------------ MODULE BucketChain ------------------------------
(***************************************************************************)
(* The chain of buffers an answer is collected in (output_bucket.h). The   *)
(* pool is nginx's and may have no memory at each of the three allocations *)
(* of bucket_insert.                                                       *)
(*                                                                         *)
(* bucket->chain points at the link inserted last; before the first insert *)
(* at `first`. Links are numbered from 1 and `tail` is the number of the   *)
(* link pointed at, whether it is there (tail <= Len(chain)) or its        *)
(* allocation failed and the pointer is NULL.                              *)
(***************************************************************************)
EXTENDS Naturals, Sequences, SequencesExt

CONSTANTS
    Sizes,          \* sizes of what is inserted
    MaxInserts      \* bound: calls of bucket_insert

ASSUME SizesAssumption == Sizes \subseteq Nat
ASSUME InsertsAssumption == MaxInserts \in Nat

VARIABLES
    chain,          \* the links that are there: size of the buffer, last_buf
    tail,
    content_length,
    linkFailed,     \* history: the allocation of a link failed
    inserts,
    state           \* "ready", "sent", "crashed"

chainVars == <<chain, tail, content_length, linkFailed, inserts, state>>

ChainInit ==
    /\ chain = <<>>
    /\ tail = 1
    /\ content_length = 0
    /\ linkFailed = FALSE
    /\ inserts = 0
    /\ state = "ready"

Called == state = "ready" /\ inserts < MaxInserts /\ inserts' = inserts + 1

\* No memory for the buffer or for its bytes.
InsertNoBuffer ==
    /\ Called
    /\ UNCHANGED <<chain, tail, content_length, linkFailed, state>>

\* Faulty: the mark of the link before stays.
UnmarkedKeeps == chain

\* With a link in the chain, the one pointed at loses its mark; the pointer goes
\* on to its successor.
Unmarked == IF chain = <<>> THEN chain ELSE [chain EXCEPT ![tail].last_buf = FALSE]

Advanced == IF chain = <<>> THEN tail ELSE tail + 1

\* The pointer at the last link is NULL, and its buffer is asked for.
FollowsNull == chain # <<>> /\ tail > Len(chain)

\* No memory for the link: it stays NULL.
InsertNoLink(size) ==
    /\ Called /\ ~ FollowsNull
    /\ chain' = Unmarked
    /\ tail' = Advanced
    /\ linkFailed' = TRUE
    /\ UNCHANGED <<content_length, state>>

\* Faulty: the pointer follows an empty chain too.
InsertMovesFirst(size) ==
    /\ Called /\ ~ FollowsNull
    /\ chain' = Append(Unmarked, [size |-> size, last_buf |-> TRUE])
    /\ tail' = tail + 1
    /\ content_length' = content_length + size
    /\ UNCHANGED <<linkFailed, state>>

Insert(size) ==
    /\ Called /\ ~ FollowsNull
    /\ chain' = Append(Unmarked, [size |-> size, last_buf |-> TRUE])
    /\ tail' = Advanced
    /\ content_length' = content_length + size
    /\ UNCHANGED <<linkFailed, state>>

InsertCrashes ==
    /\ Called /\ FollowsNull
    /\ state' = "crashed"
    /\ UNCHANGED <<chain, tail, content_length, linkFailed>>

\* The handler gives content_length and the chain to the filters of nginx.
Send ==
    /\ state = "ready"
    /\ state' = "sent"
    /\ UNCHANGED <<chain, tail, content_length, linkFailed, inserts>>

ChainNext ==
    \/ InsertNoBuffer
    \/ \E size \in Sizes : InsertNoLink(size) \/ Insert(size)
    \/ InsertCrashes
    \/ Send

ChainSpec == ChainInit /\ [][ChainNext]_chainVars

-------------------------------------------------------------------------------
Link == [size : Nat, last_buf : BOOLEAN]

ChainTypeOK ==
    /\ chain \in Seq(Link)
    /\ tail \in 1 .. Len(chain) + 1
    /\ content_length \in Nat /\ inserts \in Nat
    /\ linkFailed \in BOOLEAN
    /\ state \in {"ready", "sent", "crashed"}

\* nginx learns from last_buf that the answer is complete. The chain has the
\* mark on its last link and nowhere else, unless the memory for a link was
\* missing; no other failure takes the mark away.
EndMarked ==
    ~ linkFailed =>
        \A k \in 1 .. Len(chain) : chain[k].last_buf <=> k = Len(chain)

\* The pointer at the last link is followed only where there is one, unless the
\* memory for a link was missing.
PointerValid == state = "crashed" => linkFailed

===============================================================================
