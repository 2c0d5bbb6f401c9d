----------------------------- MODULE Request_proof -----------------------------
(***************************************************************************)
(* What a request does with the movie it reads: nothing is released that   *)
(* is in use, and nothing is left that is not among what the readers lose. *)
(* Before it reads one, its arguments: what each option ends up holding.   *)
(* And in the end the answer: it is true, a sound movie gets one, and the  *)
(* streams in it are announced with what the file says of them.            *)
(***************************************************************************)
EXTENDS Request, Segmentation_proof

-------------------------------------------------------------------------------
(* What hangs on some blocks, without recursion: own[k] is the block that    *)
(* points to block k, and comes before it in the file.                       *)

Closed(own, n, roots, S) ==
    /\ roots \cap (0 .. n) \subseteq S
    /\ \A k \in 0 .. n : own[k] \in 0 .. k - 1 /\ own[k] \in S => k \in S

Hanging(own, n, roots) ==
    {k \in 0 .. n : \A S \in SUBSET (0 .. n) : Closed(own, n, roots, S) => k \in S}

LEMMA HangingLeast ==
    ASSUME NEW n \in Nat, NEW own, NEW roots, NEW S \in SUBSET (0 .. n), Closed(own, n, roots, S)
    PROVE  Hanging(own, n, roots) \subseteq S
BY DEF Hanging

LEMMA HangingClosed ==
    ASSUME NEW n \in Nat, NEW own, NEW roots
    PROVE  /\ Hanging(own, n, roots) \subseteq 0 .. n
           /\ Closed(own, n, roots, Hanging(own, n, roots))
<1> DEFINE H == Hanging(own, n, roots)
<1>1. ASSUME NEW k \in 0 .. n, k \in roots PROVE k \in H
  BY <1>1 DEF Hanging, Closed
<1>2. ASSUME NEW k \in 0 .. n, own[k] \in 0 .. k - 1, own[k] \in H PROVE k \in H
  <2> SUFFICES ASSUME NEW S \in SUBSET (0 .. n), Closed(own, n, roots, S) PROVE k \in S
    BY DEF Hanging
  <2>1. own[k] \in S
    BY <1>2 DEF Hanging
  <2> QED
    BY <1>2, <2>1 DEF Closed
<1>3. H \subseteq 0 .. n
  BY DEF Hanging
<1> HIDE DEF H
<1>4. Closed(own, n, roots, H)
  BY <1>1, <1>2 DEF Closed
<1> QED
  BY <1>3, <1>4 DEF H

\* A block that hangs is one of the roots, or its owner hangs.
LEMMA HangingStep ==
    ASSUME NEW n \in Nat, NEW own, NEW roots, NEW k \in Hanging(own, n, roots), k \notin roots
    PROVE  own[k] \in 0 .. k - 1 /\ own[k] \in Hanging(own, n, roots)
<1> DEFINE H == Hanging(own, n, roots)
           S == H \ {k}
<1>1. H \subseteq 0 .. n /\ Closed(own, n, roots, H) /\ k \in H
  BY HangingClosed
<1> HIDE DEF H
<1> SUFFICES ASSUME ~ (own[k] \in 0 .. k - 1 /\ own[k] \in H) PROVE FALSE
  BY DEF H
<1>2. Closed(own, n, roots, S)
  BY <1>1 DEF Closed
<1>3. H \subseteq S
  BY <1>1, <1>2, HangingLeast DEF H
<1> QED
  BY <1>1, <1>3

LEMMA HangingUnion ==
    ASSUME NEW n \in Nat, NEW own, NEW A, NEW B
    PROVE  Hanging(own, n, A \cup B) = Hanging(own, n, A) \cup Hanging(own, n, B)
<1> DEFINE HA == Hanging(own, n, A)
           HB == Hanging(own, n, B)
           HU == Hanging(own, n, A \cup B)
<1>1. HA \subseteq 0 .. n /\ HB \subseteq 0 .. n /\ HU \subseteq 0 .. n
  BY HangingClosed
<1>2. Closed(own, n, A, HA) /\ Closed(own, n, B, HB) /\ Closed(own, n, A \cup B, HU)
  BY HangingClosed
<1> HIDE DEF HA, HB, HU
<1>3. Closed(own, n, A \cup B, HA \cup HB)
  BY <1>2 DEF Closed
<1>4. Closed(own, n, A, HU) /\ Closed(own, n, B, HU)
  BY <1>2 DEF Closed
<1>5. HU \subseteq HA \cup HB
  BY <1>1, <1>3, HangingLeast DEF HU
<1>6. HA \subseteq HU /\ HB \subseteq HU
  BY <1>1, <1>4, HangingLeast DEF HA, HB
<1>7. HU = HA \cup HB
  BY <1>5, <1>6
<1> QED
  BY <1>7 DEF HA, HB, HU

\* What hangs on blocks without owners hangs on no other such block.
LEMMA HangingApart ==
    ASSUME NEW n \in Nat, NEW own, NEW A, NEW B, A \cap B = {},
           \A r \in A \cup B : own[r] \notin 0 .. r - 1
    PROVE  Hanging(own, n, A) \cap Hanging(own, n, B) = {}
<1> DEFINE HA == Hanging(own, n, A)
           HB == Hanging(own, n, B)
           both == HA \cap HB
<1>1. HA \subseteq 0 .. n /\ HB \subseteq 0 .. n
  BY HangingClosed
<1> SUFFICES ASSUME both # {} PROVE FALSE
  OBVIOUS
<1>2. PICK m \in both : \A k \in both : m <= k
  <2>1. both \in SUBSET Nat
    BY <1>1
  <2> HIDE DEF both
  <2> QED
    BY <2>1, LeastNumber
<1>3. m \notin A \/ m \notin B
  OBVIOUS
<1>4. own[m] \in 0 .. m - 1
  BY <1>3, HangingStep
<1>5. m \notin A /\ m \notin B
  BY <1>4
<1>6. own[m] \in both
  BY <1>5, HangingStep
<1>7. m \in Nat /\ own[m] \in Nat /\ own[m] < m
  BY <1>1, <1>4
<1>8. m <= own[m]
  BY <1>2, <1>6
<1> QED
  BY <1>7, <1>8

\* With one block k given an owner and some others none, what hangs hung before,
\* or hangs on k.
LEMMA HangingMoved ==
    ASSUME NEW n \in Nat, NEW own, NEW new, NEW roots, NEW k,
           \A j \in 0 .. n : j # k => new[j] = own[j] \/ new[j] = None
    PROVE  Hanging(new, n, roots) \subseteq Hanging(own, n, roots \cup {k})
<1> DEFINE H == Hanging(own, n, roots \cup {k})
<1>1. H \subseteq 0 .. n /\ Closed(own, n, roots \cup {k}, H)
  BY HangingClosed
<1> HIDE DEF H
<1>2. ASSUME NEW j \in 0 .. n, new[j] \in 0 .. j - 1, new[j] \in H PROVE j \in H
  <2>1. CASE j = k
    BY <1>1, <2>1 DEF Closed
  <2>2. CASE j # k
    <3>1. new[j] = own[j]
      BY <1>2, <2>2 DEF None
    <3> QED
      BY <1>1, <1>2, <3>1 DEF Closed
  <2> QED
    BY <2>1, <2>2
<1>3. Closed(new, n, roots, H)
  BY <1>1, <1>2 DEF Closed
<1> QED
  BY <1>1, <1>3, HangingLeast DEF H

\* f says of each block whether it is a root, or f says so of its owner.
Follows(f, n, own, roots) ==
    f = [k \in 0 .. n |-> k \in roots \/ (own[k] \in 0 .. k - 1 /\ f[own[k]])]

\* Such a function exists.
LEMMA HangingFunction ==
    ASSUME NEW n \in Nat, NEW own, NEW roots
    PROVE  \E f : Follows(f, n, own, roots)
<1> DEFINE H == Hanging(own, n, roots)
           f == [k \in 0 .. n |-> k \in H]
           g(k) == k \in roots \/ (own[k] \in 0 .. k - 1 /\ f[own[k]])
<1>1. H \subseteq 0 .. n /\ Closed(own, n, roots, H)
  BY HangingClosed
<1>2. ASSUME NEW k \in 0 .. n PROVE (k \in H) = g(k)
  <2>0. own[k] \in 0 .. k - 1 => own[k] \in 0 .. n
    OBVIOUS
  <2>1. own[k] \in 0 .. k - 1 => (f[own[k]] <=> own[k] \in H)
    <3> SUFFICES ASSUME NEW x \in 0 .. n PROVE f[x] <=> x \in H
      BY <2>0
    <3> HIDE DEF H
    <3> QED
      BY Zenon
  <2>2. k \in H => k \in roots \/ (own[k] \in 0 .. k - 1 /\ own[k] \in H)
    BY HangingStep
  <2> HIDE DEF H, f
  <2>3. k \in roots \/ (own[k] \in 0 .. k - 1 /\ own[k] \in H) => k \in H
    BY <1>1 DEF Closed
  <2> QED
    BY <2>1, <2>2, <2>3
<1>3. Follows(f, n, own, roots)
  <2>1. [k \in 0 .. n |-> k \in H] = [k \in 0 .. n |-> g(k)]
    <3> HIDE DEF H, g
    <3> QED
      BY <1>2
  <2> QED
    BY <2>1 DEF Follows
<1> HIDE DEF f
<1> QED
  BY <1>3

\* And it says what hangs.
LEMMA FunctionHanging ==
    ASSUME NEW n \in Nat, NEW own, NEW roots, NEW f, Follows(f, n, own, roots)
    PROVE  {k \in 0 .. n : f[k]} = Hanging(own, n, roots)
<1> DEFINE H == Hanging(own, n, roots)
           S == {k \in 0 .. n : f[k]}
           bad == {k \in S : k \notin H}
<1>1. H \subseteq 0 .. n /\ Closed(own, n, roots, H)
  BY HangingClosed
<1> HIDE DEF H
<1>2. \A k \in 0 .. n : f[k] <=> k \in roots \/ (own[k] \in 0 .. k - 1 /\ f[own[k]])
  BY Zenon DEF Follows
<1>3. Closed(own, n, roots, S)
  BY <1>2 DEF Closed
<1>4. H \subseteq S
  BY <1>3, HangingLeast DEF H
<1>5. ASSUME bad # {} PROVE FALSE
  <2>1. PICK m \in bad : \A k \in bad : m <= k
    <3>1. bad \in SUBSET Nat
      OBVIOUS
    <3> HIDE DEF bad
    <3> QED
      BY <1>5, <3>1, LeastNumber
  <2>2. m \in 0 .. n /\ m \notin H /\ f[m]
    BY <2>1
  <2>3. m \notin roots
    BY <1>1, <2>2 DEF Closed
  <2>4. own[m] \in 0 .. m - 1 /\ f[own[m]]
    BY <1>2, <2>2, <2>3
  <2>5. own[m] \notin H
    BY <1>1, <2>2, <2>4 DEF Closed
  <2>6. own[m] \in bad /\ ~ (m <= own[m])
    BY <2>2, <2>4, <2>5
  <2> QED
    BY <2>1, <2>6
<1>6. S = H
  BY <1>4, <1>5
<1> QED
  BY <1>6 DEF H

-------------------------------------------------------------------------------
(* The tree of the program in these terms. *)

LEMMA ReachIs ==
    \A c : Len(atoms) \in Nat => Reach(c) = Hanging(owner, Len(atoms), {c})
<1> SUFFICES ASSUME NEW c, Len(atoms) \in Nat PROVE Reach(c) = Hanging(owner, Len(atoms), {c})
  OBVIOUS
<1> DEFINE n == Len(atoms)
           G(f) == f = [k \in 0 .. n |-> k = c \/ (owner[k] \in 0 .. k - 1 /\ f[owner[k]])]
           F(f) == Follows(f, n, owner, {c})
           in == CHOOSE f : G(f)
<1>1. Reach(c) = {k \in 0 .. n : in[k]}
  BY DEF Reach, Atoms
<1>2. \A f : G(f) <=> F(f)
  <2>1. \A k : k = c <=> k \in {c}
    OBVIOUS
  <2> QED
    BY <2>1, Zenon DEF Follows
<1>3. \E f : F(f)
  BY HangingFunction
<1>4. G(in)
  <2> HIDE DEF F, G
  <2> QED
    BY <1>2, <1>3
<1> HIDE DEF in, G
<1>5. F(in)
  <2> HIDE DEF F
  <2> QED
    BY <1>2, <1>4
<1>6. {k \in 0 .. n : in[k]} = Hanging(owner, n, {c})
  BY <1>5, FunctionHanging
<1> QED
  BY <1>1, <1>6

\* The containers being read, and what they hold.
Roots == {open[i] : i \in 1 .. Len(open)}

Live == Hanging(owner, Len(atoms), Roots)

OwnedForm ==
    /\ freed \subseteq allocated
    /\ freed \cap Live = {}
    /\ Live \subseteq allocated
    /\ allocated \subseteq freed \cup Live \cup Lost

LEMMA OwnedIs == Len(atoms) \in Nat => (Owned <=> OwnedForm)
<1> SUFFICES ASSUME Len(atoms) \in Nat PROVE Owned <=> OwnedForm
  OBVIOUS
<1> DEFINE linked == UNION {Reach(open[i]) : i \in 1 .. Len(open)}
           n == Len(atoms)
<1>1. linked \subseteq Live
  <2> SUFFICES ASSUME NEW i \in 1 .. Len(open) PROVE Reach(open[i]) \subseteq Live
    OBVIOUS
  <2>1. Reach(open[i]) = Hanging(owner, n, {open[i]})
    BY ReachIs
  <2>2. Roots = {open[i]} \cup Roots
    BY DEF Roots
  <2>3. Live = Hanging(owner, n, {open[i]}) \cup Live
    BY <2>2, HangingUnion DEF Live
  <2> QED
    BY <2>1, <2>3
<1>2. Live \subseteq linked
  <2>1. \A i \in 1 .. Len(open) : Closed(owner, n, {open[i]}, Reach(open[i]))
                                  /\ Reach(open[i]) \subseteq 0 .. n
    BY ReachIs, HangingClosed
  <2>2. Closed(owner, n, Roots, linked)
    BY <2>1 DEF Closed, Roots
  <2>3. linked \in SUBSET (0 .. n)
    BY <2>1
  <2> HIDE DEF linked
  <2> QED
    BY <2>2, <2>3, HangingLeast DEF Live
<1>3. linked = Live
  BY <1>1, <1>2
<1>4. Owned <=> /\ freed \subseteq allocated
                /\ freed \cap linked = {}
                /\ linked \subseteq allocated
                /\ allocated \ freed \subseteq linked \cup Lost
  BY DEF Owned
<1> HIDE DEF linked
<1> QED
  BY <1>3, <1>4 DEF OwnedForm

\* The blocks that are lost by themselves.
LostAlone(k) ==
    LET c == atoms[k].up
        after == {j \in k + 1 .. Len(atoms) : atoms[j].up = c /\ Slot(c, TypeOf(j)) = Slot(c, TypeOf(k))}
    IN  \/ Fails(k) /\ MadeFirst(k) /\ ~ StszReleases(k)
        \/ Slot(c, TypeOf(k)) = "unknown" /\ \E j \in after : atoms[j].fate = "large"
        \/ Slot(c, TypeOf(k)) \notin {"trak", "trex", "unknown"} /\ after # {}

Up == [k \in Atoms |-> IF k = 0 THEN None ELSE atoms[k].up]

LEMMA LostIs ==
    IsTree(atoms) =>
        /\ Lost \subseteq Atoms
        /\ \A k \in 1 .. Len(atoms) : k \in Lost <=> atoms[k].up \in Lost \/ LostAlone(k)
<1> SUFFICES ASSUME IsTree(atoms)
             PROVE  /\ Lost \subseteq Atoms
                    /\ \A k \in 1 .. Len(atoms) : k \in Lost <=> atoms[k].up \in Lost \/ LostAlone(k)
  OBVIOUS
<1> DEFINE n == Len(atoms)
           alone == {k \in 1 .. n : LostAlone(k)}
           G(f) == f = [k \in 0 .. n |-> k # 0 /\ (f[atoms[k].up] \/ LostAlone(k))]
           F(f) == Follows(f, n, Up, alone)
           lost == CHOOSE f : G(f)
<1>1. n \in Nat /\ \A k \in 1 .. n : atoms[k].up \in 0 .. k - 1
  BY DEF IsTree
<1>2. Lost = {k \in 0 .. n : lost[k]}
  BY DEF Lost, Atoms, LostAlone
<1>3. \A f : \A k \in 0 .. n :
        (k # 0 /\ (f[atoms[k].up] \/ LostAlone(k))) <=> (k \in alone \/ (Up[k] \in 0 .. k - 1 /\ f[Up[k]]))
  <2> SUFFICES ASSUME NEW f, NEW k \in 0 .. n
               PROVE  (k # 0 /\ (f[atoms[k].up] \/ LostAlone(k)))
                      <=> (k \in alone \/ (Up[k] \in 0 .. k - 1 /\ f[Up[k]]))
    OBVIOUS
  <2>1. CASE k = 0
    BY <2>1 DEF Up, Atoms, None
  <2>2. CASE k # 0
    <3>1. k \in 1 .. n /\ Up[k] = atoms[k].up /\ Up[k] \in 0 .. k - 1
      BY <1>1, <2>2 DEF Up, Atoms
    <3>2. k \in alone <=> LostAlone(k)
      BY <3>1
    <3> HIDE DEF alone
    <3> QED
      BY <2>2, <3>1, <3>2
  <2> QED
    BY <2>1, <2>2
<1>4. \E f : F(f)
  <2> HIDE DEF alone
  <2> QED
    BY <1>1, HangingFunction
<1>5. \A f : G(f) <=> F(f)
  <2> HIDE DEF alone
  <2> QED
    BY <1>3, Zenon DEF Follows
<1>6. G(lost)
  <2> HIDE DEF F, G
  <2> QED
    BY <1>4, <1>5
<1> HIDE DEF lost
<1>7. \A k \in 0 .. n : lost[k] <=> k # 0 /\ (lost[atoms[k].up] \/ LostAlone(k))
  BY <1>6, Zenon
<1>8. \A k \in 1 .. n : k \in Lost <=> lost[k]
  BY <1>2
<1>9. \A k \in 1 .. n : atoms[k].up \in Lost <=> lost[atoms[k].up]
  BY <1>1, <1>2
<1>10. \A k \in 1 .. n : lost[k] <=> lost[atoms[k].up] \/ LostAlone(k)
  BY <1>7
<1>11. Lost \subseteq Atoms
  BY <1>2 DEF Atoms
<1> QED
  BY <1>8, <1>9, <1>10, <1>11

-------------------------------------------------------------------------------
(* Where atoms end. *)

LEMMA AfterIs ==
    ASSUME IsTree(atoms), NEW k \in Atoms
    PROVE  /\ After(k) \in k + 1 .. Len(atoms) + 1
           /\ \A j \in k + 1 .. After(k) - 1 : atoms[j].up >= k
           /\ After(k) <= Len(atoms) => atoms[After(k)].up < k
<1> DEFINE n == Len(atoms)
           S == {n + 1} \cup {j \in k + 1 .. n : atoms[j].up < k}
<1>1. n \in Nat /\ k \in 0 .. n /\ \A j \in 1 .. n : atoms[j].up \in 0 .. j - 1
  BY DEF IsTree, Atoms
<1>2. CASE k = 0
  BY <1>1, <1>2 DEF After
<1>3. CASE k # 0
  <2>1. PICK m \in S : \A j \in S : m <= j
    <3>1. S \in SUBSET Nat /\ n + 1 \in S
      BY <1>1
    <3> HIDE DEF S
    <3> QED
      BY <3>1, LeastNumber
  <2>2. After(k) = Min(S)
    BY <1>3 DEF After
  <2>3. \A x \in S : (\A j \in S : x <= j) => x = m
    <3>1. S \in SUBSET Nat
      BY <1>1
    <3> HIDE DEF S
    <3> QED
      BY <2>1, <3>1
  <2>4. Min(S) = m
    <3> HIDE DEF S
    <3> QED
      BY <2>1, <2>3 DEF Min
  <2>5. m \in k + 1 .. n + 1 /\ (m <= n => atoms[m].up < k)
    BY <1>1, <2>1
  <2>6. ASSUME NEW j \in k + 1 .. m - 1 PROVE atoms[j].up >= k
    <3>1. j \notin S /\ j \in k + 1 .. n
      BY <1>1, <2>1, <2>5
    <3> QED
      BY <1>1, <3>1
  <2> QED
    BY <2>2, <2>4, <2>5, <2>6
<1> QED
  BY <1>2, <1>3

\* A container ends no later than the one it is in; behind it comes the next
\* atom of that one.
LEMMA AfterInner ==
    ASSUME IsTree(atoms), NEW k \in 1 .. Len(atoms), NEW c, c = atoms[k].up,
           k < After(c)
    PROVE  /\ c \in Atoms /\ c < k
           /\ After(k) \in k + 1 .. After(c)
           /\ After(k) < After(c) => atoms[After(k)].up = c
<1> DEFINE n == Len(atoms)
<1>1. /\ n \in Nat /\ k \in Atoms /\ c \in 0 .. k - 1 /\ c \in Atoms
      /\ \A i \in 1 .. n : /\ atoms[i].up \in 0 .. i - 1
                           /\ \A j \in atoms[i].up + 1 .. i - 1 : atoms[j].up >= atoms[i].up
  BY DEF IsTree, Atoms
<1>2. PICK b \in k + 1 .. n + 1 :
        /\ b = After(k)
        /\ b <= n => atoms[b].up < k
        /\ \A j \in k + 1 .. b - 1 : atoms[j].up >= k
  BY <1>1, AfterIs
<1>3. PICK d \in c + 1 .. n + 1 :
        /\ d = After(c)
        /\ d <= n => atoms[d].up < c
        /\ \A j \in c + 1 .. d - 1 : atoms[j].up >= c
  BY <1>1, AfterIs
<1>4. b <= d
  <2> SUFFICES ASSUME d < b PROVE FALSE
    BY <1>2, <1>3
  <2>1. d \in k + 1 .. b - 1 /\ d <= n
    BY <1>1, <1>2, <1>3
  <2>2. PICK u : u = atoms[d].up
    OBVIOUS
  <2>3. d \in 1 .. n /\ u >= k
    BY <1>1, <1>2, <2>1, <2>2
  <2>4. u < c /\ u \in 0 .. d - 1
    BY <1>1, <1>3, <2>1, <2>2, <2>3
  <2> QED
    BY <1>1, <2>3, <2>4
<1>5. ASSUME b < d PROVE atoms[b].up = c
  <2>1. b \in 1 .. n /\ b \in c + 1 .. d - 1
    BY <1>1, <1>2, <1>3, <1>5, SMTT(30)
  <2>2. PICK u : u = atoms[b].up
    OBVIOUS
  <2>3. u \in 0 .. b - 1 /\ b <= n
    BY <1>1, <2>1, <2>2
  <2>4. u >= c
    BY <1>3, <2>1, <2>2
  <2>5. u < k
    BY <1>2, <2>2, <2>3
  <2>6. k \in u + 1 .. b - 1
    <3>1. k \in Nat /\ b \in Nat /\ k + 1 <= b
      BY <1>1, <1>2
    <3>2. u \in Nat /\ u < k
      BY <2>3, <2>5, <3>1
    <3> QED
      BY <3>1, <3>2
  <2>7. atoms[k].up >= u
    BY <1>1, <2>1, <2>2, <2>6
  <2> QED
    BY <1>1, <2>2, <2>3, <2>4, <2>7
<1> QED
  BY <1>1, <1>2, <1>3, <1>4, <1>5

\* What is not a container holds nothing.
LEMMA AfterLeaf ==
    ASSUME IsTree(atoms), NEW k \in 1 .. Len(atoms), ~ IsContainer(k)
    PROVE  After(k) = k + 1
<1>1. /\ Len(atoms) \in Nat /\ k \in Atoms /\ k + 1 \in Nat
      /\ \A i \in 1 .. Len(atoms) : atoms[i].up \in 0 .. i - 1
  BY DEF IsTree, Atoms
<1>2. /\ After(k) \in k + 1 .. Len(atoms) + 1
      /\ \A j \in k + 1 .. After(k) - 1 : atoms[j].up >= k
  BY <1>1, AfterIs
<1>3. ASSUME k + 1 < After(k) PROVE FALSE
  <2>1. k + 1 \in 1 .. Len(atoms) /\ k + 1 \in k + 1 .. After(k) - 1
    BY <1>1, <1>2, <1>3
  <2>2. atoms[k + 1].up = k
    BY <1>1, <1>2, <2>1
  <2>3. atoms[k].type \in Containers
    BY <2>1, <2>2 DEF IsTree
  <2> QED
    BY <2>3 DEF IsContainer, TypeOf
<1> QED
  BY <1>1, <1>2, <1>3

-------------------------------------------------------------------------------
(* What is in use, and what is lost. *)

LEMMA LostSame == UNCHANGED atoms => Lost' = Lost
BY DEF Lost, Atoms, Slot, TypeOf, Fails, MadeFirst, StszReleases

\* The containers being read lie in each other, from moov inwards, and nobody
\* owns them yet. What is made lies before the atom to come, or in the container
\* whose loop has ended; what is owned is owned by the container it is in.
Path ==
    /\ IsTree(atoms)
    /\ open \in Seq(Atoms)
    /\ \A i \in 1 .. Len(open) :
         /\ owner[open[i]] = None
         /\ i = 1 => open[i] = 0
         /\ i # 1 => atoms[open[i]].up = open[i - 1]
         /\ \A j \in i + 1 .. Len(open) : open[i] < open[j]

OwnedInside ==
    \A k \in Atoms : owner[k] # None => k # 0 /\ owner[k] = atoms[k].up /\ k \in allocated

Place ==
    /\ allocated \subseteq Atoms
    /\ parse \in {"loop", "ended", "parsed", "refused", "closed"}
    /\ parse \in {"loop", "ended", "parsed"} <=> open # <<>>
    /\ parse = "parsed" => cur = 0
    /\ parse = "loop" =>
         /\ at \in cur + 1 .. After(cur)
         /\ at < After(cur) => atoms[at].up = cur
         /\ allocated \subseteq 0 .. at - 1
    /\ parse = "ended" => allocated \subseteq 0 .. After(cur) - 1

TreeInv == Path /\ OwnedInside /\ Place /\ OwnedForm

\* The innermost container.
LEMMA CurIs ==
    ASSUME Path, open # <<>>
    PROVE  /\ Len(open) \in Nat \ {0} /\ Len(atoms) \in Nat
           /\ cur \in Atoms /\ cur \in Roots /\ owner[cur] = None /\ cur \in Nat
           /\ cur = 0 <=> Len(open) = 1
           /\ cur # 0 => Len(open) - 1 \in 1 .. Len(open) /\ cur \in 1 .. Len(atoms)
                         /\ atoms[cur].up = open[Len(open) - 1]
<1>1. Len(open) \in Nat \ {0} /\ Len(open) \in 1 .. Len(open) /\ Len(atoms) \in Nat
  BY DEF Path, IsTree
<1>2. cur = open[Len(open)] /\ cur \in Atoms /\ Atoms = 0 .. Len(atoms)
  BY <1>1 DEF Path, cur, Atoms
<1>3. cur \in Roots /\ owner[cur] = None
  BY <1>1, <1>2 DEF Path, Roots
<1>4. open[1] = 0 /\ 1 \in 1 .. Len(open)
  BY <1>1 DEF Path
<1>5. Len(open) # 1 => /\ Len(open) \in 2 .. Len(open) /\ Len(open) - 1 \in 1 .. Len(open)
                       /\ 0 < cur /\ atoms[cur].up = open[Len(open) - 1]
  <2> SUFFICES ASSUME Len(open) # 1
               PROVE  /\ Len(open) \in 2 .. Len(open) /\ Len(open) - 1 \in 1 .. Len(open)
                      /\ 0 < cur /\ atoms[cur].up = open[Len(open) - 1]
    OBVIOUS
  <2>1. Len(open) \in 2 .. Len(open) /\ Len(open) - 1 \in 1 .. Len(open) /\ Len(open) \in 1 + 1 .. Len(open)
    <3>1. PICK m \in Nat \ {0} : m = Len(open)
      BY <1>1
    <3>2. m # 1 => m \in 2 .. m /\ m - 1 \in 1 .. m /\ m \in 1 + 1 .. m
      OBVIOUS
    <3> QED
      BY <3>1, <3>2
  <2>2. open[1] < open[Len(open)]
    BY <1>4, <2>1 DEF Path
  <2>3. atoms[open[Len(open)]].up = open[Len(open) - 1]
    BY <1>1, <2>1 DEF Path
  <2> QED
    BY <1>2, <1>4, <2>1, <2>2, <2>3
<1> QED
  BY <1>1, <1>2, <1>3, <1>4, <1>5

\* Without the innermost container the rest of the path is one.
LEMMA OuterIs ==
    ASSUME Path, open # <<>>
    PROVE  /\ Outer \in Seq(Atoms) /\ Len(Outer) = Len(open) - 1
           /\ \A i \in 1 .. Len(Outer) : Outer[i] = open[i]
           /\ Outer = <<>> <=> cur = 0
           /\ cur \notin {Outer[i] : i \in 1 .. Len(Outer)}
           /\ Roots = {Outer[i] : i \in 1 .. Len(Outer)} \cup {cur}
<1>1. Len(open) \in Nat \ {0} /\ (cur = 0 <=> Len(open) = 1)
  BY CurIs
<1>2. open \in Seq(Atoms)
  BY DEF Path
<1>3. /\ Outer \in Seq(Atoms) /\ Len(Outer) = Len(open) - 1
      /\ \A i \in 1 .. Len(Outer) : Outer[i] = open[i]
  <2>1. PICK m \in Nat : m = Len(open) - 1
    BY <1>1
  <2>2. \A i \in 1 .. m : open[i] \in Atoms
    BY <1>2, <2>1
  <2>3. /\ SubSeq(open, 1, m) \in Seq(Atoms)
        /\ Len(SubSeq(open, 1, m)) = IF 1 <= m THEN m - 1 + 1 ELSE 0
        /\ \A i \in 1 .. m - 1 + 1 : SubSeq(open, 1, m)[i] = open[1 + i - 1]
    BY <2>2, SubSeqProperties
  <2>4. Outer = SubSeq(open, 1, m) /\ Len(Outer) = m
    BY <2>1, <2>3 DEF Outer
  <2>5. \A i \in 1 .. m : 1 + i - 1 = i /\ i \in 1 .. m - 1 + 1
    BY <2>1
  <2> QED
    BY <2>1, <2>3, <2>4, <2>5
<1>4. Outer = <<>> <=> cur = 0
  BY <1>1, <1>3
<1>5. Roots = {Outer[i] : i \in 1 .. Len(Outer)} \cup {cur}
  <2>1. 1 .. Len(open) = (1 .. Len(Outer)) \cup {Len(open)}
    BY <1>1, <1>3
  <2> QED
    BY <1>3, <2>1 DEF Roots, cur
<1>6. ASSUME NEW i \in 1 .. Len(Outer) PROVE Outer[i] # cur
  <2>1. i \in 1 .. Len(open) /\ Len(open) \in i + 1 .. Len(open) /\ Outer[i] = open[i]
    BY <1>1, <1>3
  <2>2. open[i] < open[Len(open)]
    BY <2>1 DEF Path
  <2>3. open[i] \in Nat /\ open[Len(open)] \in Nat
    BY <1>2, <2>1 DEF Path, Atoms
  <2> QED
    BY <2>1, <2>2, <2>3 DEF cur
<1> QED
  BY <1>3, <1>4, <1>5, <1>6

\* A block k gets an owner, or is a root; others lose theirs.
LEMMA LiveMoves ==
    ASSUME IsTree(atoms), OwnedInside, UNCHANGED atoms, NEW k \in Atoms,
           owner[k] = None,
           k \in Roots' \/ (owner'[k] \in 0 .. k - 1 /\ owner'[k] \in Roots'),
           \A j \in Atoms \ {k} : owner'[j] = owner[j] \/ (owner'[j] = None /\ j \in Lost),
           Roots \subseteq Roots' \cup {k}, Roots' \subseteq Roots
    PROVE  /\ Live' \subseteq Live \cup Hanging(owner, Len(atoms), {k})
           /\ Live \subseteq Live' \cup Lost
           /\ k \in Live'
<1>1. Len(atoms) \in Nat
  BY DEF IsTree
<1>2. PICK n \in Nat : n = Len(atoms)
  BY <1>1
<1>3. PICK own : own = owner
  OBVIOUS
<1>4. PICK new : new = owner'
  OBVIOUS
<1>5. PICK A : A = Roots
  OBVIOUS
<1>6. PICK B : B = Roots'
  OBVIOUS
<1> DEFINE H == Hanging(own, n, A)
           N == Hanging(new, n, B)
<1>7. H = Live /\ N = Live' /\ Atoms = 0 .. n /\ Len(atoms') = n
  BY <1>2, <1>3, <1>4, <1>5, <1>6 DEF Live, Atoms
<1>8. N \subseteq H \cup Hanging(own, n, {k})
  <2>1. \A j \in 0 .. n : j # k => new[j] = own[j] \/ new[j] = None
    BY <1>3, <1>4, <1>7
  <2>2. N \subseteq Hanging(own, n, B \cup {k})
    BY <2>1, HangingMoved
  <2>3. A = B \cup A
    BY <1>5, <1>6
  <2>4. H = Hanging(own, n, B) \cup H
    BY <2>3, HangingUnion
  <2>5. Hanging(own, n, B \cup {k}) = Hanging(own, n, B) \cup Hanging(own, n, {k})
    BY HangingUnion
  <2> HIDE DEF H, N
  <2> QED
    BY <2>2, <2>4, <2>5
<1>9. Closed(new, n, B, N) /\ N \subseteq 0 .. n
  BY HangingClosed
<1> HIDE DEF N, H
<1>10. k \in N
  <2>1. k \in 0 .. n /\ (k \in B \/ (new[k] \in 0 .. k - 1 /\ new[k] \in B))
    BY <1>4, <1>6, <1>7
  <2> QED
    BY <1>2, <1>9, <2>1 DEF Closed
<1>11. H \subseteq N \cup Lost
  <2> DEFINE S == N \cup (Lost \cap (0 .. n))
  <2>1. A \cap (0 .. n) \subseteq S
    BY <1>5, <1>6, <1>9, <1>10 DEF Closed
  <2>2. ASSUME NEW j \in 0 .. n, own[j] \in 0 .. j - 1, own[j] \in S PROVE j \in S
    <3>1. j # k /\ own[j] # None
      BY <1>3, <2>2 DEF None
    <3>2. j \in 1 .. n /\ own[j] = atoms[j].up
      BY <1>2, <1>3, <1>7, <3>1 DEF OwnedInside
    <3>3. CASE own[j] \in Lost
      BY <1>2, <3>2, <3>3, LostIs
    <3>4. CASE own[j] \in N
      <4>1. CASE new[j] = own[j]
        BY <1>9, <2>2, <3>4, <4>1 DEF Closed
      <4>2. CASE j \in Lost
        BY <4>2
      <4> QED
        BY <1>3, <1>4, <1>7, <3>1, <4>1, <4>2
    <3> QED
      BY <2>2, <3>3, <3>4
  <2>3. Closed(own, n, A, S)
    BY <2>1, <2>2 DEF Closed
  <2>4. S \in SUBSET (0 .. n)
    BY <1>9
  <2>5. H \subseteq S
    <3> HIDE DEF S
    <3> QED
      BY <2>3, <2>4, HangingLeast DEF H
  <2> QED
    BY <2>5
<1> QED
  BY <1>2, <1>3, <1>7, <1>8, <1>10, <1>11

LEMMA LiveSame == UNCHANGED <<atoms, open, owner>> => Live' = Live
BY DEF Live, Roots

\* The atom to come is in the innermost container and has not been made.
LEMMA MoreIs ==
    ASSUME TreeInv, More
    PROVE  /\ open # <<>> /\ at \in 1 .. Len(atoms) /\ at \in Atoms /\ at # 0
           /\ atoms[at].up = cur /\ cur < at /\ at < After(cur)
           /\ at \notin allocated /\ owner[at] = None
           /\ After(at) \in at + 1 .. After(cur)
           /\ After(at) < After(cur) => atoms[After(at)].up = cur
           /\ ~ IsContainer(at) => After(at) = at + 1
           /\ allocated \subseteq 0 .. at - 1
           /\ After(cur) \in Nat
<1>1. parse = "loop" /\ at < After(cur)
  BY DEF More
<1>2. /\ open # <<>> /\ at \in cur + 1 .. After(cur) /\ atoms[at].up = cur
      /\ allocated \subseteq 0 .. at - 1
  BY <1>1 DEF TreeInv, Place
<1>3. cur \in Atoms /\ cur \in Nat /\ Len(atoms) \in Nat /\ Atoms = 0 .. Len(atoms) /\ IsTree(atoms)
  BY <1>2, CurIs DEF TreeInv, Path, Atoms
<1>4. After(cur) \in cur + 1 .. Len(atoms) + 1
  BY <1>3, AfterIs
<1>5. at \in 1 .. Len(atoms) /\ at \in Atoms /\ at # 0 /\ at \notin allocated
  BY <1>1, <1>2, <1>3, <1>4
<1>6. owner[at] = None
  BY <1>5 DEF TreeInv, OwnedInside
<1>7. /\ cur < at
      /\ After(at) \in at + 1 .. After(cur)
      /\ After(at) < After(cur) => atoms[After(at)].up = cur
  <2>1. PICK c : c = atoms[at].up
    OBVIOUS
  <2>2. c = cur
    BY <1>2, <2>1
  <2> QED
    BY <1>1, <1>3, <1>5, <2>1, <2>2, AfterInner
<1>8. ~ IsContainer(at) => After(at) = at + 1
  BY <1>3, <1>5, AfterLeaf
<1> QED
  BY <1>1, <1>2, <1>4, <1>5, <1>6, <1>7, <1>8

\* Nobody is owned by a block that has not been made.
LEMMA NothingHangs ==
    ASSUME TreeInv, NEW k \in Atoms, allocated \subseteq 0 .. k - 1
    PROVE  Hanging(owner, Len(atoms), {k}) = {k}
<1>1. Len(atoms) \in Nat /\ Atoms = 0 .. Len(atoms) /\ allocated \subseteq Atoms
  BY DEF TreeInv, Path, IsTree, Atoms, Place
<1> DEFINE n == Len(atoms)
           H == Hanging(owner, n, {k})
<1>2. H \subseteq 0 .. n /\ Closed(owner, n, {k}, H)
  BY <1>1, HangingClosed
<1>3. k \in H
  BY <1>1, <1>2 DEF Closed
<1>4. Closed(owner, n, {k}, {k})
  <2> SUFFICES ASSUME NEW j \in 0 .. n, owner[j] = k, k \in 0 .. j - 1 PROVE FALSE
    BY DEF Closed
  <2>1. owner[j] # None
    BY <1>1 DEF None
  <2>2. j \in allocated
    BY <1>1, <2>1 DEF TreeInv, OwnedInside
  <2> QED
    BY <1>1, <2>2
<1>5. H \subseteq {k}
  BY <1>1, <1>4, HangingLeast
<1> QED
  BY <1>3, <1>5

\* Steps that neither open nor close a container nor attach a block.
LEMMA TreeHolds ==
    ASSUME TreeInv, HeaderBroken \/ LeafFails \/ TrexTurnedAway \/ LoopEnds \/ MoovRead
    PROVE  TreeInv'
<1>1. /\ UNCHANGED <<atoms, open, at, owner>> /\ cur' = cur /\ Atoms' = Atoms
      /\ After(cur)' = After(cur)
  BY DEF HeaderBroken, LeafFails, TrexTurnedAway, LoopEnds, MoovRead, cur, Atoms, After
<1>2. Live' = Live /\ Lost' = Lost /\ Roots' = Roots
  BY <1>1, LiveSame, LostSame DEF Roots
<1>3. Path'
  BY <1>1 DEF TreeInv, Path
<1>4. allocated \subseteq allocated' /\ allocated' \subseteq allocated \cup {at}
  BY DEF HeaderBroken, LeafFails, TrexTurnedAway, LoopEnds, MoovRead
<1>5. OwnedInside'
  BY <1>1, <1>4 DEF TreeInv, OwnedInside
<1>6. OwnedForm' /\ Place'
  <2>1. CASE HeaderBroken
    <3>1. allocated' = allocated /\ freed' = freed /\ parse' = "ended" /\ More
      BY <2>1 DEF HeaderBroken, End
    <3>2. open # <<>> /\ allocated \subseteq 0 .. at - 1 /\ at < After(cur) /\ at \in Nat /\ After(cur) \in Nat
      BY <3>1, MoreIs
    <3>3. allocated \subseteq 0 .. After(cur) - 1
      BY <3>2
    <3> QED
      BY <1>1, <1>2, <3>1, <3>2, <3>3 DEF TreeInv, OwnedForm, Place
  <2>2. CASE LoopEnds
    <3>1. /\ allocated' = allocated /\ freed' = freed /\ parse' = "ended" /\ parse = "loop"
          /\ at = After(cur)
      BY <2>2 DEF LoopEnds, End
    <3> QED
      BY <1>1, <1>2, <3>1 DEF TreeInv, OwnedForm, Place
  <2>3. CASE MoovRead
    <3>1. allocated' = allocated /\ freed' = freed /\ parse' = "parsed" /\ parse = "ended" /\ cur = 0
      BY <2>3 DEF MoovRead
    <3> QED
      BY <1>1, <1>2, <3>1 DEF TreeInv, OwnedForm, Place
  <2>4. CASE LeafFails \/ TrexTurnedAway
    <3>1. More /\ parse' = "ended"
      BY <2>4 DEF LeafFails, TrexTurnedAway, End
    <3>2. /\ open # <<>> /\ allocated \subseteq 0 .. at - 1 /\ at < After(cur)
          /\ at \in Nat /\ After(cur) \in Nat /\ at \in 1 .. Len(atoms) /\ at \in Atoms /\ at \notin allocated
      BY <3>1, MoreIs DEF Atoms
    <3>3. allocated' \subseteq 0 .. After(cur) - 1 /\ allocated' \subseteq Atoms
      BY <1>4, <3>2 DEF TreeInv, Place
    <3>4. Place'
      BY <1>1, <3>1, <3>2, <3>3 DEF Place
    <3>5. at \notin Live /\ Live \subseteq allocated
      BY <3>2 DEF TreeInv, OwnedForm
    <3>6. \/ allocated' = allocated \cup {at} /\ freed' = freed \cup {at}
          \/ allocated' = allocated \cup {at} /\ freed' = freed /\ at \in Lost
          \/ allocated' = allocated /\ freed' = freed
      <4>1. CASE TrexTurnedAway
        BY <4>1 DEF TrexTurnedAway
      <4>2. CASE LeafFails
        <5>1. /\ allocated' = IF MadeFirst(at) THEN allocated \cup {at} ELSE allocated
              /\ freed' = IF StszReleases(at) THEN freed \cup {at} ELSE freed
              /\ Fails(at)
          BY <4>2 DEF LeafFails
        <5>2. StszReleases(at) => MadeFirst(at)
          BY DEF StszReleases
        <5>3. MadeFirst(at) /\ ~ StszReleases(at) => at \in Lost
          <6>1. MadeFirst(at) /\ ~ StszReleases(at) => LostAlone(at)
            BY <5>1 DEF LostAlone
          <6>2. IsTree(atoms)
            BY DEF TreeInv, Path
          <6> QED
            BY <3>2, <6>1, <6>2, LostIs
        <5> QED
          BY <5>1, <5>2, <5>3
      <4> QED
        BY <2>4, <4>1, <4>2
    <3>7. OwnedForm'
      BY <1>2, <3>5, <3>6 DEF TreeInv, OwnedForm
    <3> QED
      BY <3>4, <3>7
  <2> QED
    BY <2>1, <2>2, <2>3, <2>4
<1> QED
  BY <1>3, <1>5, <1>6 DEF TreeInv

\* The innermost container is given up, with all that hangs on it.
LEMMA GivenUp ==
    ASSUME TreeInv, open # <<>>, UNCHANGED <<atoms, owner, allocated>>, open' = Outer,
           freed' = freed \cup Reach(cur)
    PROVE  Path' /\ OwnedInside' /\ OwnedForm'
<1>1. /\ Len(atoms) \in Nat /\ cur \in Atoms /\ owner[cur] = None /\ IsTree(atoms)
      /\ Len(open) \in Nat \ {0}
  BY CurIs DEF TreeInv, Path
<1>2. /\ Outer \in Seq(Atoms) /\ Len(Outer) = Len(open) - 1
      /\ \A i \in 1 .. Len(Outer) : Outer[i] = open[i]
      /\ cur \notin {Outer[i] : i \in 1 .. Len(Outer)}
      /\ Roots = {Outer[i] : i \in 1 .. Len(Outer)} \cup {cur}
  BY OuterIs DEF TreeInv
<1>3. Roots' = {Outer[i] : i \in 1 .. Len(Outer)} /\ Lost' = Lost /\ Atoms' = Atoms
  BY LostSame DEF Roots, Atoms
<1>4. Path'
  <2>1. \A i \in 1 .. Len(Outer) : i \in 1 .. Len(open) /\ (i # 1 => i - 1 \in 1 .. Len(Outer))
                                   /\ i + 1 .. Len(Outer) \subseteq i + 1 .. Len(open)
    BY <1>1, <1>2
  <2>2. ASSUME NEW i \in 1 .. Len(Outer)
        PROVE  /\ owner[Outer[i]] = None
               /\ i = 1 => Outer[i] = 0
               /\ i # 1 => atoms[Outer[i]].up = Outer[i - 1]
               /\ \A j \in i + 1 .. Len(Outer) : Outer[i] < Outer[j]
    <3>1. Outer[i] = open[i] /\ i \in 1 .. Len(open) /\ (i # 1 => Outer[i - 1] = open[i - 1])
      BY <1>2, <2>1
    <3>2. \A j \in i + 1 .. Len(Outer) : Outer[j] = open[j] /\ j \in i + 1 .. Len(open)
      BY <1>2, <2>1
    <3>3. /\ owner[open[i]] = None
          /\ i = 1 => open[i] = 0
          /\ i # 1 => atoms[open[i]].up = open[i - 1]
          /\ \A j \in i + 1 .. Len(open) : open[i] < open[j]
      BY <3>1 DEF TreeInv, Path
    <3> QED
      BY <3>1, <3>2, <3>3
  <2> HIDE DEF Outer
  <2>3. IsTree(atoms') /\ open' \in Seq(Atoms')
    BY <1>1, <1>2, <1>3
  <2> QED
    BY <2>2, <2>3 DEF Path
<1>5. OwnedInside'
  BY <1>3 DEF TreeInv, OwnedInside
<1>6. OwnedForm'
  <2>1. PICK n \in Nat : n = Len(atoms)
    BY <1>1
  <2>2. PICK own : own = owner
    OBVIOUS
  <2>3. PICK A : A = Roots'
    OBVIOUS
  <2>4. PICK c : c = cur
    OBVIOUS
  <2>5. Live' = Hanging(own, n, A) /\ Live = Hanging(own, n, A \cup {c}) /\ Reach(c) = Hanging(own, n, {c})
    BY <1>2, <1>3, <2>1, <2>2, <2>3, <2>4, ReachIs DEF Live
  <2>6. Live = Live' \cup Reach(c)
    BY <2>5, HangingUnion
  <2>7. \A r \in A \cup {c} : own[r] \notin 0 .. r - 1
    <3>1. \A r \in Roots : owner[r] = None
      BY DEF TreeInv, Path, Roots
    <3> QED
      BY <1>2, <1>3, <2>2, <2>3, <2>4, <3>1 DEF None
  <2>8. A \cap {c} = {}
    BY <1>2, <1>3, <2>3, <2>4
  <2>9. Live' \cap Reach(c) = {}
    BY <2>5, <2>7, <2>8, HangingApart
  <2>10. freed' = freed \cup Reach(c) /\ allocated' = allocated
    BY <2>4
  <2> QED
    BY <1>3, <2>6, <2>9, <2>10 DEF TreeInv, OwnedForm
<1> QED
  BY <1>4, <1>5, <1>6

\* The containers being read are made and not released.
LEMMA RootsLive ==
    ASSUME TreeInv
    PROVE  Roots \subseteq Live /\ Roots \subseteq allocated /\ \A r \in Roots : owner[r] = None
<1>1. Len(atoms) \in Nat /\ Roots \subseteq 0 .. Len(atoms)
  BY DEF TreeInv, Path, IsTree, Roots, Atoms
<1>2. Closed(owner, Len(atoms), Roots, Live)
  BY <1>1, HangingClosed DEF Live
<1>3. Roots \subseteq Live
  BY <1>1, <1>2 DEF Closed
<1> QED
  BY <1>3 DEF TreeInv, OwnedForm, Path, Roots

\* What loses its owner to the next atom for the same pointer is lost.
LEMMA GoneLost ==
    ASSUME TreeInv, NEW k \in 1 .. Len(atoms), NEW c, c = atoms[k].up,
           NEW slot, slot = Slot(c, TypeOf(k)), slot \notin {"trak", "trex", "unknown"},
           \A j \in Held(c, slot) : j < k
    PROVE  Held(c, slot) \subseteq Lost
<1> SUFFICES ASSUME NEW j \in Held(c, slot) PROVE j \in Lost
  OBVIOUS
<1>1. j \in Atoms /\ owner[j] = c /\ Slot(c, TypeOf(j)) = slot /\ j < k
  BY DEF Held
<1>2. IsTree(atoms) /\ Len(atoms) \in Nat /\ Atoms = 0 .. Len(atoms) /\ c \in 0 .. k - 1
  BY DEF TreeInv, Path, IsTree, Atoms
<1>3. owner[j] # None
  BY <1>1, <1>2 DEF None
<1>4. j \in 1 .. Len(atoms) /\ atoms[j].up = c
  BY <1>1, <1>2, <1>3 DEF TreeInv, OwnedInside
<1>5. k \in j + 1 .. Len(atoms)
  BY <1>1, <1>2, <1>4
<1>6. LostAlone(j)
  BY <1>1, <1>4, <1>5 DEF LostAlone
<1> QED
  BY <1>2, <1>4, <1>6, LostIs

LEMMA AttachedIs ==
    ASSUME NEW c, NEW k
    PROVE  LET slot == Slot(c, TypeOf(k))
               gone == IF slot \in {"trak", "trex", "unknown"} THEN {} ELSE Held(c, slot)
           IN  \A j \in Atoms :
                 Attached(c, k)[j] = IF j = k THEN c ELSE IF j \in gone THEN None ELSE owner[j]
BY DEF Attached

\* An atom that is not a container is made and attached to the innermost one.
LEMMA AttachHolds ==
    ASSUME TreeInv, More, owner' = Attached(cur, at), allocated' = allocated \cup {at},
           at' = After(at), UNCHANGED <<atoms, open, freed, parse>>
    PROVE  TreeInv'
<1>1. /\ open # <<>> /\ at \in 1 .. Len(atoms) /\ at \in Atoms
      /\ atoms[at].up = cur /\ cur < at /\ at < After(cur)
      /\ at \notin allocated /\ owner[at] = None
      /\ After(at) \in at + 1 .. After(cur)
      /\ After(at) < After(cur) => atoms[After(at)].up = cur
      /\ allocated \subseteq 0 .. at - 1 /\ After(cur) \in Nat
  BY MoreIs
<1>2. /\ cur \in Nat /\ cur \in Roots /\ IsTree(atoms) /\ Len(atoms) \in Nat
      /\ cur \in Atoms
  BY <1>1, CurIs DEF TreeInv, Path
<1>3. /\ cur' = cur /\ Atoms' = Atoms /\ Roots' = Roots /\ Lost' = Lost /\ After(cur)' = After(cur)
      /\ parse = "loop" /\ parse' = "loop"
  BY LostSame DEF cur, Atoms, Roots, After, More
<1> DEFINE slot == Slot(cur, TypeOf(at))
           gone == IF slot \in {"trak", "trex", "unknown"} THEN {} ELSE Held(cur, slot)
<1>4. gone \subseteq Lost
  <2>1. CASE slot \in {"trak", "trex", "unknown"}
    BY <2>1
  <2>2. CASE slot \notin {"trak", "trex", "unknown"}
    <3>1. ASSUME NEW j \in Held(cur, slot) PROVE j < at
      <4>1. j \in Atoms /\ owner[j] = cur
        BY DEF Held
      <4>2. j \in allocated
        BY <1>2, <4>1 DEF TreeInv, OwnedInside, None
      <4> QED
        BY <1>1, <4>2
    <3>2. Held(cur, slot) \subseteq Lost
      BY <1>1, <2>2, <3>1, GoneLost
    <3> QED
      BY <2>2, <3>2
  <2> QED
    BY <2>1, <2>2
<1>5. \A j \in Atoms : owner'[j] = IF j = at THEN cur ELSE IF j \in gone THEN None ELSE owner[j]
  BY AttachedIs
<1> HIDE DEF gone
<1>6. /\ Live' \subseteq Live \cup {at}
      /\ Live \subseteq Live' \cup Lost
      /\ at \in Live'
  <2>1. owner'[at] = cur /\ owner'[at] \in 0 .. at - 1 /\ owner'[at] \in Roots'
    BY <1>1, <1>2, <1>3, <1>5
  <2>2. \A j \in Atoms \ {at} : owner'[j] = owner[j] \/ (owner'[j] = None /\ j \in Lost)
    BY <1>4, <1>5
  <2>3. Hanging(owner, Len(atoms), {at}) = {at}
    BY <1>1, NothingHangs
  <2>4. OwnedInside
    BY DEF TreeInv
  <2>5. PICK k : k = at
    OBVIOUS
  <2>6. /\ k \in Atoms /\ owner[k] = None
        /\ owner'[k] \in 0 .. k - 1 /\ owner'[k] \in Roots'
        /\ \A j \in Atoms \ {k} : owner'[j] = owner[j] \/ (owner'[j] = None /\ j \in Lost)
    BY <1>1, <2>1, <2>2, <2>5
  <2>7. /\ Live' \subseteq Live \cup Hanging(owner, Len(atoms), {k})
        /\ Live \subseteq Live' \cup Lost
        /\ k \in Live'
    BY <1>2, <1>3, <2>4, <2>6, LiveMoves
  <2> QED
    BY <2>3, <2>5, <2>7
<1>7. OwnedForm'
  <2>1. freed' = freed /\ allocated' = allocated \cup {at} /\ Lost' = Lost
    BY <1>3
  <2> QED
    BY <1>1, <1>6, <2>1 DEF TreeInv, OwnedForm
<1>8. Path'
  <2>1. \A i \in 1 .. Len(open) : owner[open[i]] = None /\ open[i] \in Atoms /\ open[i] # at
    <3>1. Roots \subseteq allocated /\ \A r \in Roots : owner[r] = None
      BY RootsLive
    <3> QED
      BY <1>1, <3>1 DEF Roots, TreeInv, Path
  <2>2. \A i \in 1 .. Len(open) : owner'[open[i]] = None
    BY <1>5, <2>1
  <2>3. IsTree(atoms') /\ open' \in Seq(Atoms') /\ open' = open /\ atoms' = atoms
    BY <1>3 DEF TreeInv, Path
  <2> QED
    BY <2>2, <2>3 DEF TreeInv, Path
<1>9. OwnedInside'
  <2> SUFFICES ASSUME NEW j \in Atoms, owner'[j] # None
               PROVE  j # 0 /\ owner'[j] = atoms[j].up /\ j \in allocated \cup {at}
    BY <1>3 DEF OwnedInside
  <2>1. CASE j = at
    BY <1>1, <1>5, <2>1
  <2>2. CASE j # at
    BY <1>5, <2>2 DEF TreeInv, OwnedInside
  <2> QED
    BY <2>1, <2>2
<1>10. Place'
  <2>1. allocated' \subseteq 0 .. After(at) - 1 /\ allocated' \subseteq Atoms
    BY <1>1 DEF TreeInv, Place, Atoms
  <2>2. After(at) \in cur + 1 .. After(cur)
    BY <1>1, <1>2
  <2>3. at' \in cur + 1 .. After(cur) /\ (at' < After(cur) => atoms[at'].up = cur)
        /\ allocated' \subseteq 0 .. at' - 1
    BY <1>1, <2>1, <2>2
  <2> QED
    BY <1>1, <1>3, <2>1, <2>3 DEF Place
<1> QED
  BY <1>7, <1>8, <1>9, <1>10 DEF TreeInv

LEMMA ReadLeafHolds == ASSUME TreeInv, ReadLeaf PROVE TreeInv'
<1>1. More /\ ~ IsContainer(at) /\ owner' = Attached(cur, at) /\ allocated' = allocated \cup {at}
      /\ at' = at + 1 /\ UNCHANGED <<atoms, open, freed, parse>>
  BY DEF ReadLeaf
<1>2. at' = After(at)
  BY <1>1, MoreIs
<1> QED
  BY <1>1, <1>2, AttachHolds

\* A large unknown atom: the unknown ones before it are lost.
LEMMA LargeHolds == ASSUME TreeInv, Unknown, Fate = "large" PROVE TreeInv'
<1>0. /\ More /\ ~ Known /\ UNCHANGED <<atoms, open, freed, parse, allocated>> /\ at' = After(at)
      /\ owner' = [k \in Atoms |-> IF k \in Held(cur, "unknown") THEN None ELSE owner[k]]
  BY DEF Unknown
<1>1. /\ open # <<>> /\ at \in 1 .. Len(atoms) /\ at \in Atoms
      /\ atoms[at].up = cur /\ cur < at /\ at < After(cur)
      /\ After(at) \in at + 1 .. After(cur)
      /\ After(at) < After(cur) => atoms[After(at)].up = cur
      /\ allocated \subseteq 0 .. at - 1 /\ After(cur) \in Nat
  BY <1>0, MoreIs
<1>2. /\ cur \in Nat /\ cur \in Roots /\ IsTree(atoms) /\ Len(atoms) \in Nat
      /\ cur \in Atoms /\ owner[cur] = None /\ Atoms = 0 .. Len(atoms)
  BY <1>1, CurIs DEF TreeInv, Path, Atoms
<1>3. /\ cur' = cur /\ Atoms' = Atoms /\ Roots' = Roots /\ Lost' = Lost /\ After(cur)' = After(cur)
      /\ parse = "loop" /\ parse' = "loop"
  BY <1>0, LostSame DEF cur, Atoms, Roots, After, More
<1>4. Held(cur, "unknown") \subseteq Lost
  <2> SUFFICES ASSUME NEW j \in Held(cur, "unknown") PROVE j \in Lost
    OBVIOUS
  <2>1. j \in Atoms /\ owner[j] = cur /\ Slot(cur, TypeOf(j)) = "unknown"
    BY DEF Held
  <2>2. j \in allocated /\ j # 0 /\ atoms[j].up = cur
    BY <1>2, <2>1 DEF TreeInv, OwnedInside, None
  <2>3. j \in 1 .. Len(atoms) /\ at \in j + 1 .. Len(atoms)
    BY <1>1, <1>2, <2>1, <2>2
  <2>4. Slot(cur, TypeOf(at)) = "unknown" /\ atoms[at].fate = "large"
    BY <1>0, <1>1, <1>2 DEF Known, Slot, TypeOf, Fate
  <2>5. LostAlone(j)
    BY <1>1, <2>1, <2>2, <2>3, <2>4 DEF LostAlone
  <2> QED
    BY <1>2, <2>2, <2>3, <2>5, LostIs
<1>5. \A j \in Atoms : owner'[j] = IF j \in Held(cur, "unknown") THEN None ELSE owner[j]
  BY <1>0
<1>6. Live' \subseteq Live /\ Live \subseteq Live' \cup Lost
  <2>1. PICK k : k = cur
    OBVIOUS
  <2>2. /\ k \in Atoms /\ owner[k] = None /\ k \in Roots'
        /\ \A j \in Atoms \ {k} : owner'[j] = owner[j] \/ (owner'[j] = None /\ j \in Lost)
    BY <1>2, <1>3, <1>4, <1>5, <2>1
  <2>3. OwnedInside
    BY DEF TreeInv
  <2>4. /\ Live' \subseteq Live \cup Hanging(owner, Len(atoms), {k})
        /\ Live \subseteq Live' \cup Lost
    BY <1>0, <1>2, <1>3, <2>2, <2>3, LiveMoves
  <2>5. Roots = Roots \cup {k}
    BY <1>2, <2>1
  <2>6. Live = Live \cup Hanging(owner, Len(atoms), {k})
    BY <1>2, <2>5, HangingUnion DEF Live
  <2> QED
    BY <2>4, <2>6
<1>7. OwnedForm'
  BY <1>0, <1>3, <1>6 DEF TreeInv, OwnedForm
<1>8. Path'
  <2>1. \A i \in 1 .. Len(open) : owner'[open[i]] = None
    BY <1>5 DEF TreeInv, Path
  <2>2. IsTree(atoms') /\ open' \in Seq(Atoms') /\ open' = open /\ atoms' = atoms
    BY <1>0, <1>3 DEF TreeInv, Path
  <2> QED
    BY <2>1, <2>2 DEF TreeInv, Path
<1>9. OwnedInside'
  BY <1>0, <1>3, <1>5 DEF TreeInv, OwnedInside
<1>10. Place'
  <2>1. allocated' \subseteq 0 .. at' - 1 /\ allocated' \subseteq Atoms
    BY <1>0, <1>1, <1>2 DEF TreeInv, Place
  <2>2. at' \in cur + 1 .. After(cur) /\ (at' < After(cur) => atoms[at'].up = cur)
    BY <1>0, <1>1, <1>2
  <2> QED
    BY <1>0, <1>1, <1>3, <2>1, <2>2 DEF Place
<1> QED
  BY <1>7, <1>8, <1>9, <1>10 DEF TreeInv

LEMMA UnknownHolds == ASSUME TreeInv, Unknown PROVE TreeInv'
<1>1. CASE Fate = "large"
  BY <1>1, LargeHolds
<1>2. CASE Fate # "large"
  BY <1>2, AttachHolds DEF Unknown
<1> QED
  BY <1>1, <1>2

LEMMA OpenHolds == ASSUME TreeInv, OpenContainer PROVE TreeInv'
<1>0. /\ More /\ open' = Append(open, at) /\ allocated' = allocated \cup {at} /\ at' = at + 1
      /\ UNCHANGED <<atoms, owner, freed, parse>>
  BY DEF OpenContainer
<1>1. /\ open # <<>> /\ at \in 1 .. Len(atoms) /\ at \in Atoms /\ at \notin allocated
      /\ atoms[at].up = cur /\ owner[at] = None
      /\ allocated \subseteq 0 .. at - 1
  BY <1>0, MoreIs
<1>2. /\ IsTree(atoms) /\ Len(atoms) \in Nat /\ Atoms = 0 .. Len(atoms)
      /\ Len(open) \in Nat \ {0} /\ open \in Seq(Atoms) /\ open[Len(open)] = cur
  BY <1>1, CurIs DEF TreeInv, Path, Atoms, cur
<1>3. PICK n \in Nat \ {0} : n = Len(open)
  BY <1>2
<1>4. /\ open' \in Seq(Atoms) /\ Len(open') = n + 1 /\ open'[n + 1] = at
      /\ \A i \in 1 .. n : open'[i] = open[i]
  BY <1>0, <1>1, <1>2, <1>3
<1>5. 1 .. n + 1 = (1 .. n) \cup {n + 1}
  BY <1>3
<1>6. Roots' = Roots \cup {at} /\ Atoms' = Atoms /\ Lost' = Lost /\ cur' = at
  BY <1>0, <1>3, <1>4, <1>5, LostSame DEF Roots, Atoms, cur
<1>7. Live' = Live \cup {at}
  <2>1. PICK k : k = at
    OBVIOUS
  <2>2. PICK A : A = Roots
    OBVIOUS
  <2>3. PICK own : own = owner
    OBVIOUS
  <2>4. PICK m \in Nat : m = Len(atoms)
    BY <1>2
  <2>5. Roots' = A \cup {k} /\ owner' = own /\ atoms' = atoms
    BY <1>0, <1>6, <2>1, <2>2, <2>3
  <2>6. Live' = Hanging(own, m, A \cup {k}) /\ Live = Hanging(own, m, A)
    BY <2>2, <2>3, <2>4, <2>5 DEF Live
  <2>7. Hanging(own, m, {k}) = {k}
    BY <1>1, <2>1, <2>3, <2>4, NothingHangs
  <2>8. Hanging(own, m, A \cup {k}) = Hanging(own, m, A) \cup Hanging(own, m, {k})
    BY HangingUnion
  <2> QED
    BY <2>1, <2>6, <2>7, <2>8
<1>8. OwnedForm'
  BY <1>0, <1>1, <1>6, <1>7 DEF TreeInv, OwnedForm
<1>9. Path'
  <2>1. \A i \in 1 .. n : open[i] \in allocated /\ owner[open[i]] = None
    BY <1>3, RootsLive DEF Roots
  <2>2. \A i \in 1 .. n : open[i] < at
    <3>1. \A j \in allocated : j < at
      BY <1>1, <1>2
    <3> QED
      BY <2>1, <3>1
  <2>3. \A i \in 1 .. n : /\ i = 1 => open[i] = 0
                          /\ i # 1 => atoms[open[i]].up = open[i - 1]
                          /\ \A j \in i + 1 .. n : open[i] < open[j]
    BY <1>3 DEF TreeInv, Path
  <2>4. ASSUME NEW i \in 1 .. n + 1
        PROVE  /\ owner[open'[i]] = None
               /\ i = 1 => open'[i] = 0
               /\ i # 1 => atoms[open'[i]].up = open'[i - 1]
               /\ \A j \in i + 1 .. n + 1 : open'[i] < open'[j]
    <3>1. CASE i = n + 1
      <4>1. i # 1 /\ i - 1 = n /\ n \in 1 .. n /\ i + 1 .. n + 1 = {}
        BY <1>3, <3>1
      <4> QED
        BY <1>1, <1>2, <1>3, <1>4, <3>1, <4>1
    <3>2. CASE i \in 1 .. n
      <4>1. i # 1 => i - 1 \in 1 .. n
        BY <3>2
      <4>2. \A j \in i + 1 .. n + 1 : j = n + 1 \/ (j \in i + 1 .. n /\ j \in 1 .. n)
        BY <3>2
      <4> QED
        BY <1>4, <2>1, <2>2, <2>3, <3>2, <4>1, <4>2
    <3> QED
      BY <1>5, <3>1, <3>2
  <2> QED
    BY <1>0, <1>2, <1>4, <1>6, <2>4 DEF Path
<1>10. OwnedInside'
  BY <1>0, <1>6 DEF TreeInv, OwnedInside
<1>11. Place'
  <2>1. /\ After(at) \in at + 1 .. Len(atoms) + 1
        /\ \A j \in at + 1 .. After(at) - 1 : atoms[j].up >= at
    BY <1>1, <1>2, AfterIs
  <2>2. PICK k : k = at
    OBVIOUS
  <2>3. After(cur)' = After(k)
    BY <1>0, <1>6, <2>2 DEF After
  <2>4. k + 1 < After(k) => atoms[k + 1].up = k
    <3> SUFFICES ASSUME k + 1 < After(k) PROVE atoms[k + 1].up = k
      OBVIOUS
    <3>1. PICK m \in Nat : m = Len(atoms)
      BY <1>2
    <3>2. PICK d \in k + 1 .. m + 1 : d = After(k)
      BY <2>1, <2>2, <3>1
    <3>3. k \in 1 .. m /\ k + 1 \in 1 .. m /\ k + 1 \in k + 1 .. d - 1
      BY <1>1, <2>2, <3>1, <3>2
    <3>4. atoms[k + 1].up >= k
      BY <2>1, <2>2, <3>2, <3>3
    <3>5. \A i \in 1 .. m : atoms[i].up \in 0 .. i - 1
      BY <1>2, <3>1 DEF IsTree
    <3>6. PICK i \in 1 .. m : i = k + 1
      BY <3>3
    <3>7. atoms[i].up \in 0 .. i - 1
      BY <3>5
    <3> QED
      BY <3>3, <3>4, <3>6, <3>7
  <2>5. allocated' \subseteq 0 .. k + 1 - 1 /\ allocated' \subseteq Atoms
    BY <1>0, <1>1, <1>2, <2>2 DEF TreeInv, Place
  <2>6. parse = "loop" /\ open' # <<>> /\ k + 1 \in k + 1 .. After(k)
    <3>1. parse = "loop"
      BY <1>0 DEF More
    <3>2. open' # <<>>
      BY <1>3, <1>4
    <3>3. PICK d \in at + 1 .. Len(atoms) + 1 : d = After(at)
      BY <2>1
    <3>4. k + 1 \in k + 1 .. d
      BY <1>1, <1>2, <2>2, <3>3
    <3> QED
      BY <2>2, <3>1, <3>2, <3>3, <3>4
  <2>7. /\ cur' = k /\ at' = k + 1 /\ parse' = "loop" /\ atoms' = atoms /\ Atoms' = Atoms
        /\ open' # <<>> /\ After(cur)' = After(k)
    BY <1>0, <1>6, <2>2, <2>3, <2>6
  <2>8. (at < After(cur) => atoms[at].up = cur)'
    BY <2>4, <2>7
  <2>9. (at \in cur + 1 .. After(cur) /\ allocated \subseteq 0 .. at - 1)'
    <3>1. PICK d : d = After(k)
      OBVIOUS
    <3>2. cur' = k /\ at' = k + 1 /\ After(cur)' = d /\ k + 1 \in k + 1 .. d
      BY <2>6, <2>7, <3>1
    <3>3. (at \in cur + 1 .. After(cur))'
      BY <3>2
    <3>4. (allocated \subseteq 0 .. at - 1)'
      <4>1. k \in Nat /\ k = at' - 1 /\ k + 1 - 1 = k
        BY <1>1, <1>2, <2>2, <3>2
      <4>2. allocated' \subseteq 0 .. k
        BY <2>5, <4>1
      <4> QED
        BY <4>1, <4>2
    <3> QED
      BY <3>3, <3>4
  <2>10. (allocated \subseteq Atoms)'
    BY <2>5, <2>7
  <2>11. (parse \in {"loop", "ended", "parsed"} <=> open # <<>>)'
    BY <2>7
  <2> QED
    BY <2>7, <2>8, <2>9, <2>10, <2>11 DEF Place
<1> QED
  BY <1>8, <1>9, <1>10, <1>11 DEF TreeInv

LEMMA InnerBefore ==
    ASSUME IsTree(atoms), NEW k \in 1 .. Len(atoms), NEW c, c = atoms[k].up
    PROVE  k < After(c)
<1>1. PICK n \in Nat : n = Len(atoms)
  BY DEF IsTree
<1>2. /\ k \in 1 .. n /\ c \in 0 .. k - 1 /\ c \in Atoms
      /\ \A j \in c + 1 .. k - 1 : atoms[j].up >= c
      /\ \A i \in 1 .. n : atoms[i].up \in 0 .. i - 1
  BY <1>1 DEF IsTree, Atoms
<1>3. PICK d \in c + 1 .. n + 1 : d = After(c) /\ (d <= n => atoms[d].up < c)
  BY <1>1, <1>2, AfterIs
<1>4. ASSUME d <= k PROVE FALSE
  <2>1. d \in 1 .. n /\ d <= n
    BY <1>2, <1>3, <1>4
  <2>2. atoms[d].up < c
    BY <1>3, <2>1
  <2>3. atoms[d].up \in 0 .. d - 1
    BY <1>2, <2>1
  <2>4. CASE d = k
    BY <1>2, <2>4, <2>2
  <2>5. CASE d # k
    <3>1. d \in c + 1 .. k - 1
      BY <1>2, <1>3, <1>4, <2>5
    <3>2. atoms[d].up >= c
      BY <1>2, <3>1
    <3> QED
      BY <1>2, <2>2, <2>3, <3>2, SMTT(30)
  <2> QED
    BY <2>4, <2>5
<1> QED
  BY <1>2, <1>3, <1>4

\* The container around the innermost one, when that has ended.
LEMMA AroundIs ==
    ASSUME TreeInv, parse = "ended", cur # 0, NEW c, c = atoms[cur].up
    PROVE  /\ open # <<>> /\ cur \in 1 .. Len(atoms) /\ Len(atoms) \in Nat
           /\ Outer # <<>> /\ Outer[Len(Outer)] = c
           /\ c \in Nat /\ c < cur
           /\ After(cur) \in cur + 1 .. After(c) /\ After(c) \in Nat
           /\ After(cur) < After(c) => atoms[After(cur)].up = c
           /\ allocated \subseteq 0 .. After(cur) - 1
<1>1. open # <<>> /\ allocated \subseteq 0 .. After(cur) - 1 /\ Path
  BY DEF TreeInv, Place
<1>2. /\ Len(open) \in Nat \ {0} /\ Len(open) # 1 /\ cur \in 1 .. Len(atoms) /\ c = open[Len(open) - 1]
      /\ Len(atoms) \in Nat
  BY <1>1, CurIs
<1>3. /\ Len(Outer) = Len(open) - 1 /\ Outer # <<>>
      /\ \A i \in 1 .. Len(Outer) : Outer[i] = open[i]
  BY <1>1, OuterIs
<1>4. Outer[Len(Outer)] = c
  BY <1>2, <1>3
<1>5. PICK k \in 1 .. Len(atoms) : k = cur
  BY <1>2
<1>6. IsTree(atoms) /\ c = atoms[k].up
  BY <1>1, <1>5 DEF Path
<1>7. k < After(c)
  BY <1>6, InnerBefore
<1>8. /\ c \in Atoms /\ c < k
      /\ After(k) \in k + 1 .. After(c)
      /\ After(k) < After(c) => atoms[After(k)].up = c
  BY <1>6, <1>7, AfterInner
<1>9. After(c) \in c + 1 .. Len(atoms) + 1
  BY <1>6, <1>8, AfterIs
<1>10. c \in Nat /\ After(c) \in Nat
  BY <1>2, <1>8, <1>9 DEF Atoms
<1> QED
  BY <1>1, <1>2, <1>3, <1>4, <1>5, <1>8, <1>10

\* Where the loop of the container around it stands, once a container has been
\* given up or attached.
LEMMA OuterPlace ==
    ASSUME TreeInv, parse = "ended", cur # 0, UNCHANGED <<atoms, allocated>>, open' = Outer,
           \/ parse' = "ended"
           \/ parse' = "loop" /\ at' = After(cur)
    PROVE  Place'
<1>1. PICK c : c = atoms[cur].up
  OBVIOUS
<1>2. /\ cur \in 1 .. Len(atoms) /\ Len(atoms) \in Nat
      /\ Outer # <<>> /\ Outer[Len(Outer)] = c
      /\ c \in Nat /\ c < cur
      /\ After(cur) \in cur + 1 .. After(c) /\ After(c) \in Nat
      /\ After(cur) < After(c) => atoms[After(cur)].up = c
      /\ allocated \subseteq 0 .. After(cur) - 1
  BY <1>1, AroundIs
<1>3. PICK a \in Nat : a = After(cur)
  BY <1>2
<1>4. PICK b \in Nat : b = After(c)
  BY <1>2
<1>5. cur' = c /\ Atoms' = Atoms
  <2> HIDE DEF Outer
  <2> QED
    BY <1>2 DEF cur, Atoms
<1>6. After(cur)' = b
  BY <1>4, <1>5 DEF After
<1>7. (allocated \subseteq Atoms)'
  BY <1>5 DEF TreeInv, Place
<1>8. (parse \in {"loop", "ended", "parsed"} <=> open # <<>>)'
  BY <1>2
<1>9. /\ a \in c + 1 .. b /\ (a < b => atoms[a].up = c)
      /\ allocated \subseteq 0 .. a - 1 /\ allocated \subseteq 0 .. b - 1
  BY <1>2, <1>3, <1>4
<1>10. CASE parse' = "ended"
  <2>1. (allocated \subseteq 0 .. After(cur) - 1)'
    BY <1>6, <1>9
  <2> QED
    BY <1>7, <1>8, <1>10, <2>1 DEF Place
<1>11. CASE parse' = "loop" /\ at' = After(cur)
  <2>1. at' = a
    BY <1>3, <1>11
  <2>2. (at \in cur + 1 .. After(cur))'
    BY <1>5, <1>6, <1>9, <2>1
  <2>3. (at < After(cur) => atoms[at].up = cur)'
    BY <1>5, <1>6, <1>9, <2>1
  <2>4. (allocated \subseteq 0 .. at - 1)'
    BY <1>9, <2>1
  <2> QED
    BY <1>7, <1>8, <1>11, <2>2, <2>3, <2>4 DEF Place
<1> QED
  BY <1>10, <1>11

\* Moov is given up, or released.
LEMMA ClosedPlace ==
    ASSUME TreeInv, UNCHANGED <<atoms, allocated>>, open' = <<>>, parse' \in {"refused", "closed"}
    PROVE  Place'
BY DEF TreeInv, Place, Atoms

LEMMA GivenUpHolds ==
    ASSUME TreeInv, ContainerFails \/ TrakTurnedAway \/ TrakIgnored
    PROVE  TreeInv'
<1>1. /\ parse = "ended" /\ open # <<>>
      /\ UNCHANGED <<atoms, owner, allocated>> /\ open' = Outer
      /\ freed' = freed \cup Reach(cur)
  BY DEF ContainerFails, TrakTurnedAway, TrakIgnored, Released, Continue, TreeInv, Place
<1>2. Path' /\ OwnedInside' /\ OwnedForm'
  BY <1>1, GivenUp
<1>3. CASE cur = 0
  <2>1. parse' = "refused"
    BY <1>3 DEF ContainerFails, TrakTurnedAway, TrakIgnored
  <2>2. open' = <<>>
    BY <1>1, <1>3, OuterIs DEF TreeInv
  <2>3. Place'
    BY <1>1, <2>1, <2>2, ClosedPlace
  <2> QED
    BY <1>2, <2>3 DEF TreeInv
<1>4. CASE cur # 0
  <2>1. parse' = "ended" \/ (parse' = "loop" /\ at' = After(cur))
    BY <1>4 DEF ContainerFails, TrakTurnedAway, TrakIgnored, Continue, End
  <2>2. Place'
    BY <1>1, <1>4, <2>1, OuterPlace
  <2> QED
    BY <1>2, <2>2 DEF TreeInv
<1> QED
  BY <1>3, <1>4

LEMMA MoovExitHolds == ASSUME TreeInv, parse = "parsed", MoovExit PROVE TreeInv'
<1>1. open # <<>> /\ cur = 0
  BY DEF TreeInv, Place
<1>2. Outer = <<>>
  BY <1>1, OuterIs DEF TreeInv
<1>3. /\ UNCHANGED <<atoms, owner, allocated>> /\ open' = <<>> /\ freed' = freed \cup Reach(0)
      /\ parse' = "closed"
  BY DEF MoovExit
<1>4. Path' /\ OwnedInside' /\ OwnedForm'
  <2> HIDE DEF Outer
  <2> QED
    BY <1>1, <1>2, <1>3, GivenUp
<1>5. Place'
  BY <1>3, ClosedPlace
<1> QED
  BY <1>4, <1>5 DEF TreeInv

\* A container is attached to the one around it, with all that hangs on it.
LEMMA ContainerReadHolds == ASSUME TreeInv, ContainerRead PROVE TreeInv'
<1>0. /\ parse = "ended" /\ cur # 0 /\ owner' = Attached(atoms[cur].up, cur)
      /\ open' = Outer /\ at' = After(cur) /\ parse' = "loop"
      /\ UNCHANGED <<atoms, allocated, freed>>
  BY DEF ContainerRead, Continue
<1>1. PICK c : c = atoms[cur].up
  OBVIOUS
<1>2. /\ open # <<>> /\ cur \in 1 .. Len(atoms) /\ Len(atoms) \in Nat
      /\ Outer # <<>> /\ Outer[Len(Outer)] = c
      /\ c \in Nat /\ c < cur
      /\ After(cur) \in cur + 1 .. After(c) /\ After(c) \in Nat
      /\ allocated \subseteq 0 .. After(cur) - 1
  BY <1>0, <1>1, AroundIs
<1>3. PICK k \in 1 .. Len(atoms) : k = cur
  BY <1>2
<1>4. IsTree(atoms) /\ k \in Atoms /\ owner[k] = None /\ k \in allocated /\ k \in Live
  <2>1. cur \in Roots /\ owner[cur] = None /\ cur \in Atoms
    BY <1>2, CurIs DEF TreeInv
  <2> QED
    BY <1>3, <2>1, RootsLive DEF TreeInv, Path
<1>5. /\ Outer \in Seq(Atoms) /\ Len(Outer) = Len(open) - 1 /\ Len(Outer) \in Nat \ {0}
      /\ \A i \in 1 .. Len(Outer) : Outer[i] = open[i]
      /\ k \notin {Outer[i] : i \in 1 .. Len(Outer)}
      /\ Roots = {Outer[i] : i \in 1 .. Len(Outer)} \cup {k}
  BY <1>2, <1>3, OuterIs DEF TreeInv
<1>6. Roots' = {Outer[i] : i \in 1 .. Len(Outer)} /\ Lost' = Lost /\ Atoms' = Atoms
  BY <1>0, LostSame DEF Roots, Atoms
<1> DEFINE slot == Slot(c, TypeOf(k))
           gone == IF slot \in {"trak", "trex", "unknown"} THEN {} ELSE Held(c, slot)
<1>7. gone \subseteq Lost
  <2>1. CASE slot \in {"trak", "trex", "unknown"}
    BY <2>1
  <2>2. CASE slot \notin {"trak", "trex", "unknown"}
    <3>1. ASSUME NEW j \in Held(c, slot) PROVE j < k
      <4>1. j \in Atoms /\ owner[j] = c /\ owner[j] # None
        BY <1>2 DEF Held, None
      <4>2. j \in allocated /\ atoms[j].up = c /\ j # k
        BY <1>4, <4>1 DEF TreeInv, OwnedInside
      <4>3. PICK d \in k + 1 .. Len(atoms) + 1 : d = After(k) /\ \A i \in k + 1 .. d - 1 : atoms[i].up >= k
        BY <1>4, AfterIs
      <4>4. j \in 0 .. d - 1
        BY <1>2, <1>3, <4>2, <4>3
      <4>5. j \notin k + 1 .. d - 1
        <5> SUFFICES ASSUME j \in k + 1 .. d - 1 PROVE FALSE
          OBVIOUS
        <5>1. c >= k /\ c < k
          BY <1>2, <1>3, <4>2, <4>3
        <5> QED
          BY <1>2, <5>1
      <4> QED
        BY <1>2, <4>2, <4>3, <4>4, <4>5
    <3>2. c = atoms[k].up
      BY <1>1, <1>3
    <3>3. Held(c, slot) \subseteq Lost
      BY <2>2, <3>1, <3>2, GoneLost
    <3> QED
      BY <2>2, <3>3
  <2> QED
    BY <2>1, <2>2
<1>8. \A j \in Atoms : owner'[j] = IF j = k THEN c ELSE IF j \in gone THEN None ELSE owner[j]
  <2>1. owner' = Attached(c, k)
    BY <1>0, <1>1, <1>3
  <2> QED
    BY <2>1, AttachedIs
<1> HIDE DEF gone
<1>9. Live' \subseteq Live /\ Live \subseteq Live' \cup Lost
  <2>1. owner'[k] \in 0 .. k - 1 /\ owner'[k] \in Roots'
    <3>1. owner'[k] = c /\ c \in 0 .. k - 1
      BY <1>2, <1>3, <1>4, <1>8
    <3>2. c \in Roots'
      BY <1>2, <1>5, <1>6
    <3> QED
      BY <3>1, <3>2
  <2>2. \A j \in Atoms \ {k} : owner'[j] = owner[j] \/ (owner'[j] = None /\ j \in Lost)
    BY <1>7, <1>8
  <2>3. OwnedInside
    BY DEF TreeInv
  <2>4. Roots \subseteq Roots' \cup {k} /\ Roots' \subseteq Roots
    BY <1>5, <1>6
  <2>5. /\ Live' \subseteq Live \cup Hanging(owner, Len(atoms), {k})
        /\ Live \subseteq Live' \cup Lost
    BY <1>0, <1>4, <2>1, <2>2, <2>3, <2>4, LiveMoves
  <2>6. Roots = Roots \cup {k}
    BY <1>5
  <2>7. Live = Live \cup Hanging(owner, Len(atoms), {k})
    BY <1>2, <2>6, HangingUnion DEF Live
  <2> QED
    BY <2>5, <2>7
<1>10. OwnedForm'
  BY <1>0, <1>6, <1>9 DEF TreeInv, OwnedForm
<1>11. OwnedInside'
  <2> SUFFICES ASSUME NEW j \in Atoms, owner'[j] # None
               PROVE  j # 0 /\ owner'[j] = atoms[j].up /\ j \in allocated
    BY <1>0, <1>6 DEF OwnedInside
  <2>1. CASE j = k
    BY <1>1, <1>2, <1>3, <1>4, <1>8, <2>1
  <2>2. CASE j # k
    BY <1>8, <2>2 DEF TreeInv, OwnedInside
  <2> QED
    BY <2>1, <2>2
<1>12. Path'
  <2>1. \A i \in 1 .. Len(Outer) : i \in 1 .. Len(open) /\ (i # 1 => i - 1 \in 1 .. Len(Outer))
                                   /\ i + 1 .. Len(Outer) \subseteq i + 1 .. Len(open)
    <3>1. PICK n \in Nat : n = Len(Outer) /\ Len(open) = n + 1
      <4>1. Len(open) \in Nat
        BY DEF TreeInv, Path
      <4> QED
        BY <1>5, <4>1
    <3> QED
      BY <3>1
  <2>2. ASSUME NEW i \in 1 .. Len(Outer)
        PROVE  /\ owner'[Outer[i]] = None
               /\ i = 1 => Outer[i] = 0
               /\ i # 1 => atoms[Outer[i]].up = Outer[i - 1]
               /\ \A j \in i + 1 .. Len(Outer) : Outer[i] < Outer[j]
    <3>1. Outer[i] = open[i] /\ i \in 1 .. Len(open) /\ (i # 1 => Outer[i - 1] = open[i - 1])
      BY <1>5, <2>1
    <3>2. \A j \in i + 1 .. Len(Outer) : Outer[j] = open[j] /\ j \in i + 1 .. Len(open)
      <4>1. \A j \in i + 1 .. Len(Outer) : j \in 1 .. Len(Outer)
        OBVIOUS
      <4> QED
        BY <1>5, <2>1, <4>1
    <3>3. /\ owner[open[i]] = None
          /\ i = 1 => open[i] = 0
          /\ i # 1 => atoms[open[i]].up = open[i - 1]
          /\ \A j \in i + 1 .. Len(open) : open[i] < open[j]
      BY <3>1 DEF TreeInv, Path
    <3>4. Outer[i] \in Atoms /\ Outer[i] # k
      BY <1>5
    <3>5. owner'[Outer[i]] = None
      BY <1>8, <3>1, <3>3, <3>4
    <3> QED
      BY <3>1, <3>2, <3>3, <3>5
  <2> HIDE DEF Outer
  <2>3. IsTree(atoms') /\ open' \in Seq(Atoms') /\ open' = Outer /\ atoms' = atoms
    BY <1>0, <1>4, <1>5, <1>6
  <2> QED
    BY <2>2, <2>3 DEF Path
<1>13. Place'
  BY <1>0, OuterPlace
<1> QED
  BY <1>10, <1>11, <1>12, <1>13 DEF TreeInv

LEMMA TreeNextHolds == ASSUME TreeInv, TreeNext PROVE TreeInv'
BY TreeHolds, UnknownHolds, OpenHolds, ReadLeafHolds, GivenUpHolds, ContainerReadHolds DEF TreeNext

LEMMA TreeStands == ASSUME TreeInv, UNCHANGED treeVars PROVE TreeInv'
<1>1. /\ UNCHANGED <<atoms, open, at, owner, allocated, freed, parse>>
      /\ cur' = cur /\ Atoms' = Atoms /\ After(cur)' = After(cur)
      /\ Live' = Live /\ Lost' = Lost
  BY LiveSame, LostSame DEF treeVars, cur, Atoms, After
<1> QED
  BY <1>1 DEF TreeInv, Path, OwnedInside, Place, OwnedForm

\* Nothing is made but moov.
LEMMA TreeBegins == ASSUME NEW t, IsTree(t), TreeInit(t) PROVE TreeInv
<1>1. /\ atoms = t /\ open = <<0>> /\ at = 1 /\ owner = [k \in Atoms |-> None]
      /\ allocated = {0} /\ freed = {} /\ parse = "loop"
  BY DEF TreeInit
<1>2. IsTree(atoms) /\ Len(atoms) \in Nat /\ Atoms = 0 .. Len(atoms) /\ 0 \in Atoms
  BY <1>1 DEF IsTree, Atoms
<1>3. Len(open) = 1 /\ open[1] = 0 /\ cur = 0 /\ open \in Seq(Atoms) /\ open # <<>> /\ Roots = {0}
  BY <1>1, <1>2 DEF cur, Roots
<1>4. \A k \in Atoms : owner[k] = None
  BY <1>1
<1>5. Path
  BY <1>2, <1>3, <1>4 DEF Path
<1>6. OwnedInside
  BY <1>4 DEF OwnedInside
<1>7. Place
  <2>1. After(0) = Len(atoms) + 1
    BY DEF After
  <2>2. 1 <= Len(atoms) => atoms[1].up = 0
    BY <1>2 DEF IsTree
  <2> QED
    BY <1>1, <1>2, <1>3, <2>1, <2>2 DEF Place
<1>8. OwnedForm
  <2>1. Closed(owner, Len(atoms), {0}, {0})
    BY <1>2, <1>4 DEF Closed, None
  <2>2. Live \subseteq {0}
    BY <1>2, <1>3, <2>1, HangingLeast DEF Live
  <2>3. 0 \in Live
    BY <1>2, <1>3, HangingClosed DEF Live, Closed
  <2> QED
    BY <1>1, <2>2, <2>3 DEF OwnedForm
<1> QED
  BY <1>5, <1>6, <1>7, <1>8 DEF TreeInv

-------------------------------------------------------------------------------
(* What a path of pointers leads to, without recursion. *)

\* The ends of the first, the second, ... pointer of a path.
Step(from, slot) == UNION {Held(k, slot) : k \in from}

LEMMA FollowIs ==
    ASSUME NEW c, NEW path, Len(path) \in 1 .. 4
    PROVE  LET one == Step({c}, path[1])
               two == Step(one, path[2])
               three == Step(two, path[3])
           IN  /\ Len(path) = 1 => Follow(c, path) = one
               /\ Len(path) = 2 => Follow(c, path) = two
               /\ Len(path) = 3 => Follow(c, path) = three
               /\ Len(path) = 4 => Follow(c, path) = Step(three, path[4])
<1> DEFINE one == Step({c}, path[1])
           two == Step(one, path[2])
           three == Step(two, path[3])
           four == Step(three, path[4])
<1>1. PICK m \in 1 .. 4 : m = Len(path)
  OBVIOUS
<1> DEFINE G(f) == f = [n \in 0 .. m |-> IF n = 0 THEN {c} ELSE Step(f[n - 1], path[n])]
           found == CHOOSE f : G(f)
           w == [n \in 0 .. m |-> IF n = 0 THEN {c} ELSE IF n = 1 THEN one ELSE IF n = 2 THEN two
                                  ELSE IF n = 3 THEN three ELSE four]
<1>2. Follow(c, path) = found[m]
  BY <1>1 DEF Follow, Step
<1>3. G(w)
  <2> DEFINE g == [n \in 0 .. m |-> IF n = 0 THEN {c} ELSE Step(w[n - 1], path[n])]
  <2>1. ASSUME NEW n \in 0 .. m
        PROVE  w[n] = IF n = 0 THEN {c} ELSE Step(w[n - 1], path[n])
    <3>1. n = 0 \/ n = 1 \/ n = 2 \/ n = 3 \/ n = 4
      BY <1>1
    <3> HIDE DEF one, two, three, four
    <3>2. n # 0 => n - 1 \in 0 .. m
      OBVIOUS
    <3>3. CASE n = 0
      BY <3>3
    <3>4. CASE n = 1
      BY <3>2, <3>4 DEF one
    <3>5. CASE n = 2
      BY <3>2, <3>5 DEF two
    <3>6. CASE n = 3
      BY <3>2, <3>6 DEF three
    <3>7. CASE n = 4
      BY <3>2, <3>7 DEF four
    <3> QED
      BY <3>1, <3>3, <3>4, <3>5, <3>6, <3>7
  <2>2. w = g
    <3>1. \A n \in 0 .. m : w[n] = g[n]
      <4> HIDE DEF w
      <4> QED
        BY <2>1
    <3>2. DOMAIN w = 0 .. m /\ DOMAIN g = 0 .. m /\ w = [n \in 0 .. m |-> w[n]] /\ g = [n \in 0 .. m |-> g[n]]
      OBVIOUS
    <3> HIDE DEF w, g
    <3> QED
      BY <3>1, <3>2
  <2> QED
    BY <2>2
<1>4. G(found)
  <2> HIDE DEF G
  <2> QED
    BY <1>3
<1> HIDE DEF found
<1>5. /\ found[0] = {c}
      /\ \A n \in 1 .. m : found[n] = Step(found[n - 1], path[n])
  <2>1. \A n \in 0 .. m : found[n] = IF n = 0 THEN {c} ELSE Step(found[n - 1], path[n])
    BY <1>4, Zenon
  <2> QED
    BY <2>1
<1>6. found[1] = one /\ (m >= 2 => found[2] = two) /\ (m >= 3 => found[3] = three) /\ (m >= 4 => found[4] = four)
  <2>1. found[1] = Step(found[0], path[1])
    BY <1>5
  <2>2. m >= 2 => found[2] = Step(found[1], path[2])
    BY <1>5
  <2>3. m >= 3 => found[3] = Step(found[2], path[3])
    BY <1>5
  <2>4. m >= 4 => found[4] = Step(found[3], path[4])
    BY <1>5
  <2> QED
    BY <1>5, <2>1, <2>2, <2>3, <2>4
<1> HIDE DEF one, two, three, four
<1>7. /\ m = 1 => Follow(c, path) = one
      /\ m = 2 => Follow(c, path) = two
      /\ m = 3 => Follow(c, path) = three
      /\ m = 4 => Follow(c, path) = four
  BY <1>2, <1>6
<1> QED
  BY <1>1, <1>7 DEF one, two, three, four

LEMMA HandlerIs ==
    ASSUME NEW t
    PROVE  Handler(t) = {atoms[h].fate : h \in Step(Held(t, "mdia"), "hdlr")}
<1> DEFINE p == <<"mdia", "hdlr">>
<1>1. PICK path : path = p
  OBVIOUS
<1>2. Len(path) = 2 /\ path[1] = "mdia" /\ path[2] = "hdlr" /\ Len(path) \in 1 .. 4
  BY <1>1
<1>3. Follow(t, path) = Step(Step({t}, path[1]), path[2])
  BY <1>2, FollowIs
<1>4. Step({t}, "mdia") = Held(t, "mdia")
  BY DEF Step
<1>5. Handler(t) = {atoms[h].fate : h \in Follow(t, path)}
  BY <1>1 DEF Handler
<1> QED
  BY <1>2, <1>3, <1>4, <1>5

HandlersAre == \A t : Handler(t) = {atoms[h].fate : h \in Step(Held(t, "mdia"), "hdlr")}

LEMMA HandlersHold == HandlersAre
BY HandlerIs DEF HandlersAre

-------------------------------------------------------------------------------
(* What the containers read so far hold. *)

Pointer(slot) == slot \notin {"trak", "trex", "unknown"}
SlotOf(k) == Slot(owner[k], TypeOf(k))

\* A pointer points to one block; a container that was attached has all that must
\* be in it, and an hdlr that was attached names a handler.
Single ==
    \A i, j \in Atoms :
        owner[i] # None /\ owner[j] = owner[i] /\ SlotOf(j) = SlotOf(i) /\ Pointer(SlotOf(i)) => i = j

Filled ==
    \A k \in Atoms : owner[k] # None /\ SlotOf(k) # "unknown" =>
        /\ IsContainer(k) => \A slot \in Reads[TypeOf(k)].mandatory : Held(k, slot) # {}
        /\ TypeOf(k) = "hdlr" => atoms[k].fate \in {"vide", "soun", "hint"}

Wanted == \A t \in Traks : "hint" \notin Handler(t)

Room == Cardinality(Traks) <= MaxTracks

HeldWhole == Single /\ Filled /\ Wanted

\* The tracks of the file that are not in the array.
Hinted(k) == \E h \in k + 1 .. After(k) - 1 : TypeOf(h) = "hdlr" /\ atoms[h].fate = "hint"

IsTrack(k) == TypeOf(k) = "trak" /\ atoms[k].up = 0

Seen(b) == \A k \in 1 .. Len(atoms) : IsTrack(k) /\ k < b => k \in Traks \/ Hinted(k)

AllSeen ==
    \A k \in 1 .. Len(atoms) : IsTrack(k) /\ k \notin Traks =>
        Hinted(k) \/ (After(k) = k + 1 /\ k = Len(atoms))

Contained == \A i \in 1 .. Len(open) : IsContainer(open[i])

NoneMissing ==
    /\ Contained
    /\ parse \in {"loop", "ended"} /\ Len(open) > 1 => Seen(open[2])
    /\ parse = "loop" /\ Len(open) = 1 => Seen(at)
    /\ parse = "ended" /\ Len(open) = 1 /\ result => AllSeen
    /\ parse = "parsed" => AllSeen /\ Held(0, "mvhd") # {} /\ Traks # {}

WholeInv == HeldWhole /\ Room /\ NoneMissing

\* The types of the blocks in a slot.
LEMMA SlotIs ==
    ASSUME NEW c, NEW type
    PROVE  /\ Slot(c, type) \notin {"unknown", "stco"} =>
                Slot(c, type) = type /\ type \in Reads[TypeOf(c)].list
           /\ Slot(c, type) # "unknown" => type \in Reads[TypeOf(c)].list
           /\ Slot(c, type) = "unknown" /\ type # "unknown" => type \notin Reads[TypeOf(c)].list
           /\ type \in Reads[TypeOf(c)].list /\ type # "co64" => Slot(c, type) = type
BY DEF Slot

LEMMA TypesSame == UNCHANGED atoms =>
    /\ Atoms' = Atoms
    /\ \A k : TypeOf(k)' = TypeOf(k)
    /\ \A c, type : Slot(c, type)' = Slot(c, type)
    /\ \A k : IsContainer(k)' = IsContainer(k)
    /\ \A k : After(k)' = After(k) /\ IsTrack(k)' = IsTrack(k)
    /\ \A k : Hinted(k)' = Hinted(k)
BY DEF Atoms, TypeOf, Slot, IsContainer, After, IsTrack, Hinted

\* Without a step of an owner all is held as before.
LEMMA HeldStands ==
    ASSUME HeldWhole, UNCHANGED <<atoms, owner>>
    PROVE  HeldWhole' /\ Traks' = Traks /\ \A c, slot : Held(c, slot)' = Held(c, slot)
<1>1. \A c, slot : Held(c, slot)' = Held(c, slot)
  BY TypesSame DEF Held
<1>2. \A t : Handler(t)' = Handler(t)
  <2>1. HandlersAre /\ HandlersAre'
    BY HandlersHold, PTL
  <2>2. \A t : Step(Held(t, "mdia"), "hdlr")' = Step(Held(t, "mdia"), "hdlr")
    BY <1>1 DEF Step
  <2> SUFFICES ASSUME NEW t PROVE Handler(t)' = Handler(t)
    OBVIOUS
  <2>3. PICK S : S = Step(Held(t, "mdia"), "hdlr")
    OBVIOUS
  <2>4. Handler(t) = {atoms[h].fate : h \in S}
    BY <2>1, <2>3 DEF HandlersAre
  <2>5. Handler(t)' = {atoms'[h].fate : h \in S}
    BY <2>1, <2>2, <2>3 DEF HandlersAre
  <2> QED
    BY <2>4, <2>5
<1>3. Traks' = Traks
  BY <1>1 DEF Traks
<1>4. Single' /\ Filled' /\ Wanted'
  BY <1>1, <1>2, <1>3, TypesSame DEF HeldWhole, Single, Filled, Wanted, SlotOf
<1> QED
  BY <1>1, <1>3, <1>4 DEF HeldWhole

\* Block k, whole, is attached to c, which nobody owns yet.
LEMMA AttachWhole ==
    ASSUME TreeInv, HeldWhole, NEW c \in Atoms, NEW k \in 1 .. Len(atoms), k # c,
           owner[c] = None, owner[k] = None, owner' = Attached(c, k), UNCHANGED atoms,
           Slot(c, TypeOf(k)) # "unknown" =>
               /\ IsContainer(k) => \A slot \in Reads[TypeOf(k)].mandatory : Held(k, slot) # {}
               /\ TypeOf(k) = "hdlr" => atoms[k].fate \in {"vide", "soun", "hint"},
           c = 0 /\ TypeOf(k) = "trak" => "hint" \notin Handler(k)
    PROVE  /\ HeldWhole'
           /\ \A x, slot : x # c /\ x # None => Held(x, slot)' = Held(x, slot)
           /\ \A slot : Held(c, slot)' \subseteq Held(c, slot) \cup {k}
           /\ \A slot : ~ Pointer(slot) => Held(c, slot) \subseteq Held(c, slot)'
           /\ k \in Held(c, Slot(c, TypeOf(k)))'
<1>1. IsTree(atoms) /\ Len(atoms) \in Nat /\ Atoms = 0 .. Len(atoms) /\ k \in Atoms /\ c # None
  <2>1. IsTree(atoms) /\ Len(atoms) \in Nat
    BY DEF TreeInv, Path, IsTree
  <2> QED
    BY <2>1 DEF Atoms, None
<1> DEFINE slotk == Slot(c, TypeOf(k))
           gone == IF slotk \in {"trak", "trex", "unknown"} THEN {} ELSE Held(c, slotk)
<1>2. \A j \in Atoms : owner'[j] = IF j = k THEN c ELSE IF j \in gone THEN None ELSE owner[j]
  BY AttachedIs
<1>3. \A j \in gone : owner[j] = c /\ Slot(c, TypeOf(j)) = slotk
  BY DEF Held
<1>4. gone # {} => Pointer(slotk) /\ gone = Held(c, slotk)
  BY DEF Pointer
<1>5. Pointer(slotk) => gone = Held(c, slotk)
  BY DEF Pointer
<1> HIDE DEF gone
<1>6. Atoms' = Atoms /\ \A x, type : Slot(x, type)' = Slot(x, type)
  BY TypesSame
<1>7. \A x, slot : Held(x, slot)' = {j \in Atoms : owner'[j] = x /\ Slot(x, TypeOf(j)) = slot}
  BY <1>6, TypesSame DEF Held
<1>8. ASSUME NEW x, NEW slot, x # c, x # None PROVE Held(x, slot)' = Held(x, slot)
  <2>1. \A j \in Atoms : owner'[j] = x <=> owner[j] = x
    BY <1>2, <1>3, <1>8
  <2> QED
    BY <1>7, <2>1 DEF Held
<1>9. \A slot : Held(c, slot)' \subseteq Held(c, slot) \cup {k}
  <2> SUFFICES ASSUME NEW slot, NEW j \in Held(c, slot)', j # k PROVE j \in Held(c, slot)
    OBVIOUS
  <2>1. j \in Atoms /\ owner'[j] = c /\ Slot(c, TypeOf(j)) = slot
    BY <1>7
  <2>2. owner[j] = c
    BY <1>1, <1>2, <2>1
  <2> QED
    BY <2>1, <2>2 DEF Held
<1>10. \A slot : ~ Pointer(slot) => Held(c, slot) \subseteq Held(c, slot)'
  <2> SUFFICES ASSUME NEW slot, ~ Pointer(slot), NEW j \in Held(c, slot) PROVE j \in Held(c, slot)'
    OBVIOUS
  <2>1. j \in Atoms /\ owner[j] = c /\ Slot(c, TypeOf(j)) = slot
    BY DEF Held
  <2>2. j \notin gone
    BY <1>3, <1>4, <2>1
  <2> QED
    BY <1>2, <1>7, <2>1, <2>2
<1>11. k \in Held(c, Slot(c, TypeOf(k)))'
  <2>1. owner'[k] = c
    BY <1>1, <1>2
  <2> QED
    BY <1>1, <1>6, <1>7, <2>1, TypesSame
<1>12. Single'
  <2> SUFFICES ASSUME NEW i \in Atoms, NEW j \in Atoms, owner'[i] # None, owner'[j] = owner'[i],
                      Slot(owner'[i], TypeOf(i)) = Slot(owner'[j], TypeOf(j)),
                      Pointer(Slot(owner'[i], TypeOf(i)))
               PROVE  i = j
    BY <1>6, TypesSame DEF Single, SlotOf, Pointer
  <2>1. CASE i # k /\ j # k
    <3>1. owner'[i] = owner[i] /\ owner'[j] = owner[j]
      BY <1>2, <2>1
    <3> QED
      BY <3>1 DEF HeldWhole, Single, SlotOf
  <2>2. ASSUME NEW a \in {i, j}, NEW b \in {i, j}, a = k, b # k PROVE FALSE
    <3>1. owner'[a] = c /\ owner'[b] = c /\ owner[b] = c /\ b \notin gone
      BY <1>1, <1>2, <2>2
    <3>2. Slot(c, TypeOf(b)) = slotk /\ Pointer(slotk)
      BY <2>2, <3>1
    <3>3. b \in Held(c, slotk)
      BY <3>1, <3>2 DEF Held
    <3> QED
      BY <1>5, <3>1, <3>2, <3>3
  <2> QED
    BY <2>1, <2>2
<1>13. Filled'
  <2> SUFFICES ASSUME NEW j \in Atoms, owner'[j] # None, Slot(owner'[j], TypeOf(j)) # "unknown"
               PROVE  /\ IsContainer(j) => \A slot \in Reads[TypeOf(j)].mandatory : Held(j, slot)' # {}
                      /\ TypeOf(j) = "hdlr" => atoms[j].fate \in {"vide", "soun", "hint"}
    BY <1>6, TypesSame DEF Filled, SlotOf
  <2>1. j # c /\ j # None
    BY <1>1, <1>2 DEF None
  <2>2. \A slot : Held(j, slot)' = Held(j, slot)
    BY <1>8, <2>1
  <2>3. CASE j = k
    BY <1>1, <1>2, <2>2, <2>3
  <2>4. CASE j # k
    <3>1. owner'[j] = owner[j]
      BY <1>2, <2>4
    <3> QED
      BY <2>2, <3>1 DEF HeldWhole, Filled, SlotOf
  <2> QED
    BY <2>3, <2>4
<1>14. Wanted'
  <2> SUFFICES ASSUME NEW t \in Held(0, "trak")' PROVE "hint" \notin Handler(t)'
    BY DEF Wanted, Traks
  <2>1. HandlersAre /\ HandlersAre'
    BY HandlersHold, PTL
  <2>2. t \in Atoms /\ owner'[t] = 0 /\ t # c /\ t # None /\ Slot(0, TypeOf(t)) = "trak"
    BY <1>1, <1>2, <1>7 DEF None
  <2>3. Held(t, "mdia")' = Held(t, "mdia")
    BY <1>8, <2>2
  <2>4. \A m \in Held(t, "mdia") : Held(m, "hdlr")' = Held(m, "hdlr")
    <3> SUFFICES ASSUME NEW m \in Held(t, "mdia") PROVE m # c /\ m # None
      BY <1>8
    <3>1. m \in Atoms /\ owner[m] = t
      BY DEF Held
    <3> QED
      BY <1>1, <2>2, <3>1 DEF None
  <2>5. PICK S : S = Step(Held(t, "mdia"), "hdlr")
    OBVIOUS
  <2>6. Step(Held(t, "mdia"), "hdlr")' = S
    BY <2>3, <2>4, <2>5 DEF Step
  <2>7. Handler(t) = {atoms[h].fate : h \in S}
    BY <2>1, <2>5 DEF HandlersAre
  <2>8. Handler(t)' = {atoms'[h].fate : h \in S}
    BY <2>1, <2>6 DEF HandlersAre
  <2>9. Handler(t)' = Handler(t)
    BY <2>7, <2>8
  <2>10. CASE t = k
    <3>1. c = 0 /\ TypeOf(k) = "trak"
      BY <1>2, <2>2, <2>10, SlotIs
    <3> QED
      BY <2>9, <2>10, <3>1
  <2>11. CASE t # k
    <3>1. owner[t] = 0
      BY <1>2, <2>2, <2>11 DEF None
    <3>2. t \in Traks
      BY <2>2, <3>1 DEF Traks, Held
    <3> QED
      BY <2>9, <3>2 DEF HeldWhole, Wanted
  <2> QED
    BY <2>10, <2>11
<1> QED
  BY <1>8, <1>9, <1>10, <1>11, <1>12, <1>13, <1>14 DEF HeldWhole

\* A large unknown atom touches the unknown ones only.
LEMMA LargeWhole ==
    ASSUME TreeInv, HeldWhole, NEW c \in Atoms, owner[c] = None, UNCHANGED atoms,
           owner' = [k \in Atoms |-> IF k \in Held(c, "unknown") THEN None ELSE owner[k]]
    PROVE  /\ HeldWhole' /\ Traks' = Traks
           /\ \A x, slot : slot # "unknown" /\ x # None => Held(x, slot)' = Held(x, slot)
<1>1. c # None
  BY DEF Atoms, None
<1>2. \A j \in Atoms : owner'[j] = IF j \in Held(c, "unknown") THEN None ELSE owner[j]
  OBVIOUS
<1>3. \A j \in Held(c, "unknown") : owner[j] = c /\ Slot(c, TypeOf(j)) = "unknown"
  BY DEF Held
<1>4. Atoms' = Atoms /\ \A x, type : Slot(x, type)' = Slot(x, type)
  BY TypesSame
<1>5. \A x, slot : Held(x, slot)' = {j \in Atoms : owner'[j] = x /\ Slot(x, TypeOf(j)) = slot}
  BY <1>4, TypesSame DEF Held
<1>6. ASSUME NEW x, NEW slot, slot # "unknown", x # None PROVE Held(x, slot)' = Held(x, slot)
  <2>1. \A j \in Atoms : owner'[j] = x /\ Slot(x, TypeOf(j)) = slot <=> owner[j] = x /\ Slot(x, TypeOf(j)) = slot
    BY <1>2, <1>3, <1>6
  <2> QED
    BY <1>5, <2>1 DEF Held
<1>7. Traks' = Traks
  BY <1>6 DEF Traks, None
<1>8. Single'
  <2> SUFFICES ASSUME NEW i \in Atoms, NEW j \in Atoms, owner'[i] # None, owner'[j] = owner'[i],
                      Slot(owner'[i], TypeOf(i)) = Slot(owner'[j], TypeOf(j)),
                      Pointer(Slot(owner'[i], TypeOf(i)))
               PROVE  i = j
    BY <1>4, TypesSame DEF Single, SlotOf, Pointer
  <2>1. owner'[i] = owner[i] /\ owner'[j] = owner[j]
    BY <1>2
  <2> QED
    BY <2>1 DEF HeldWhole, Single, SlotOf
<1>9. Filled'
  <2> SUFFICES ASSUME NEW j \in Atoms, owner'[j] # None, Slot(owner'[j], TypeOf(j)) # "unknown"
               PROVE  /\ IsContainer(j) => \A slot \in Reads[TypeOf(j)].mandatory : Held(j, slot)' # {}
                      /\ TypeOf(j) = "hdlr" => atoms[j].fate \in {"vide", "soun", "hint"}
    BY <1>4, TypesSame DEF Filled, SlotOf
  <2>1. owner'[j] = owner[j] /\ j # None
    BY <1>2 DEF Atoms, None
  <2>2. IsContainer(j) => \A slot \in Reads[TypeOf(j)].mandatory : slot # "unknown"
    BY DEF IsContainer, Containers, Reads, MoovReads, TrakReads, EdtsReads, MdiaReads, MinfReads,
           DinfReads, StblReads, MvexReads
  <2>3. IsContainer(j) => \A slot \in Reads[TypeOf(j)].mandatory : Held(j, slot)' = Held(j, slot)
    BY <1>6, <2>1, <2>2
  <2> QED
    BY <2>1, <2>3 DEF HeldWhole, Filled, SlotOf
<1>10. Wanted'
  <2> SUFFICES ASSUME NEW t \in Traks PROVE "hint" \notin Handler(t)'
    BY <1>7 DEF Wanted
  <2>1. HandlersAre /\ HandlersAre'
    BY HandlersHold, PTL
  <2>2. t # None
    BY DEF Traks, Held, Atoms, None
  <2>3. Held(t, "mdia")' = Held(t, "mdia")
    BY <1>6, <2>2
  <2>4. \A m \in Held(t, "mdia") : Held(m, "hdlr")' = Held(m, "hdlr")
    <3> TAKE m \in Held(t, "mdia")
    <3>1. m # None
      BY DEF Held, Atoms, None
    <3> QED
      BY <1>6, <3>1
  <2>5. PICK S : S = Step(Held(t, "mdia"), "hdlr")
    OBVIOUS
  <2>6. Step(Held(t, "mdia"), "hdlr")' = S
    BY <2>3, <2>4, <2>5 DEF Step
  <2>7. Handler(t) = {atoms[h].fate : h \in S}
    BY <2>1, <2>5 DEF HandlersAre
  <2>8. Handler(t)' = {atoms'[h].fate : h \in S}
    BY <2>1, <2>6 DEF HandlersAre
  <2> QED
    BY <2>7, <2>8 DEF HeldWhole, Wanted
<1> QED
  BY <1>6, <1>7, <1>8, <1>9, <1>10 DEF HeldWhole

LEMMA SeenStands ==
    ASSUME UNCHANGED atoms, Traks \subseteq Traks', NEW b, Seen(b)
    PROVE  Seen(b)'
BY TypesSame DEF Seen

LEMMA AllSeenStands ==
    ASSUME UNCHANGED atoms, Traks \subseteq Traks', AllSeen
    PROVE  AllSeen'
BY TypesSame DEF AllSeen

\* Behind atom k and what is in it.
LEMMA SeenBehind ==
    ASSUME IsTree(atoms), NEW k \in 1 .. Len(atoms), Seen(k), IsTrack(k) => k \in Traks \/ Hinted(k)
    PROVE  Seen(After(k))
<1>1. PICK n \in Nat : n = Len(atoms)
  BY DEF IsTree
<1>2. k \in Atoms
  BY <1>1 DEF Atoms
<1>3. PICK d \in k + 1 .. n + 1 : d = After(k) /\ \A j \in k + 1 .. d - 1 : atoms[j].up >= k
  BY <1>1, <1>2, AfterIs
<1>4. ASSUME NEW j \in 1 .. n, IsTrack(j), j < d PROVE j \in Traks \/ Hinted(j)
  <2>1. CASE j < k
    BY <1>1, <1>4, <2>1 DEF Seen
  <2>2. CASE j = k
    BY <1>4, <2>2
  <2>3. CASE j > k
    <3>1. j \in k + 1 .. d - 1
      BY <1>1, <1>4, <2>3
    <3>2. atoms[j].up >= k /\ atoms[j].up = 0
      BY <1>3, <1>4, <3>1 DEF IsTrack
    <3> QED
      BY <1>1, <3>2
  <2> QED
    BY <1>1, <2>1, <2>2, <2>3
<1> QED
  BY <1>1, <1>3, <1>4 DEF Seen

\* Up to the last atom, which ends moov when it fails and is empty.
LEMMA SeenToLast ==
    ASSUME IsTree(atoms), NEW k \in 1 .. Len(atoms), Seen(k), After(k) = k + 1, After(k) = After(0)
    PROVE  AllSeen
<1>1. PICK n \in Nat : n = Len(atoms) /\ After(0) = n + 1
  BY DEF IsTree, After
<1>2. k = n
  BY <1>1
<1>3. ASSUME NEW j \in 1 .. n, IsTrack(j), j \notin Traks PROVE Hinted(j) \/ (After(j) = j + 1 /\ j = n)
  <2>1. CASE j = n
    BY <1>2, <2>1
  <2>2. CASE j # n
    BY <1>1, <1>2, <1>3, <2>2 DEF Seen
  <2> QED
    BY <2>1, <2>2
<1> QED
  BY <1>1, <1>3 DEF AllSeen

LEMMA SeenToEnd ==
    ASSUME IsTree(atoms), NEW b, Seen(b), b = After(0)
    PROVE  AllSeen
<1>1. PICK n \in Nat : n = Len(atoms) /\ b = n + 1
  BY DEF IsTree, After
<1> QED
  BY <1>1 DEF Seen, AllSeen

\* A track whose handler is another one has it within it.
LEMMA HintIsThere ==
    ASSUME TreeInv, NEW t \in 1 .. Len(atoms), "hint" \in Handler(t)
    PROVE  Hinted(t)
<1>0. PICK m \in Held(t, "mdia") : \E h \in Held(m, "hdlr") : atoms[h].fate = "hint"
  BY HandlerIs DEF Step
<1>1. PICK h \in Held(m, "hdlr") : atoms[h].fate = "hint"
  BY <1>0
<1>2. IsTree(atoms) /\ Len(atoms) \in Nat /\ Atoms = 0 .. Len(atoms)
  BY DEF TreeInv, Path, IsTree, Atoms
<1>3. /\ m \in 1 .. Len(atoms) /\ atoms[m].up = t
      /\ h \in 1 .. Len(atoms) /\ atoms[h].up = m
  <2>1. m \in Atoms /\ owner[m] = t /\ h \in Atoms /\ owner[h] = m
    BY DEF Held
  <2>2. t # None /\ m # None
    BY <1>2, <2>1 DEF None
  <2> QED
    BY <1>2, <2>1, <2>2 DEF TreeInv, OwnedInside
<1>4. TypeOf(h) = "hdlr"
  BY SlotIs DEF Held
<1>5. m < After(t) /\ h < After(m)
  BY <1>2, <1>3, InnerBefore
<1>6. t < m /\ After(m) \in m + 1 .. After(t) /\ m < h
  <2>1. /\ t \in Atoms /\ t < m
        /\ After(m) \in m + 1 .. After(t)
    BY <1>2, <1>3, <1>5, AfterInner
  <2>2. m < h
    BY <1>2, <1>3, <1>5, AfterInner
  <2> QED
    BY <2>1, <2>2
<1>7. After(t) \in Nat
  <2>1. t \in Atoms
    BY <1>2
  <2>2. After(t) \in t + 1 .. Len(atoms) + 1
    BY <1>2, <2>1, AfterIs
  <2> QED
    BY <1>2, <2>2
<1>8. h \in t + 1 .. After(t) - 1
  <2>1. PICK a \in Nat : a = After(t)
    BY <1>7
  <2>2. PICK b \in m + 1 .. a : b = After(m)
    BY <1>6, <2>1
  <2> QED
    BY <1>2, <1>3, <1>5, <1>6, <2>1, <2>2
<1> QED
  BY <1>1, <1>4, <1>8 DEF Hinted

\* The second container on the path is in moov.
LEMMA SecondIs ==
    ASSUME TreeInv, Len(open) > 1
    PROVE  /\ open[2] \in 1 .. Len(atoms) /\ atoms[open[2]].up = 0
           /\ cur # 0 /\ open # <<>>
           /\ Len(open) = 2 => cur = open[2]
<1>1. Len(open) \in Nat /\ Len(atoms) \in Nat /\ Atoms = 0 .. Len(atoms)
  BY DEF TreeInv, Path, IsTree, Atoms
<1>2. 1 \in 1 .. Len(open) /\ 2 \in 1 .. Len(open) /\ 2 \in 1 + 1 .. Len(open) /\ open # <<>>
  BY <1>1
<1>3. open[1] = 0 /\ open[1] < open[2] /\ atoms[open[2]].up = open[2 - 1] /\ open[2] \in Atoms
  BY <1>1, <1>2 DEF TreeInv, Path
<1>4. cur # 0
  <2>1. Len(open) # 1
    BY <1>1
  <2> QED
    BY <1>2, <2>1, CurIs DEF TreeInv
<1> QED
  BY <1>1, <1>2, <1>3, <1>4 DEF cur

\* The reading goes on, or ends, within moov's second container.
LEMMA DeepStands ==
    ASSUME TreeInv, NoneMissing, UNCHANGED <<atoms, open>>, Traks \subseteq Traks',
           Len(open) > 1, parse \in {"loop", "ended"}, parse' \in {"loop", "ended"}
    PROVE  NoneMissing'
<1>1. Len(open) # 1 /\ Len(open') = Len(open)
  BY DEF TreeInv, Path
<1>2. PICK b : b = open[2]
  OBVIOUS
<1>3. Seen(b)
  BY <1>2 DEF NoneMissing
<1>4. Seen(b)'
  BY <1>3, SeenStands
<1>5. Seen(open[2])'
  BY <1>2, <1>4 DEF Seen
<1>6. Contained'
  BY TypesSame DEF NoneMissing, Contained
<1>7. parse' # "parsed"
  OBVIOUS
<1> QED
  BY <1>1, <1>5, <1>6, <1>7 DEF NoneMissing

\* The reading of moov ends.
LEMMA MoovEnds ==
    ASSUME TreeInv, NoneMissing, UNCHANGED <<atoms, open, owner>>, Len(open) = 1,
           parse' = "ended", result' => AllSeen
    PROVE  NoneMissing'
<1>1. Traks' = Traks
  BY TypesSame DEF Traks, Held
<1>2. result' => AllSeen'
  BY <1>1, AllSeenStands
<1>3. Contained'
  BY TypesSame DEF NoneMissing, Contained
<1> QED
  BY <1>2, <1>3 DEF NoneMissing

LEMMA LoopWhole ==
    ASSUME TreeInv, WholeInv, HeaderBroken \/ LeafFails \/ TrexTurnedAway \/ LoopEnds
    PROVE  WholeInv'
<1>1. UNCHANGED <<atoms, open, at, owner>> /\ parse = "loop" /\ parse' = "ended"
  BY DEF HeaderBroken, LeafFails, TrexTurnedAway, LoopEnds, More, End
<1>2. HeldWhole' /\ Traks' = Traks
  BY <1>1, HeldStands DEF WholeInv
<1>3. Room'
  BY <1>2 DEF WholeInv, Room
<1>4. /\ open # <<>> /\ IsTree(atoms) /\ Len(open) \in Nat \ {0}
      /\ cur = 0 <=> Len(open) = 1
  <2>1. open # <<>>
    BY <1>1 DEF TreeInv, Place
  <2> QED
    BY <2>1, CurIs DEF TreeInv, Path
<1>5. CASE Len(open) > 1
  BY <1>1, <1>2, <1>3, <1>5, DeepStands DEF WholeInv
<1>6. CASE Len(open) = 1
  <2>1. cur = 0 /\ Seen(at)
    BY <1>1, <1>4, <1>6 DEF WholeInv, NoneMissing
  <2>2. result' => AllSeen
    <3>1. CASE HeaderBroken \/ TrexTurnedAway
      BY <3>1 DEF HeaderBroken, TrexTurnedAway, End
    <3>2. CASE LoopEnds
      <4>1. at = After(0)
        BY <2>1, <3>2 DEF LoopEnds
      <4> QED
        BY <1>4, <2>1, <4>1, SeenToEnd
    <3>3. CASE LeafFails
      <4>1. More /\ ~ IsContainer(at) /\ result' = Endmost(at)
        BY <3>3 DEF LeafFails, End
      <4>2. at \in 1 .. Len(atoms) /\ After(at) = at + 1 /\ atoms[at].up = cur
        BY <4>1, MoreIs
      <4>3. result' => After(at) = After(0)
        BY <2>1, <4>1, <4>2 DEF Endmost
      <4>4. PICK k \in 1 .. Len(atoms) : k = at
        BY <4>2
      <4> QED
        BY <1>4, <2>1, <4>2, <4>3, <4>4, SeenToLast
    <3> QED
      BY <3>1, <3>2, <3>3
  <2>3. NoneMissing'
    BY <1>1, <1>6, <2>2, MoovEnds DEF WholeInv
  <2> QED
    BY <1>2, <1>3, <2>3 DEF WholeInv
<1> QED
  BY <1>2, <1>3, <1>4, <1>5, <1>6 DEF WholeInv

LEMMA MoovReadWhole == ASSUME TreeInv, WholeInv, MoovRead PROVE WholeInv'
<1>1. UNCHANGED <<atoms, open, owner>> /\ parse = "ended" /\ parse' = "parsed" /\ Whole(cur) /\ cur = 0
  BY DEF MoovRead
<1>2. HeldWhole' /\ Traks' = Traks /\ \A c, slot : Held(c, slot)' = Held(c, slot)
  BY <1>1, HeldStands DEF WholeInv
<1>3. Room'
  BY <1>2 DEF WholeInv, Room
<1>4. Len(open) = 1
  <2>1. open # <<>>
    BY <1>1 DEF TreeInv, Place
  <2> QED
    BY <1>1, <2>1, CurIs DEF TreeInv
<1>5. AllSeen
  BY <1>1, <1>4 DEF Whole, WholeInv, NoneMissing
<1>6. AllSeen'
  BY <1>1, <1>2, <1>5, AllSeenStands
<1>7. Held(0, "mvhd") # {} /\ Traks # {}
  <2>1. TypeOf(0) = "moov" /\ Reads["moov"].mandatory = {"mvhd", "trak"}
    BY DEF TypeOf, Reads, MoovReads
  <2> QED
    BY <1>1, <2>1 DEF Whole, Traks
<1>8. Contained'
  BY <1>1, TypesSame DEF WholeInv, NoneMissing, Contained
<1>9. NoneMissing'
  BY <1>1, <1>2, <1>4, <1>6, <1>7, <1>8 DEF NoneMissing
<1> QED
  BY <1>2, <1>3, <1>9 DEF WholeInv

\* The loop goes on behind an atom that is not a track.
LEMMA LoopGoesOn ==
    ASSUME TreeInv, WholeInv, More, UNCHANGED <<atoms, open, parse>>, Traks' = Traks, HeldWhole',
           at' = After(at), TypeOf(at) # "trak" \/ cur # 0
    PROVE  WholeInv'
<1>1. Room'
  BY DEF WholeInv, Room
<1>2. parse = "loop" /\ parse' = "loop" /\ open # <<>> /\ at \in 1 .. Len(atoms) /\ IsTree(atoms)
  BY MoreIs DEF More, TreeInv, Path
<1>3. Len(open) \in Nat \ {0} /\ (cur = 0 <=> Len(open) = 1)
  BY <1>2, CurIs DEF TreeInv
<1>4. CASE Len(open) > 1
  <2>1. NoneMissing'
    BY <1>2, <1>4, DeepStands DEF WholeInv
  <2> QED
    BY <1>1, <2>1 DEF WholeInv
<1>5. CASE Len(open) = 1
  <2>1. PICK k \in 1 .. Len(atoms) : k = at
    BY <1>2
  <2>2. Seen(k) /\ ~ IsTrack(k)
    BY <1>2, <1>3, <1>5, <2>1 DEF WholeInv, NoneMissing, IsTrack
  <2>3. Seen(After(k))
    BY <1>2, <2>2, SeenBehind
  <2>4. PICK b : b = After(k)
    OBVIOUS
  <2>5. Seen(b)'
    BY <2>3, <2>4, SeenStands
  <2>6. at' = b
    BY <2>1, <2>4
  <2>7. Seen(at)'
    BY <2>5, <2>6 DEF Seen
  <2>8. Contained'
    BY TypesSame DEF WholeInv, NoneMissing, Contained
  <2>9. NoneMissing'
    BY <1>2, <1>5, <2>7, <2>8 DEF NoneMissing
  <2> QED
    BY <1>1, <2>9 DEF WholeInv
<1>6. Len(open) > 1 \/ Len(open) = 1
  <2>1. PICK n \in Nat \ {0} : n = Len(open)
    BY <1>3
  <2>2. n > 1 \/ n = 1
    OBVIOUS
  <2> QED
    BY <2>1, <2>2
<1> QED
  BY <1>4, <1>5, <1>6

LEMMA LeafWhole == ASSUME TreeInv, WholeInv, ReadLeaf \/ Unknown PROVE WholeInv'
<1>1. More /\ UNCHANGED <<atoms, open, parse>> /\ Fate # "broken"
  BY DEF ReadLeaf, Unknown
<1>2. /\ open # <<>> /\ at \in 1 .. Len(atoms) /\ at \in Atoms /\ at # cur /\ owner[at] = None
      /\ ~ IsContainer(at) => After(at) = at + 1
      /\ atoms[at].up = cur
  <2>1. cur < at /\ at \in Nat
    BY <1>1, MoreIs DEF Atoms
  <2> QED
    BY <1>1, <2>1, MoreIs
<1>3. cur \in Atoms /\ owner[cur] = None /\ IsTree(atoms)
  BY <1>2, CurIs DEF TreeInv, Path
<1>4. at' = After(at)
  BY <1>2 DEF ReadLeaf, Unknown
<1>5. TypeOf(at) = atoms[at].type
  BY <1>2 DEF TypeOf
<1>6. CASE Unknown /\ Fate = "large"
  <2>1. owner' = [k \in Atoms |-> IF k \in Held(cur, "unknown") THEN None ELSE owner[k]] /\ ~ Known
    BY <1>6 DEF Unknown
  <2>2. PICK c : c = cur
    OBVIOUS
  <2>3. HeldWhole' /\ Traks' = Traks
    BY <1>1, <1>3, <2>1, <2>2, LargeWhole DEF WholeInv
  <2>4. TypeOf(at) # "trak" \/ cur # 0
    BY <1>5, <2>1 DEF Known, TypeOf, Reads, MoovReads
  <2> QED
    BY <1>1, <1>4, <2>3, <2>4, LoopGoesOn
<1>7. CASE ReadLeaf \/ (Unknown /\ Fate # "large")
  <2>1. owner' = Attached(cur, at)
    BY <1>7 DEF ReadLeaf, Unknown
  <2>2. TypeOf(at) # "trak" \/ cur # 0
    <3>1. ReadLeaf => TypeOf(at) # "trak"
      BY DEF ReadLeaf, IsContainer, Containers, Reads
    <3>2. Unknown => TypeOf(at) # "trak" \/ cur # 0
      BY <1>5 DEF Unknown, Known, TypeOf, Reads, MoovReads
    <3> QED
      BY <1>7, <3>1, <3>2
  <2>3. PICK c : c = cur
    OBVIOUS
  <2>4. PICK k \in 1 .. Len(atoms) : k = at
    BY <1>2
  <2>5. Slot(c, TypeOf(k)) # "unknown" =>
               /\ ~ IsContainer(k)
               /\ TypeOf(k) = "hdlr" => atoms[k].fate \in {"vide", "soun", "hint"}
    <3>1. CASE ReadLeaf
      <4>1. ~ IsContainer(k) /\ ~ Fails(k)
        BY <2>4, <3>1 DEF ReadLeaf
      <4>2. TypeOf(k) = "hdlr" => atoms[k].fate \notin {"short", "none", "cut", "broken"}
        BY <1>1, <2>4, <4>1 DEF Fails, Unchecked, Fate
      <4>3. atoms[k].type = "hdlr" => atoms[k].fate \in {"vide", "soun", "hint", "short", "none", "broken"}
        BY <1>3 DEF IsTree
      <4> QED
        BY <1>5, <2>4, <4>1, <4>2, <4>3
    <3>2. CASE Unknown
      BY <1>5, <2>3, <2>4, <3>2 DEF Unknown, Known, Slot
    <3> QED
      BY <1>7, <3>1, <3>2
  <2>6. /\ HeldWhole'
        /\ \A x, slot : x # c /\ x # None => Held(x, slot)' = Held(x, slot)
        /\ \A slot : Held(c, slot)' \subseteq Held(c, slot) \cup {k}
        /\ \A slot : ~ Pointer(slot) => Held(c, slot) \subseteq Held(c, slot)'
    <3>1. c \in Atoms /\ k # c /\ owner[c] = None /\ owner[k] = None /\ owner' = Attached(c, k)
      BY <1>2, <1>3, <2>1, <2>3, <2>4
    <3>2. ~ (c = 0 /\ TypeOf(k) = "trak")
      BY <2>2, <2>3, <2>4
    <3> QED
      BY <1>1, <2>5, <3>1, <3>2, AttachWhole DEF WholeInv
  <2>7. Traks' = Traks
    <3>1. CASE c # 0
      BY <2>6, <3>1 DEF Traks, None
    <3>2. CASE c = 0
      <4>1. Held(0, "trak") \subseteq Held(0, "trak")'
        BY <2>6, <3>2 DEF Pointer
      <4>2. Held(0, "trak")' \subseteq Held(0, "trak") \cup {k}
        BY <2>6, <3>2
      <4>3. k \notin Held(0, "trak")'
        <5>1. Slot(0, TypeOf(k)) # "trak"
          BY <2>2, <2>3, <2>4, <3>2, SlotIs
        <5>2. \A j \in Held(0, "trak")' : Slot(0, TypeOf(j)) = "trak"
          BY <1>1, TypesSame DEF Held
        <5> QED
          BY <5>1, <5>2
      <4> QED
        BY <4>1, <4>2, <4>3 DEF Traks
    <3> QED
      BY <3>1, <3>2
  <2> QED
    BY <1>1, <1>4, <2>2, <2>6, <2>7, LoopGoesOn
<1> QED
  BY <1>6, <1>7

LEMMA OpenWhole == ASSUME TreeInv, WholeInv, OpenContainer PROVE WholeInv'
<1>1. /\ UNCHANGED <<atoms, owner, parse>> /\ open' = Append(open, at) /\ More /\ IsContainer(at)
      /\ parse = "loop"
  BY DEF OpenContainer, More
<1>2. HeldWhole' /\ Traks' = Traks
  BY <1>1, HeldStands DEF WholeInv
<1>3. Room'
  BY <1>2 DEF WholeInv, Room
<1>4. at \in Atoms /\ open # <<>> /\ open \in Seq(Atoms)
  BY <1>1, MoreIs DEF TreeInv, Path
<1>5. PICK n \in Nat \ {0} : n = Len(open)
  BY <1>4, CurIs DEF TreeInv
<1>6. /\ Len(open') = n + 1 /\ open'[n + 1] = at
      /\ \A i \in 1 .. n : open'[i] = open[i]
  BY <1>1, <1>4, <1>5
<1>7. Contained'
  <2>1. \A i \in 1 .. n : IsContainer(open[i])
    BY <1>5 DEF WholeInv, NoneMissing, Contained
  <2>2. 1 .. n + 1 = (1 .. n) \cup {n + 1}
    BY <1>5
  <2>3. \A i \in 1 .. n + 1 : IsContainer(open'[i])
    BY <1>1, <1>6, <2>1, <2>2
  <2>4. \A k : IsContainer(k)' <=> IsContainer(k)
    BY <1>1, TypesSame
  <2> QED
    BY <1>6, <2>3, <2>4 DEF Contained
<1>8. PICK b : b = IF n = 1 THEN at ELSE open[2]
  OBVIOUS
<1>9. Seen(b)
  <2>1. n = 1 \/ n > 1
    BY <1>5
  <2> QED
    BY <1>1, <1>5, <1>8, <2>1 DEF WholeInv, NoneMissing
<1>10. Seen(b)'
  BY <1>1, <1>2, <1>9, SeenStands
<1>11. open'[2] = b
  <2>1. n = 1 => n + 1 = 2
    OBVIOUS
  <2>2. n # 1 => 2 \in 1 .. n
    BY <1>5
  <2> QED
    BY <1>6, <1>8, <2>1, <2>2
<1>12. Seen(open[2])'
  BY <1>10, <1>11 DEF Seen
<1>13. Len(open') # 1 /\ parse' = "loop"
  BY <1>1, <1>5, <1>6
<1>14. NoneMissing'
  BY <1>7, <1>12, <1>13 DEF NoneMissing
<1> QED
  BY <1>2, <1>3, <1>14 DEF WholeInv

\* The innermost container is closed.
LEMMA OuterWhole ==
    ASSUME TreeInv, WholeInv, UNCHANGED atoms, open' = Outer, parse = "ended",
           HeldWhole', Room', Traks \subseteq Traks',
           \/ parse' = "refused" /\ cur = 0
           \/ parse' = "ended" /\ cur # 0 /\ (result' => IsContainer(cur) /\ Endmost(cur))
           \/ parse' = "loop" /\ cur # 0 /\ at' = After(cur)
              /\ (IsTrack(cur) => cur \in Traks' \/ Hinted(cur))
    PROVE  WholeInv'
<1>1. open # <<>> /\ IsTree(atoms)
  BY DEF TreeInv, Place, Path
<1>2. PICK n \in Nat \ {0} : n = Len(open)
  BY <1>1, CurIs DEF TreeInv
<1>3. /\ Len(open') = n - 1
      /\ \A i \in 1 .. n - 1 : open'[i] = open[i]
      /\ open' = <<>> <=> cur = 0
  <2> HIDE DEF Outer
  <2> QED
    BY <1>1, <1>2, OuterIs DEF TreeInv
<1>4. Contained'
  <2>1. \A i \in 1 .. n - 1 : IsContainer(open[i])
    BY <1>2 DEF WholeInv, NoneMissing, Contained
  <2>2. \A i \in 1 .. n - 1 : IsContainer(open'[i])
    BY <1>3, <2>1
  <2>3. \A k : IsContainer(k)' <=> IsContainer(k)
    BY TypesSame
  <2> QED
    BY <1>3, <2>2, <2>3 DEF Contained
<1>5. CASE cur = 0
  <2>1. n = 1
    BY <1>1, <1>2, <1>5, CurIs DEF TreeInv
  <2>2. Len(open') = 0 /\ parse' = "refused"
    BY <1>3, <1>5, <2>1
  <2>3. NoneMissing'
    BY <1>4, <2>2 DEF NoneMissing
  <2> QED
    BY <2>3 DEF WholeInv
<1>6. CASE cur # 0
  <2>1. n # 1
    BY <1>1, <1>2, <1>6, CurIs DEF TreeInv
  <2>2. n > 1 /\ Len(open) > 1
    BY <1>2, <2>1
  <2>3. PICK b \in 1 .. Len(atoms) : b = open[2] /\ atoms[b].up = 0 /\ (n = 2 => cur = b)
    BY <1>2, <2>2, SecondIs
  <2>4. Seen(b)
    BY <2>2, <2>3 DEF WholeInv, NoneMissing
  <2>5. CASE n > 2
    <3>1. 2 \in 1 .. n - 1 /\ Len(open') # 1
      BY <1>3, <2>5
    <3>2. open'[2] = b
      BY <1>3, <2>3, <3>1
    <3>3. Seen(b)'
      BY <2>4, SeenStands
    <3>4. Seen(open[2])'
      BY <3>2, <3>3 DEF Seen
    <3>5. parse' # "parsed"
      OBVIOUS
    <3>6. NoneMissing'
      BY <1>4, <3>1, <3>4, <3>5 DEF NoneMissing
    <3> QED
      BY <3>6 DEF WholeInv
  <2>6. CASE n = 2
    <3>1. cur = b /\ Len(open') = 1
      BY <1>3, <2>3, <2>6
    <3>2. CASE parse' = "ended"
      <4>1. result' => AllSeen
        <5> SUFFICES ASSUME result' PROVE AllSeen
          OBVIOUS
        <5>1. IsContainer(b) /\ Endmost(b)
          BY <1>6, <3>1, <3>2
        <5>2. After(b) = b + 1 /\ After(b) = After(0)
          BY <2>3, <5>1 DEF Endmost
        <5> QED
          BY <1>1, <2>4, <5>2, SeenToLast
      <4>2. result' => AllSeen'
        BY <4>1, AllSeenStands
      <4>3. NoneMissing'
        BY <1>4, <3>1, <3>2, <4>2 DEF NoneMissing
      <4> QED
        BY <4>3 DEF WholeInv
    <3>3. CASE parse' = "loop"
      <4>1. at' = After(b) /\ (IsTrack(b) => b \in Traks' \/ Hinted(b))
        BY <3>1, <3>3
      <4>2. Seen(b)'
        BY <2>4, SeenStands
      <4>3. Seen(at)'
        <5>1. PICK m \in Nat : m = Len(atoms)
          BY <1>1 DEF IsTree
        <5>2. b \in Atoms
          BY <2>3, <5>1 DEF Atoms
        <5>3. PICK d \in b + 1 .. m + 1 : d = After(b) /\ \A j \in b + 1 .. d - 1 : atoms[j].up >= b
          BY <1>1, <5>1, <5>2, AfterIs
        <5>4. \A k : /\ IsTrack(k)' <=> IsTrack(k)
                     /\ Hinted(k)' <=> Hinted(k)
          BY TypesSame
        <5>5. ASSUME NEW k \in 1 .. m, IsTrack(k), k < d PROVE k \in Traks' \/ Hinted(k)
          <6>1. CASE k < b
            BY <4>2, <5>1, <5>4, <5>5, <6>1 DEF Seen
          <6>2. CASE k = b
            BY <4>1, <5>5, <6>2
          <6>3. CASE k > b
            <7>1. k \in b + 1 .. d - 1
              BY <2>3, <5>1, <5>5, <6>3
            <7>2. atoms[k].up >= b /\ atoms[k].up = 0
              BY <5>3, <5>5, <7>1 DEF IsTrack
            <7> QED
              BY <2>3, <5>1, <7>2
          <6> QED
            BY <2>3, <5>1, <6>1, <6>2, <6>3
        <5> QED
          BY <4>1, <5>1, <5>3, <5>4, <5>5 DEF Seen
      <4>4. NoneMissing'
        BY <1>4, <3>1, <3>3, <4>3 DEF NoneMissing
      <4> QED
        BY <4>4 DEF WholeInv
    <3> QED
      BY <1>6, <3>2, <3>3
  <2> QED
    BY <1>2, <2>2, <2>5, <2>6
<1> QED
  BY <1>5, <1>6

LEMMA GivenUpWhole ==
    ASSUME TreeInv, WholeInv, ContainerFails \/ TrakTurnedAway \/ TrakIgnored
    PROVE  WholeInv'
<1>1. UNCHANGED <<atoms, owner>> /\ open' = Outer /\ parse = "ended"
  BY DEF ContainerFails, TrakTurnedAway, TrakIgnored, Continue
<1>2. HeldWhole' /\ Traks' = Traks
  BY <1>1, HeldStands DEF WholeInv
<1>3. Room'
  BY <1>2 DEF WholeInv, Room
<1>4. open # <<>> /\ IsContainer(cur)
  <2>1. open # <<>>
    BY <1>1 DEF TreeInv, Place
  <2>2. Len(open) \in 1 .. Len(open)
    BY <2>1, CurIs DEF TreeInv
  <2> QED
    BY <2>1, <2>2 DEF WholeInv, NoneMissing, Contained, cur
<1>5. CASE ContainerFails
  <2>1. \/ parse' = "refused" /\ cur = 0
        \/ parse' = "ended" /\ cur # 0 /\ (result' => IsContainer(cur) /\ Endmost(cur))
    BY <1>4, <1>5 DEF ContainerFails, End
  <2> QED
    BY <1>1, <1>2, <1>3, <2>1, OuterWhole
<1>6. CASE TrakTurnedAway
  <2>1. parse' = "ended" /\ cur # 0 /\ ~ result'
    BY <1>6 DEF TrakTurnedAway, End
  <2> QED
    BY <1>1, <1>2, <1>3, <2>1, OuterWhole
<1>7. CASE TrakIgnored
  <2>1. parse' = "loop" /\ cur # 0 /\ at' = After(cur) /\ "hint" \in Handler(cur)
    BY <1>7 DEF TrakIgnored, Continue, Ignored
  <2>2. PICK t \in 1 .. Len(atoms) : t = cur
    BY <1>4, <2>1, CurIs DEF TreeInv
  <2>3. Hinted(cur)
    BY <2>1, <2>2, HintIsThere
  <2> QED
    BY <1>1, <1>2, <1>3, <2>1, <2>3, OuterWhole
<1> QED
  BY <1>5, <1>6, <1>7

\* One more in an array that is not full.
LEMMA OneMore ==
    ASSUME NEW n \in Nat, NEW S \in SUBSET (0 .. n), Cardinality(S) <= MaxTracks, Cardinality(S) # MaxTracks,
           NEW k, NEW T, T \subseteq S \cup {k}
    PROVE  Cardinality(T) <= MaxTracks
<1>1. IsFiniteSet(S) /\ Cardinality(S) \in Nat
  <2>1. IsFiniteSet(0 .. n)
    BY FS_Interval
  <2> QED
    BY <2>1, FS_Subset, FS_CardinalityType
<1>2. IsFiniteSet(S \cup {k}) /\ Cardinality(S \cup {k}) <= Cardinality(S) + 1 /\ Cardinality(S \cup {k}) \in Nat
  <2>1. IsFiniteSet(S \cup {k}) /\ Cardinality(S \cup {k}) = IF k \in S THEN Cardinality(S) ELSE Cardinality(S) + 1
    BY <1>1, FS_AddElement
  <2> QED
    BY <1>1, <2>1
<1>3. Cardinality(T) <= Cardinality(S \cup {k}) /\ Cardinality(T) \in Nat
  BY <1>2, FS_Subset, FS_CardinalityType
<1> QED
  BY <1>1, <1>2, <1>3, MaxTracksAssumption

LEMMA ContainerReadWhole == ASSUME TreeInv, WholeInv, ContainerRead PROVE WholeInv'
<1>1. /\ UNCHANGED atoms /\ open' = Outer /\ parse = "ended" /\ parse' = "loop" /\ cur # 0
      /\ at' = After(cur) /\ owner' = Attached(atoms[cur].up, cur) /\ Whole(cur)
      /\ ~ Full(atoms[cur].up, TypeOf(cur)) /\ ~ Ignored(cur)
  BY DEF ContainerRead, Continue
<1>2. PICK c : c = atoms[cur].up
  OBVIOUS
<1>3. open # <<>> /\ Len(atoms) \in Nat /\ Outer # <<>> /\ Outer[Len(Outer)] = c /\ c < cur
  BY <1>1, <1>2, AroundIs
<1>4. PICK k \in 1 .. Len(atoms) : k = cur /\ owner[k] = None
  BY <1>1, <1>3, CurIs DEF TreeInv
<1>5. IsContainer(k)
  <2>1. Len(open) \in 1 .. Len(open)
    BY <1>3, CurIs DEF TreeInv
  <2> QED
    BY <1>4, <2>1 DEF WholeInv, NoneMissing, Contained, cur
<1>6. c \in Atoms /\ owner[c] = None /\ k # c
  <2>1. /\ Outer \in Seq(Atoms) /\ Len(Outer) = Len(open) - 1
        /\ \A i \in 1 .. Len(Outer) : Outer[i] = open[i]
    BY <1>3, OuterIs DEF TreeInv
  <2>2. PICK m \in Nat \ {0} : m = Len(Outer) /\ Len(open) = m + 1
    <3>1. Len(open) \in Nat
      BY <1>3, CurIs DEF TreeInv
    <3> HIDE DEF Outer
    <3> QED
      BY <1>3, <2>1, <3>1
  <2>3. c = open[m] /\ m \in 1 .. Len(open)
    BY <1>3, <2>1, <2>2
  <2>4. owner[open[m]] = None /\ open[m] \in Atoms
    BY <2>3 DEF TreeInv, Path
  <2>5. c # cur
    BY <1>3, <2>3, <2>4 DEF Atoms
  <2> QED
    BY <1>4, <2>3, <2>4, <2>5
<1>7. /\ HeldWhole'
      /\ \A x, slot : x # c /\ x # None => Held(x, slot)' = Held(x, slot)
      /\ \A slot : Held(c, slot)' \subseteq Held(c, slot) \cup {k}
      /\ \A slot : ~ Pointer(slot) => Held(c, slot) \subseteq Held(c, slot)'
      /\ k \in Held(c, Slot(c, TypeOf(k)))'
  <2>1. owner' = Attached(c, k)
    BY <1>1, <1>2, <1>4
  <2>2. /\ \A slot \in Reads[TypeOf(k)].mandatory : Held(k, slot) # {}
        /\ TypeOf(k) # "hdlr"
    BY <1>1, <1>4, <1>5 DEF Whole, IsContainer, Containers, Reads
  <2>3. TypeOf(k) = "trak" => "hint" \notin Handler(k)
    BY <1>1, <1>4 DEF Ignored
  <2> QED
    BY <1>1, <1>4, <1>6, <2>1, <2>2, <2>3, AttachWhole DEF WholeInv
<1>8. Traks \subseteq Traks'
  <2>1. CASE c = 0
    BY <1>7, <2>1 DEF Traks, Pointer
  <2>2. CASE c # 0
    BY <1>7, <2>2 DEF Traks, None
  <2> QED
    BY <2>1, <2>2
<1>9. Room'
  <2>1. CASE c = 0 /\ TypeOf(k) = "trak"
    <3>1. Traks' \subseteq Traks \cup {k}
      BY <1>7, <2>1 DEF Traks
    <3>2. Cardinality(Traks) <= MaxTracks /\ Cardinality(Traks) # MaxTracks
      BY <1>1, <1>2, <1>4, <2>1 DEF WholeInv, Room, Full, Traks
    <3>3. Traks \in SUBSET (0 .. Len(atoms))
      BY DEF Traks, Held, Atoms
    <3>4. Cardinality(Traks') <= MaxTracks
      BY <1>3, <3>1, <3>2, <3>3, OneMore
    <3> QED
      BY <3>4 DEF Room
  <2>2. CASE c = 0 /\ TypeOf(k) # "trak"
    <3>1. k \notin Held(0, "trak")'
      <4>1. Slot(0, TypeOf(k)) # "trak"
        BY <2>2, SlotIs
      <4>2. \A j \in Held(0, "trak")' : Slot(0, TypeOf(j)) = "trak"
        BY <1>1, TypesSame DEF Held
      <4> QED
        BY <4>1, <4>2
    <3>2. Traks' = Traks
      BY <1>7, <1>8, <2>2, <3>1 DEF Traks
    <3> QED
      BY <3>2 DEF WholeInv, Room
  <2>3. CASE c # 0
    <3>1. Traks' = Traks
      BY <1>7, <2>3 DEF Traks, None
    <3> QED
      BY <3>1 DEF WholeInv, Room
  <2> QED
    BY <2>1, <2>2, <2>3
<1>10. IsTrack(cur) => cur \in Traks'
  <2> SUFFICES ASSUME IsTrack(k) PROVE k \in Traks'
    BY <1>4
  <2>1. c = 0 /\ TypeOf(k) = "trak"
    BY <1>2, <1>4 DEF IsTrack
  <2>2. Slot(c, TypeOf(k)) = "trak"
    BY <2>1 DEF Slot, TypeOf, Reads, MoovReads
  <2>3. Slot(c, TypeOf(k))' = "trak"
    BY <1>1, <2>2, TypesSame
  <2>4. k \in Held(c, "trak")'
    BY <1>7, <2>3
  <2> QED
    BY <2>1, <2>4 DEF Traks
<1> QED
  BY <1>1, <1>7, <1>8, <1>9, <1>10, OuterWhole

LEMMA WholeStands ==
    ASSUME WholeInv, UNCHANGED <<atoms, owner>>,
           UNCHANGED <<open, at, result, parse>> \/ (parse' = "closed" /\ open' = <<>>)
    PROVE  WholeInv'
<1>1. HeldWhole' /\ Traks' = Traks /\ \A c, slot : Held(c, slot)' = Held(c, slot)
  BY HeldStands DEF WholeInv
<1>2. Room'
  BY <1>1 DEF WholeInv, Room
<1>3. CASE UNCHANGED <<open, at, result, parse>>
  <2>1. Contained'
    BY <1>3, TypesSame DEF WholeInv, NoneMissing, Contained
  <2>2. AllSeen => AllSeen'
    BY <1>1, AllSeenStands
  <2>3. PICK a : a = at
    OBVIOUS
  <2>4. PICK b : b = open[2]
    OBVIOUS
  <2>5. (Seen(a) => Seen(a)') /\ (Seen(b) => Seen(b)')
    BY <1>1, SeenStands
  <2>6. (Seen(at) => Seen(at)') /\ (Seen(open[2]) => Seen(open[2])')
    BY <1>3, <2>3, <2>4, <2>5 DEF Seen
  <2>7. NoneMissing'
    BY <1>1, <1>3, <2>1, <2>2, <2>6 DEF WholeInv, NoneMissing
  <2> QED
    BY <1>1, <1>2, <2>7 DEF WholeInv
<1>4. CASE parse' = "closed" /\ open' = <<>>
  <2>1. Contained' /\ Len(open') = 0
    BY <1>4 DEF Contained
  <2>2. NoneMissing'
    BY <1>4, <2>1 DEF NoneMissing
  <2> QED
    BY <1>1, <1>2, <2>2 DEF WholeInv
<1> QED
  BY <1>3, <1>4

LEMMA TreeNextWhole == ASSUME TreeInv, WholeInv, TreeNext PROVE WholeInv'
BY LoopWhole, MoovReadWhole, LeafWhole, OpenWhole, GivenUpWhole, ContainerReadWhole DEF TreeNext

LEMMA WholeBegins == ASSUME NEW t, IsTree(t), TreeInit(t) PROVE WholeInv
<1>1. /\ atoms = t /\ open = <<0>> /\ at = 1 /\ owner = [k \in Atoms |-> None] /\ parse = "loop"
  BY DEF TreeInit
<1>2. \A k \in Atoms : owner[k] = None
  BY <1>1
<1>3. Traks = {}
  BY <1>2 DEF Traks, Held, None
<1>4. HeldWhole
  BY <1>2, <1>3 DEF HeldWhole, Single, Filled, Wanted
<1>5. Room
  <2>1. Cardinality({}) = 0
    BY FS_EmptySet
  <2> QED
    BY <1>3, <2>1, MaxTracksAssumption DEF Room
<1>6. Len(open) = 1 /\ open[1] = 0
  BY <1>1
<1>7. Contained
  BY <1>6 DEF Contained, IsContainer, TypeOf, Containers, Reads
<1>8. Seen(at)
  BY <1>1 DEF Seen, IsTree
<1>9. NoneMissing
  BY <1>1, <1>6, <1>7, <1>8 DEF NoneMissing
<1> QED
  BY <1>4, <1>5, <1>9 DEF WholeInv

LEMMA PathOne ==
    ASSUME NEW c, NEW p PROVE Follow(c, <<p>>) = Held(c, p)
<1>1. PICK path : path = <<p>>
  OBVIOUS
<1>2. Len(path) = 1 /\ path[1] = p /\ Len(path) \in 1 .. 4
  BY <1>1
<1>3. Follow(c, path) = Step({c}, path[1])
  BY <1>2, FollowIs
<1> QED
  BY <1>1, <1>2, <1>3 DEF Step

LEMMA PathTwo ==
    ASSUME NEW c, NEW p, NEW q PROVE Follow(c, <<p, q>>) = Step(Held(c, p), q)
<1>1. PICK path : path = <<p, q>>
  OBVIOUS
<1>2. Len(path) = 2 /\ path[1] = p /\ path[2] = q /\ Len(path) \in 1 .. 4
  BY <1>1
<1>3. Follow(c, path) = Step(Step({c}, path[1]), path[2])
  BY <1>2, FollowIs
<1>4. Step({c}, p) = Held(c, p)
  BY DEF Step
<1> QED
  BY <1>1, <1>2, <1>3, <1>4

LEMMA PathFour ==
    ASSUME NEW c, NEW p, NEW q, NEW r, NEW s
    PROVE  Follow(c, <<p, q, r, s>>) = Step(Step(Step(Held(c, p), q), r), s)
<1>1. PICK path : path = <<p, q, r, s>>
  OBVIOUS
<1>2. Len(path) = 4 /\ path[1] = p /\ path[2] = q /\ path[3] = r /\ path[4] = s /\ Len(path) \in 1 .. 4
  BY <1>1
<1>3. Follow(c, path) = Step(Step(Step(Step({c}, path[1]), path[2]), path[3]), path[4])
  BY <1>2, FollowIs
<1>4. Step({c}, p) = Held(c, p)
  BY DEF Step
<1> QED
  BY <1>1, <1>2, <1>3, <1>4

\* What must be in a container that was attached is there, once.
LEMMA OneHeld ==
    ASSUME HeldWhole, NEW k \in Atoms, owner[k] # None, SlotOf(k) # "unknown", IsContainer(k),
           NEW slot \in Reads[TypeOf(k)].mandatory, slot \notin {"trak", "trex"}
    PROVE  \E j \in Atoms : /\ Held(k, slot) = {j}
                            /\ owner[j] # None /\ SlotOf(j) # "unknown" /\ TypeOf(j) = slot
<1>1. PICK j \in Held(k, slot) : TRUE
  BY DEF HeldWhole, Filled
<1>2. TypeOf(k) \in {"moov", "trak", "edts", "mdia", "minf", "dinf", "stbl", "mvex"}
  BY DEF IsContainer, Containers, Reads
<1>3. slot # "unknown" /\ slot # "stco"
  BY <1>2 DEF Reads, MoovReads, TrakReads, EdtsReads, MdiaReads, MinfReads, DinfReads,
              StblReads, MvexReads
<1>4. j \in Atoms /\ owner[j] = k /\ SlotOf(j) = slot /\ k # None
  BY DEF Held, SlotOf, Atoms, None
<1>5. TypeOf(j) = slot
  BY <1>3, <1>4, SlotIs DEF SlotOf
<1>6. ASSUME NEW i \in Held(k, slot) PROVE i = j
  <2>1. i \in Atoms /\ owner[i] = k /\ SlotOf(i) = slot
    BY DEF Held, SlotOf
  <2> QED
    BY <1>3, <1>4, <2>1 DEF HeldWhole, Single, Pointer
<1>7. Held(k, slot) = {j}
  BY <1>6
<1> QED
  BY <1>3, <1>4, <1>5, <1>7

LEMMA TrackWhole ==
    ASSUME TreeInv, HeldWhole, NEW t \in Traks
    PROVE  /\ \A path \in Taken : Cardinality(Follow(t, path)) = 1
           /\ Handler(t) \in {{"vide"}, {"soun"}}
<1>0. \A x : Cardinality({x}) = 1
  BY FS_Singleton
<1>1. t \in Atoms /\ owner[t] = 0 /\ owner[t] # None /\ SlotOf(t) = "trak" /\ TypeOf(t) = "trak"
  BY SlotIs DEF Traks, Held, SlotOf, None
<1>2. /\ "trak" \in Containers /\ "mdia" \in Containers /\ "minf" \in Containers /\ "stbl" \in Containers
      /\ Reads["trak"].mandatory = {"tkhd", "mdia"}
      /\ Reads["mdia"].mandatory = {"mdhd", "hdlr", "minf"}
      /\ Reads["minf"].mandatory = {"stbl"}
      /\ Reads["stbl"].mandatory = {"stsd", "stts"}
  BY DEF Containers, Reads, TrakReads, MdiaReads, MinfReads, StblReads
<1>3. PICK tkhd \in Atoms : Held(t, "tkhd") = {tkhd}
  BY <1>1, <1>2, OneHeld DEF IsContainer
<1>4. PICK m \in Atoms : Held(t, "mdia") = {m} /\ owner[m] # None /\ SlotOf(m) # "unknown" /\ TypeOf(m) = "mdia"
  BY <1>1, <1>2, OneHeld DEF IsContainer
<1>5. PICK mdhd \in Atoms : Held(m, "mdhd") = {mdhd}
  BY <1>2, <1>4, OneHeld DEF IsContainer
<1>6. PICK h \in Atoms : Held(m, "hdlr") = {h} /\ owner[h] # None /\ SlotOf(h) # "unknown" /\ TypeOf(h) = "hdlr"
  BY <1>2, <1>4, OneHeld DEF IsContainer
<1>7. PICK i \in Atoms : Held(m, "minf") = {i} /\ owner[i] # None /\ SlotOf(i) # "unknown" /\ TypeOf(i) = "minf"
  BY <1>2, <1>4, OneHeld DEF IsContainer
<1>8. PICK s \in Atoms : Held(i, "stbl") = {s} /\ owner[s] # None /\ SlotOf(s) # "unknown" /\ TypeOf(s) = "stbl"
  BY <1>2, <1>7, OneHeld DEF IsContainer
<1>9. PICK stsd \in Atoms : Held(s, "stsd") = {stsd}
  BY <1>2, <1>8, OneHeld DEF IsContainer
<1>10. PICK stts \in Atoms : Held(s, "stts") = {stts}
  BY <1>2, <1>8, OneHeld DEF IsContainer
<1>11. \A x, slot : Step({x}, slot) = Held(x, slot)
  BY DEF Step
<1>12. /\ Follow(t, <<"tkhd">>) = {tkhd}
       /\ Follow(t, <<"mdia", "mdhd">>) = {mdhd}
       /\ Follow(t, <<"mdia", "hdlr">>) = {h}
  BY <1>3, <1>4, <1>5, <1>6, <1>11, PathOne, PathTwo
<1>13. /\ Follow(t, <<"mdia", "minf", "stbl", "stsd">>) = {stsd}
       /\ Follow(t, <<"mdia", "minf", "stbl", "stts">>) = {stts}
  BY <1>4, <1>7, <1>8, <1>9, <1>10, <1>11, PathFour
<1>14. \A path \in Taken : Cardinality(Follow(t, path)) = 1
  BY <1>0, <1>12, <1>13 DEF Taken
<1>15. Handler(t) = {atoms[h].fate}
  BY <1>12 DEF Handler
<1>16. atoms[h].fate \in {"vide", "soun", "hint"}
  BY <1>6 DEF HeldWhole, Filled
<1>17. atoms[h].fate # "hint"
  BY <1>15 DEF HeldWhole, Wanted
<1> QED
  BY <1>14, <1>15, <1>16, <1>17

LEMMA InvsImplyWhole == TreeInv /\ WholeInv => TreeWhole
<1> SUFFICES ASSUME TreeInv, WholeInv, parse = "parsed"
             PROVE  /\ Held(0, "mvhd") # {}
                    /\ Cardinality(Traks) \in 1 .. MaxTracks
                    /\ \A t \in Traks :
                         /\ \A path \in Taken : Cardinality(Follow(t, path)) = 1
                         /\ Handler(t) \in {{"vide"}, {"soun"}}
                    /\ AllSeen
  BY DEF TreeWhole, AllSeen, IsTrack, Hinted
<1>1. Held(0, "mvhd") # {} /\ Traks # {} /\ AllSeen /\ Cardinality(Traks) <= MaxTracks
  BY DEF WholeInv, NoneMissing, Room
<1>2. Cardinality(Traks) \in Nat /\ Cardinality(Traks) # 0
  <2>1. Len(atoms) \in Nat /\ Traks \subseteq 0 .. Len(atoms)
    BY DEF TreeInv, Path, IsTree, Traks, Held, Atoms
  <2>2. IsFiniteSet(0 .. Len(atoms))
    BY <2>1, FS_Interval
  <2>3. IsFiniteSet(Traks)
    BY <2>1, <2>2, FS_Subset
  <2> QED
    BY <1>1, <2>3, FS_CardinalityType, FS_EmptySet
<1>3. Cardinality(Traks) \in 1 .. MaxTracks
  BY <1>1, <1>2, MaxTracksAssumption
<1>4. HeldWhole
  BY DEF WholeInv
<1> QED
  BY <1>1, <1>3, <1>4, TrackWhole

-------------------------------------------------------------------------------
(* The request. *)

LEMMA RequestBegins == Init => TreeInv /\ WholeInv
<1> SUFFICES ASSUME Init PROVE TreeInv /\ WholeInv
  OBVIOUS
<1>1. IsTree(request.tree) /\ TreeInit(request.tree)
  BY RequestsAssumption DEF Init
<1> QED
  BY <1>1, TreeBegins, WholeBegins

\* What a step of the request does to the tree.
LEMMA TreeSteps ==
    [Next]_vars => \/ TreeNext
                   \/ parse = "parsed" /\ MoovExit
                   \/ UNCHANGED treeVars
<1> SUFFICES ASSUME [Next]_vars
             PROVE  \/ TreeNext
                    \/ parse = "parsed" /\ MoovExit
                    \/ UNCHANGED treeVars
  OBVIOUS
<1>1. CASE ReadAtoms
  BY <1>1 DEF ReadAtoms
<1>2. CASE SegmentFails \/ Close
  BY <1>2 DEF SegmentFails, Close, Release
<1>3. CASE \/ Reject \/ SetOptions \/ MapPath \/ PathCrashes \/ PathFails
           \/ NotOpened \/ Opened \/ NoMemory
           \/ BoxUnreadable \/ BoxMissing \/ BoxFound
  BY <1>3 DEF Reject, SetOptions, MapPath, PathCrashes, PathFails, NotOpened, Opened, NoMemory,
              BoxUnreadable, BoxMissing, BoxFound, Return, ReturnFailed
<1>4. CASE \/ MoovRefused \/ MoovAccepted
           \/ IndexCrashes \/ Playlist \/ PlaylistFails
           \/ Segment \/ SegmentCrashes \/ SendFails \/ Send
  BY <1>4 DEF MoovRefused, MoovAccepted, IndexCrashes, Playlist, PlaylistFails, Segment,
              SegmentCrashes, SendFails, Send, Return, ReturnFailed
<1>5. CASE UNCHANGED vars
  BY <1>5 DEF vars
<1> QED
  BY <1>1, <1>2, <1>3, <1>4, <1>5 DEF Next

LEMMA RequestSteps == TreeInv /\ WholeInv /\ [Next]_vars => TreeInv' /\ WholeInv'
<1> SUFFICES ASSUME TreeInv, WholeInv, [Next]_vars PROVE TreeInv' /\ WholeInv'
  OBVIOUS
<1>1. CASE TreeNext
  BY <1>1, TreeNextHolds, TreeNextWhole
<1>2. CASE parse = "parsed" /\ MoovExit
  BY <1>2, MoovExitHolds, WholeStands DEF MoovExit
<1>3. CASE UNCHANGED treeVars
  BY <1>3, TreeStands, WholeStands DEF treeVars
<1> QED
  BY <1>1, <1>2, <1>3, TreeSteps

\* However reading ends - an atom fails, an array is full, the movie is refused,
\* the request is answered - what a container being read holds has been made and
\* not been released, so that no exit releases a block twice, and every block that
\* was made has been released, or is held, or is one of those the readers lose.
THEOREM NothingElseLost == Spec => []Owned
<1>1. TreeInv => Owned
  BY OwnedIs DEF TreeInv, Path, IsTree
<1> QED
  BY <1>1, RequestBegins, RequestSteps, PTL DEF Spec

\* Whatever atoms moov has, a tree that moov_read returns has all blocks the rest
\* of the program follows without a test, each once, has room for its tracks, which
\* are video or audio, and no such track of the file is missing in it but an
\* empty one at its end.
THEOREM AcceptedIsWhole == Spec => []TreeWhole
BY InvsImplyWhole, RequestBegins, RequestSteps, PTL DEF Spec

-------------------------------------------------------------------------------
(* One pass over the arguments.                                              *)

IsArgs(args) == args \in Seq(Words \cup {"=", "&"})

\* The pairs that begin before token k and set an option, and what they make of
\* the options.
Before(args, k, name) == {s \in Settings(args, name) : s.at < k}

NumberOf(S, default) == IF S = {} THEN default ELSE NumberIn(Latest(S).val)

OptionsTo(args, k) ==
    [start |-> NumberOf(Before(args, k, "start"), 0), end |-> NumberOf(Before(args, k, "end"), 0),
     fragment_bitrate |-> NumberOf(Before(args, k, "bitrate"), 0),
     fragments |-> IF Before(args, k, "video") = {} THEN 0 ELSE 1,
     fragment_start |-> NumberOf(Before(args, k, "video"), 0),
     fragment_track_id |-> NumberOf(Before(args, k, "audio"), 0),
     length |-> NumberOf(Before(args, k, "length"), NoLength),
     hash |-> IF Before(args, k, "hash") = {} THEN NoHash ELSE Latest(Before(args, k, "hash")).val,
     input_format |->
         IF \E s \in Before(args, k, "input") : s.val = <<>> \/ s.val[1] \in Flv
         THEN "flv" ELSE "mp4"]

\* A pair from a to b, in which e is the only "=", sets an option.
Sets(args, a, e, b, name) ==
    /\ a \in 1 .. Len(args) /\ e \in a .. b /\ b \in e .. Len(args)
    /\ IsPair(args, a, b)
    /\ \A i \in a .. b : args[i] = "=" <=> i = e
    /\ \/ e = a /\ name = "start"
       \/ e = a + 1 /\ name \in Names[args[a]]

Setting(args, a, e, b) == [at |-> a, val |-> SubSeq(args, e + 1, b)]

LEMMA SettingsAre ==
    ASSUME NEW args, IsArgs(args), NEW name, NEW s
    PROVE  s \in Settings(args, name) <=>
             \E a, e, b \in Nat : Sets(args, a, e, b, name) /\ s = Setting(args, a, e, b)
<1> DEFINE N == 1 .. Len(args)
           Q(q) == /\ q[1] <= q[2] /\ q[2] <= q[3] /\ IsPair(args, q[1], q[3])
                   /\ {i \in q[1] .. q[3] : args[i] = "="} = {q[2]}
                   /\ \/ q[2] = q[1] /\ name = "start"
                      \/ q[2] = q[1] + 1 /\ name \in Names[args[q[1]]]
<1>1. PICK n \in Nat : n = Len(args)
  BY DEF IsArgs
<1>2. s \in Settings(args, name) <=>
        \E q \in N \X N \X N : Q(q) /\ s = [at |-> q[1], val |-> SubSeq(args, q[2] + 1, q[3])]
  BY DEF Settings
<1>3. ASSUME NEW a \in N, NEW e \in N, NEW b \in N
      PROVE  Q(<<a, e, b>>) <=> Sets(args, a, e, b, name)
  <2>1. a \in Nat /\ e \in Nat /\ b \in Nat /\ a \in 1 .. n /\ e \in 1 .. n /\ b \in 1 .. n
    BY <1>1
  <2>2. e \in a .. b /\ b \in e .. Len(args) <=> a <= e /\ e <= b
    BY <1>1, <2>1
  <2>3. ASSUME a <= e, e <= b
        PROVE  {i \in a .. b : args[i] = "="} = {e} <=> \A i \in a .. b : args[i] = "=" <=> i = e
    <3>1. e \in a .. b
      BY <2>1, <2>3
    <3> QED
      BY <3>1
  <2> QED
    BY <2>2, <2>3 DEF Sets
<1>4. ASSUME NEW q \in N \X N \X N, Q(q), s = [at |-> q[1], val |-> SubSeq(args, q[2] + 1, q[3])]
      PROVE  \E a, e, b \in Nat : Sets(args, a, e, b, name) /\ s = Setting(args, a, e, b)
  <2>1. PICK a \in N, e \in N, b \in N : q = <<a, e, b>>
    OBVIOUS
  <2>2. Sets(args, a, e, b, name)
    BY <1>3, <1>4, <2>1
  <2>3. s = Setting(args, a, e, b)
    BY <1>4, <2>1 DEF Setting
  <2> QED
    BY <1>1, <2>2, <2>3
<1>5. ASSUME NEW a \in Nat, NEW e \in Nat, NEW b \in Nat, Sets(args, a, e, b, name),
             s = Setting(args, a, e, b)
      PROVE  \E q \in N \X N \X N : Q(q) /\ s = [at |-> q[1], val |-> SubSeq(args, q[2] + 1, q[3])]
  <2>1. a \in N /\ e \in N /\ b \in N
    BY <1>1, <1>5 DEF Sets
  <2>2. Q(<<a, e, b>>)
    BY <1>3, <1>5, <2>1
  <2>3. s = [at |-> <<a, e, b>>[1], val |-> SubSeq(args, <<a, e, b>>[2] + 1, <<a, e, b>>[3])]
    BY <1>5 DEF Setting
  <2>4. <<a, e, b>> \in N \X N \X N
    BY <2>1
  <2> HIDE DEF Q
  <2> QED
    BY <2>2, <2>3, <2>4
<1> QED
  BY <1>2, <1>4, <1>5

\* The pair from a to b is the only one that begins there; none begins inside it.
LEMMA PairAdds ==
    ASSUME NEW args, IsArgs(args), NEW a \in Nat, NEW b \in Nat, a \in 1 .. b + 1, b <= Len(args),
           IsPair(args, a, b), NEW name
    PROVE  Before(args, b + 2, name) =
             Before(args, a, name)
             \cup {s \in {Setting(args, a, e, b) : e \in a .. b} :
                     \E e \in a .. b : Sets(args, a, e, b, name) /\ s = Setting(args, a, e, b)}
<1> DEFINE new == {s \in {Setting(args, a, e, b) : e \in a .. b} :
                     \E e \in a .. b : Sets(args, a, e, b, name) /\ s = Setting(args, a, e, b)}
<1>1. PICK n \in Nat : n = Len(args)
  BY DEF IsArgs
<1>2. ASSUME NEW s \in Before(args, b + 2, name), s \notin Before(args, a, name) PROVE s \in new
  <2>1. PICK x, e, y \in Nat : Sets(args, x, e, y, name) /\ s = Setting(args, x, e, y)
    BY SettingsAre DEF Before
  <2>2. s.at = x /\ x < b + 2 /\ ~ (x < a)
    BY <1>2, <2>1 DEF Before, Setting
  <2>3. x \in 1 .. n /\ e \in x .. y /\ y \in e .. n /\ IsPair(args, x, y)
    BY <1>1, <2>1 DEF Sets
  <2>4. x = a
    <3> SUFFICES ASSUME x # a PROVE FALSE
      OBVIOUS
    <3>1. x - 1 \in a .. b /\ x # 1
      BY <2>2, <2>3
    <3>2. args[x - 1] = "&"
      BY <2>3, <3>1 DEF IsPair
    <3> QED
      BY <3>1, <3>2 DEF IsPair
  <2>5. y = b
    <3>1. ASSUME y < b PROVE FALSE
      <4>1. y + 1 \in a .. b /\ y # n
        BY <1>1, <2>3, <2>4, <3>1
      <4>2. args[y + 1] = "&"
        BY <1>1, <2>3, <4>1 DEF IsPair
      <4> QED
        BY <4>1, <4>2 DEF IsPair
    <3>2. ASSUME b < y PROVE FALSE
      <4>1. b + 1 \in x .. y /\ b # n
        BY <1>1, <2>3, <2>4, <3>2
      <4>2. args[b + 1] = "&"
        BY <1>1, <4>1 DEF IsPair
      <4> QED
        BY <2>3, <4>1, <4>2 DEF IsPair
    <3> QED
      BY <2>3, <3>1, <3>2
  <2> QED
    BY <2>1, <2>3, <2>4, <2>5
<1>3. ASSUME NEW s \in new PROVE s \in Before(args, b + 2, name)
  <2>1. PICK e \in a .. b : Sets(args, a, e, b, name) /\ s = Setting(args, a, e, b)
    OBVIOUS
  <2>2. e \in Nat
    BY <2>1
  <2>3. s \in Settings(args, name)
    BY <2>1, <2>2, SettingsAre
  <2>4. s.at = a /\ a < b + 2
    BY <2>1 DEF Setting
  <2> QED
    BY <2>3, <2>4 DEF Before
<1>4. ASSUME NEW s \in Before(args, a, name) PROVE s \in Before(args, b + 2, name)
  <2>1. PICK x, e, y \in Nat : Sets(args, x, e, y, name) /\ s = Setting(args, x, e, y)
    BY SettingsAre DEF Before
  <2>2. s.at = x /\ x < a
    BY <2>1 DEF Before, Setting
  <2>3. s.at < b + 2
    BY <2>2
  <2> QED
    BY <2>3 DEF Before
<1> HIDE DEF new
<1>5. Before(args, b + 2, name) = Before(args, a, name) \cup new
  <2>1. new \subseteq Before(args, b + 2, name)
    BY <1>3
  <2> QED
    BY <1>2, <1>4, <2>1
<1> QED
  BY <1>5 DEF new

LEMMA LatestIs ==
    ASSUME NEW S, NEW x, x.at \in Nat, \A s \in S : s.at \in Nat /\ s.at < x.at
    PROVE  Latest(S \cup {x}) = x
<1> DEFINE T == S \cup {x}
           P(s) == \A t \in T : t.at <= s.at
           y == CHOOSE s \in T : P(s)
<1>1. x \in T /\ P(x)
  OBVIOUS
<1>2. \E s \in T : P(s)
  BY <1>1
<1>3. y \in T /\ P(y)
  <2> HIDE DEF P, T
  <2> QED
    BY <1>2
<1>4. x.at <= y.at
  BY <1>1, <1>3
<1>5. y = x
  <2> SUFFICES ASSUME y # x PROVE FALSE
    OBVIOUS
  <2>1. y \in S
    BY <1>3
  <2> HIDE DEF y
  <2> QED
    BY <1>4, <2>1
<1> QED
  <2>1. Latest(S \cup {x}) = y
    BY DEF Latest
  <2> QED
    BY <1>5, <2>1

\* Nothing set by the pair from a to b.
LEMMA PairSilent ==
    ASSUME NEW args, IsArgs(args), NEW a \in Nat, NEW b \in Nat, a \in 1 .. b + 1, b <= Len(args),
           IsPair(args, a, b), NEW name, \A e \in a .. b : ~ Sets(args, a, e, b, name)
    PROVE  Before(args, b + 2, name) = Before(args, a, name)
<1> DEFINE new == {s \in {Setting(args, a, e, b) : e \in a .. b} :
                     \E e \in a .. b : Sets(args, a, e, b, name) /\ s = Setting(args, a, e, b)}
<1>1. Before(args, b + 2, name) = Before(args, a, name) \cup new
  BY PairAdds
<1>2. new = {}
  OBVIOUS
<1> HIDE DEF new
<1> QED
  BY <1>1, <1>2

LEMMA PairSets ==
    ASSUME NEW args, IsArgs(args), NEW a \in Nat, NEW b \in Nat, a \in 1 .. b + 1, b <= Len(args),
           IsPair(args, a, b), NEW name, NEW e \in a .. b, Sets(args, a, e, b, name)
    PROVE  /\ Before(args, b + 2, name) # {}
           /\ Before(args, b + 2, name) = Before(args, a, name) \cup {Setting(args, a, e, b)}
           /\ Latest(Before(args, b + 2, name)) = Setting(args, a, e, b)
           /\ \A other : other # name => Before(args, b + 2, other) = Before(args, a, other)
<1>1. \A i \in a .. b : args[i] = "=" <=> i = e
  BY DEF Sets
<1>2. \A f \in a .. b : \A other : Sets(args, a, f, b, other) => f = e
  <2> TAKE f \in a .. b
  <2> TAKE other
  <2>1. Sets(args, a, f, b, other) => args[f] = "="
    BY DEF Sets
  <2> QED
    BY <1>1, <2>1
<1>3. Before(args, b + 2, name) = Before(args, a, name) \cup {Setting(args, a, e, b)}
  BY <1>2, PairAdds
<1>4. \A s \in Before(args, a, name) : s.at \in Nat /\ s.at < a
  <2> TAKE s \in Before(args, a, name)
  <2>1. PICK x, f, y \in Nat : s = Setting(args, x, f, y)
    BY SettingsAre DEF Before
  <2> QED
    BY <2>1 DEF Before, Setting
<1>5. Setting(args, a, e, b).at = a
  BY DEF Setting
<1>6. Latest(Before(args, b + 2, name)) = Setting(args, a, e, b)
  <2>1. PICK x, S : x = Setting(args, a, e, b) /\ S = Before(args, a, name)
    OBVIOUS
  <2>2. x.at \in Nat /\ \A s \in S : s.at \in Nat /\ s.at < x.at
    BY <1>4, <1>5, <2>1
  <2>3. Latest(S \cup {x}) = x
    BY <2>2, LatestIs
  <2> QED
    BY <1>3, <2>1, <2>3
<1>7. ASSUME NEW other, other # name PROVE Before(args, b + 2, other) = Before(args, a, other)
  <2>1. ASSUME NEW f \in a .. b, Sets(args, a, f, b, other) PROVE FALSE
    <3>1. f = e
      BY <1>2, <2>1
    <3>2. \/ e = a /\ other = "start" /\ name = "start"
          \/ e = a + 1 /\ other \in Names[args[a]] /\ name \in Names[args[a]]
      BY <2>1, <3>1 DEF Sets
    <3>3. CASE e = a + 1 /\ other \in Names[args[a]] /\ name \in Names[args[a]]
      <4>1. a \in a .. b /\ a # e /\ a \in 1 .. Len(args)
        BY <3>3, Z3 DEF Sets
      <4>2. args[a] # "=" /\ args[a] # "&"
        BY <1>1, <4>1 DEF IsPair
      <4>3. args[a] \in Words
        BY <4>1, <4>2 DEF IsArgs
      <4> QED
        BY <1>7, <3>3, <4>3, WordsAssumption
    <3> QED
      BY <1>7, <3>2, <3>3
  <2> QED
    BY <2>1, PairSilent
<1> QED
  BY <1>3, <1>6, <1>7

\* What the comparison chain does with the pair from a to b, with its last "=" at e.
LEMMA PairAssigned ==
    ASSUME NEW args, IsArgs(args), NEW a \in Nat, NEW b \in Nat, a \in 1 .. b + 1, b <= Len(args),
           IsPair(args, a, b), NEW e \in a .. b, args[e] = "=",
           \A i \in e + 1 .. b : args[i] # "="
    PROVE  Assign(OptionsTo(args, a), SubSeq(args, a, e - 1), SubSeq(args, e + 1, b))
             = OptionsTo(args, b + 2)
<1> DEFINE key == SubSeq(args, a, e - 1)
           val == SubSeq(args, e + 1, b)
<1>1. PICK n \in Nat : n = Len(args) /\ \A i \in 1 .. n : args[i] \in Words \cup {"=", "&"}
  BY DEF IsArgs
<1>2. e \in Nat /\ b \in 1 .. n /\ a \in 1 .. n
  BY <1>1
<1>3. /\ e = a => key = <<>>
      /\ e # a => Len(key) = e - a /\ key[1] = args[a] /\ key # <<>>
  <2>1. \A i \in a .. e - 1 : args[i] \in Words \cup {"=", "&"}
    BY <1>1, <1>2
  <2>2. /\ Len(key) = IF a <= e - 1 THEN e - 1 - a + 1 ELSE 0
        /\ \A i \in 1 .. e - 1 - a + 1 : key[i] = args[a + i - 1]
        /\ key \in Seq(Words \cup {"=", "&"})
    BY <1>2, <2>1, SubSeqProperties
  <2> HIDE DEF key
  <2>3. CASE e = a
    BY <1>2, <2>2, <2>3
  <2>4. CASE e # a
    <3>1. Len(key) = e - a /\ e - a >= 1
      BY <1>2, <2>2, <2>4
    <3>2. key[1] = args[a + 1 - 1] /\ a + 1 - 1 = a
      BY <1>2, <2>2, <3>1
    <3> QED
      BY <2>4, <3>1, <3>2
  <2> QED
    BY <2>3, <2>4
<1>4. \A name : Sets(args, a, e, b, name) <=> Named(key) = {name}
  <2> TAKE name
  <2> HIDE DEF key
  <2>1. CASE e = a
    <3>1. \A i \in a .. b : args[i] = "=" <=> i = e
      BY <1>2, <2>1
    <3>2. Named(key) = {"start"}
      BY <1>3, <2>1 DEF Named
    <3>3. Sets(args, a, e, b, name) <=> name = "start"
      BY <1>1, <1>2, <2>1, <3>1 DEF Sets
    <3> QED
      BY <3>2, <3>3
  <2>2. CASE e = a + 1 /\ args[a] \in Words
    <3>1. Named(key) = Names[args[a]] /\ \A x, y \in Names[args[a]] : x = y
      <4>1. key # <<>> /\ Len(key) = 1 /\ key[1] = args[a]
        BY <1>2, <1>3, <2>2
      <4>2. Named(key) = Names[key[1]]
        BY <2>2, <4>1 DEF Named
      <4> QED
        BY <2>2, <4>1, <4>2, WordsAssumption
    <3>2. args[a] # "="
      BY <2>2, WordsAssumption
    <3>3. \A i \in a .. b : args[i] = "=" <=> i = e
      <4> TAKE i \in a .. b
      <4>1. i = a \/ i = e \/ i \in e + 1 .. b
        BY <1>2, <2>2
      <4> QED
        BY <1>2, <2>2, <3>2, <4>1
    <3>4. Sets(args, a, e, b, name) <=> name \in Names[args[a]]
      BY <1>1, <1>2, <2>2, <3>3 DEF Sets
    <3> QED
      BY <3>1, <3>4
  <2>3. CASE e # a /\ ~ (e = a + 1 /\ args[a] \in Words)
    <3>1. Named(key) = {}
      <4>1. ASSUME Len(key) = 1, key[1] \in Words PROVE FALSE
        <5>1. e - a = 1 /\ args[a] \in Words
          BY <1>3, <2>3, <4>1
        <5>2. e = a + 1
          BY <1>2, <5>1
        <5> QED
          BY <2>3, <5>1, <5>2
      <4> QED
        BY <1>3, <2>3, <4>1 DEF Named
    <3>2. ~ Sets(args, a, e, b, name)
      <4> SUFFICES ASSUME Sets(args, a, e, b, name) PROVE FALSE
        OBVIOUS
      <4>1. e = a + 1 /\ \A i \in a .. b : args[i] = "=" <=> i = e
        BY <2>3 DEF Sets
      <4>2. a \in a .. b /\ a # e /\ args[a] # "&"
        BY <1>2, <4>1 DEF IsPair
      <4>3. args[a] \in Words
        BY <1>1, <1>2, <4>1, <4>2
      <4> QED
        BY <2>3, <4>1, <4>3
    <3> QED
      BY <3>1, <3>2
  <2> QED
    BY <2>1, <2>2, <2>3
<1>5. \A f \in a .. b : \A name : Sets(args, a, f, b, name) => f = e
  BY DEF Sets
<1>6. CASE \E name : Sets(args, a, e, b, name)
  <2>1. PICK name : Sets(args, a, e, b, name)
    BY <1>6
  <2>2. Named(key) = {name}
    BY <1>4, <2>1
  <2>3. name \in Keys
    <3>1. name = "start" \/ (name \in Names[args[a]] /\ e = a + 1)
      BY <2>1 DEF Sets
    <3>2. CASE name \in Names[args[a]] /\ e = a + 1
      <4>1. a \in a .. b /\ a # e /\ args[a] # "&"
        BY <1>2, <3>2 DEF IsPair
      <4>2. args[a] # "="
        BY <2>1, <4>1 DEF Sets
      <4> QED
        BY <1>1, <1>2, <3>2, <4>1, <4>2, WordsAssumption
    <3> QED
      BY <3>1, <3>2 DEF Keys
  <2>4. /\ Before(args, b + 2, name) # {}
        /\ Before(args, b + 2, name) = Before(args, a, name) \cup {Setting(args, a, e, b)}
        /\ Latest(Before(args, b + 2, name)) = Setting(args, a, e, b)
        /\ \A other : other # name => Before(args, b + 2, other) = Before(args, a, other)
    BY <2>1, PairSets
  <2>5. Setting(args, a, e, b).val = val
    BY DEF Setting
  <2>6. \A d : NumberOf(Before(args, b + 2, name), d) = NumberIn(val)
    BY <2>4, <2>5 DEF NumberOf
  <2>7. name = "input" =>
          ((\E s \in Before(args, b + 2, "input") : s.val = <<>> \/ s.val[1] \in Flv)
             <=> \/ val = <<>> \/ val[1] \in Flv
                 \/ \E s \in Before(args, a, "input") : s.val = <<>> \/ s.val[1] \in Flv)
    BY <2>4, <2>5
  <2> HIDE DEF key, val
  <2>8. PICK o, p : o = OptionsTo(args, a) /\ p = OptionsTo(args, b + 2)
    OBVIOUS
  <2>9. p = Assign(o, key, val)
    <3>1. CASE name = "start"
      <4>1. /\ Before(args, b + 2, "end") = Before(args, a, "end")
            /\ Before(args, b + 2, "bitrate") = Before(args, a, "bitrate")
            /\ Before(args, b + 2, "video") = Before(args, a, "video")
            /\ Before(args, b + 2, "audio") = Before(args, a, "audio")
            /\ Before(args, b + 2, "length") = Before(args, a, "length")
            /\ Before(args, b + 2, "hash") = Before(args, a, "hash")
            /\ Before(args, b + 2, "input") = Before(args, a, "input")
        BY <2>4, <3>1
      <4>2. p = [o EXCEPT !.start = NumberIn(val)]
        BY <2>6, <2>8, <3>1, <4>1 DEF OptionsTo
      <4> QED
        BY <2>2, <3>1, <4>2 DEF Assign
    <3>2. CASE name = "end"
      <4>1. /\ Before(args, b + 2, "start") = Before(args, a, "start")
            /\ Before(args, b + 2, "bitrate") = Before(args, a, "bitrate")
            /\ Before(args, b + 2, "video") = Before(args, a, "video")
            /\ Before(args, b + 2, "audio") = Before(args, a, "audio")
            /\ Before(args, b + 2, "length") = Before(args, a, "length")
            /\ Before(args, b + 2, "hash") = Before(args, a, "hash")
            /\ Before(args, b + 2, "input") = Before(args, a, "input")
        BY <2>4, <3>2
      <4>2. p = [o EXCEPT !.end = NumberIn(val)]
        BY <2>6, <2>8, <3>2, <4>1 DEF OptionsTo
      <4> QED
        BY <2>2, <3>2, <4>2 DEF Assign
    <3>3. CASE name = "bitrate"
      <4>1. /\ Before(args, b + 2, "start") = Before(args, a, "start")
            /\ Before(args, b + 2, "end") = Before(args, a, "end")
            /\ Before(args, b + 2, "video") = Before(args, a, "video")
            /\ Before(args, b + 2, "audio") = Before(args, a, "audio")
            /\ Before(args, b + 2, "length") = Before(args, a, "length")
            /\ Before(args, b + 2, "hash") = Before(args, a, "hash")
            /\ Before(args, b + 2, "input") = Before(args, a, "input")
        BY <2>4, <3>3
      <4>2. p = [o EXCEPT !.fragment_bitrate = NumberIn(val)]
        BY <2>6, <2>8, <3>3, <4>1 DEF OptionsTo
      <4> QED
        BY <2>2, <3>3, <4>2 DEF Assign
    <3>4. CASE name = "video"
      <4>1. /\ Before(args, b + 2, "start") = Before(args, a, "start")
            /\ Before(args, b + 2, "end") = Before(args, a, "end")
            /\ Before(args, b + 2, "bitrate") = Before(args, a, "bitrate")
            /\ Before(args, b + 2, "audio") = Before(args, a, "audio")
            /\ Before(args, b + 2, "length") = Before(args, a, "length")
            /\ Before(args, b + 2, "hash") = Before(args, a, "hash")
            /\ Before(args, b + 2, "input") = Before(args, a, "input")
        BY <2>4, <3>4
      <4>2. p = [o EXCEPT !.fragments = 1, !.fragment_start = NumberIn(val)]
        <5>1. /\ Before(args, b + 2, "video") # {}
              /\ NumberOf(Before(args, b + 2, "video"), 0) = NumberIn(val)
          BY <2>4, <2>6, <3>4
        <5>2. p = [o EXCEPT !.fragments = p.fragments, !.fragment_start = p.fragment_start]
          <6> DEFINE R(u, w) ==
                [start |-> o.start, end |-> o.end, fragment_bitrate |-> o.fragment_bitrate,
                 fragments |-> u, fragment_start |-> w, fragment_track_id |-> o.fragment_track_id,
                 length |-> o.length, hash |-> o.hash, input_format |-> o.input_format]
          <6>1. o = R(o.fragments, o.fragment_start)
            BY <2>8 DEF OptionsTo
          <6>2. p = R(p.fragments, p.fragment_start)
            BY <2>8, <4>1 DEF OptionsTo
          <6>3. PICK m : m = [o EXCEPT !.fragments = p.fragments]
            OBVIOUS
          <6>4. m = R(p.fragments, o.fragment_start)
            BY <6>1, <6>3
          <6>5. p = [m EXCEPT !.fragment_start = p.fragment_start]
            BY <6>2, <6>4
          <6> HIDE DEF R
          <6> QED
            BY <6>3, <6>5
        <5>3. p.fragments = 1 /\ p.fragment_start = NumberIn(val)
          BY <2>8, <5>1 DEF OptionsTo
        <5> QED
          BY <5>2, <5>3
      <4> QED
        BY <2>2, <3>4, <4>2 DEF Assign
    <3>5. CASE name = "audio"
      <4>1. /\ Before(args, b + 2, "start") = Before(args, a, "start")
            /\ Before(args, b + 2, "end") = Before(args, a, "end")
            /\ Before(args, b + 2, "bitrate") = Before(args, a, "bitrate")
            /\ Before(args, b + 2, "video") = Before(args, a, "video")
            /\ Before(args, b + 2, "length") = Before(args, a, "length")
            /\ Before(args, b + 2, "hash") = Before(args, a, "hash")
            /\ Before(args, b + 2, "input") = Before(args, a, "input")
        BY <2>4, <3>5
      <4>2. p = [o EXCEPT !.fragment_track_id = NumberIn(val)]
        BY <2>6, <2>8, <3>5, <4>1 DEF OptionsTo
      <4> QED
        BY <2>2, <3>5, <4>2 DEF Assign
    <3>6. CASE name = "length"
      <4>1. /\ Before(args, b + 2, "start") = Before(args, a, "start")
            /\ Before(args, b + 2, "end") = Before(args, a, "end")
            /\ Before(args, b + 2, "bitrate") = Before(args, a, "bitrate")
            /\ Before(args, b + 2, "video") = Before(args, a, "video")
            /\ Before(args, b + 2, "audio") = Before(args, a, "audio")
            /\ Before(args, b + 2, "hash") = Before(args, a, "hash")
            /\ Before(args, b + 2, "input") = Before(args, a, "input")
        BY <2>4, <3>6
      <4>2. p = [o EXCEPT !.length = NumberIn(val)]
        BY <2>6, <2>8, <3>6, <4>1 DEF OptionsTo
      <4> QED
        BY <2>2, <3>6, <4>2 DEF Assign
    <3>7. CASE name = "hash"
      <4>1. /\ Before(args, b + 2, "start") = Before(args, a, "start")
            /\ Before(args, b + 2, "end") = Before(args, a, "end")
            /\ Before(args, b + 2, "bitrate") = Before(args, a, "bitrate")
            /\ Before(args, b + 2, "video") = Before(args, a, "video")
            /\ Before(args, b + 2, "audio") = Before(args, a, "audio")
            /\ Before(args, b + 2, "length") = Before(args, a, "length")
            /\ Before(args, b + 2, "input") = Before(args, a, "input")
        BY <2>4, <3>7
      <4>2. p = [o EXCEPT !.hash = val]
        BY <2>4, <2>5, <2>8, <3>7, <4>1 DEF OptionsTo
      <4> QED
        BY <2>2, <3>7, <4>2 DEF Assign
    <3>8. CASE name = "input"
      <4>1. /\ Before(args, b + 2, "start") = Before(args, a, "start")
            /\ Before(args, b + 2, "end") = Before(args, a, "end")
            /\ Before(args, b + 2, "bitrate") = Before(args, a, "bitrate")
            /\ Before(args, b + 2, "video") = Before(args, a, "video")
            /\ Before(args, b + 2, "audio") = Before(args, a, "audio")
            /\ Before(args, b + 2, "length") = Before(args, a, "length")
            /\ Before(args, b + 2, "hash") = Before(args, a, "hash")
        BY <2>4, <3>8
      <4>2. p = [o EXCEPT !.input_format = IF val = <<>> \/ val[1] \in Flv THEN "flv" ELSE @]
        <5>1. p = [o EXCEPT !.input_format = p.input_format]
          BY <2>8, <4>1 DEF OptionsTo
        <5>2. p.input_format = IF val = <<>> \/ val[1] \in Flv THEN "flv" ELSE o.input_format
          <6> DEFINE had == \E s \in Before(args, a, "input") : s.val = <<>> \/ s.val[1] \in Flv
                     has == \E s \in Before(args, b + 2, "input") : s.val = <<>> \/ s.val[1] \in Flv
          <6>1. has <=> val = <<>> \/ val[1] \in Flv \/ had
            BY <2>7, <3>8
          <6>2. o.input_format = (IF had THEN "flv" ELSE "mp4") /\ p.input_format = IF has THEN "flv" ELSE "mp4"
            BY <2>8 DEF OptionsTo
          <6> HIDE DEF had, has
          <6> QED
            BY <6>1, <6>2
        <5> QED
          BY <5>1, <5>2
      <4>3. [o EXCEPT !.input_format = @] = o
        BY <2>8 DEF OptionsTo
      <4>4. CASE val = <<>> \/ val[1] \in Flv
        BY <2>2, <3>8, <4>2, <4>4 DEF Assign
      <4>5. CASE ~ (val = <<>> \/ val[1] \in Flv)
        <5>1. p = o
          BY <4>2, <4>3, <4>5
        <5>2. Assign(o, key, val) = o
          BY <2>2, <3>8, <4>5 DEF Assign
        <5> QED
          BY <5>1, <5>2
      <4> QED
        BY <4>4, <4>5
    <3> QED
      BY <2>3, <3>1, <3>2, <3>3, <3>4, <3>5, <3>6, <3>7, <3>8 DEF Keys
  <2> QED
    BY <2>8, <2>9 DEF key, val
<1>7. CASE \A name : ~ Sets(args, a, e, b, name)
  <2>1. \A name : Before(args, b + 2, name) = Before(args, a, name)
    BY <1>5, <1>7, PairSilent
  <2>2. OptionsTo(args, b + 2) = OptionsTo(args, a)
    BY <2>1 DEF OptionsTo
  <2>3. \A name : Named(key) # {name}
    BY <1>4, <1>7
  <2> HIDE DEF key, val
  <2>4. Assign(OptionsTo(args, a), key, val) = OptionsTo(args, a)
    BY <2>3 DEF Assign
  <2> QED
    BY <2>2, <2>4 DEF key, val
<1> QED
  BY <1>6, <1>7

\* The loop's state, and what one token makes of it.
Loop(k, v, l, b, o) == [key |-> k, val |-> v, key_len |-> l, is_key |-> b, options |-> o]

Yes == TRUE
No == FALSE

LEMMA YesNo == Yes \in BOOLEAN /\ No \in BOOLEAN /\ (Yes <=> TRUE) /\ (No <=> FALSE)
BY DEF Yes, No

LEMMA PassEquals ==
    ASSUME NEW args, IsArgs(args), NEW i \in 1 .. Len(args), NEW k, NEW v, NEW l, NEW b, NEW o,
           args[i] = "="
    PROVE  Pass(args, Loop(k, v, l, b, o), i) = Loop(k, i + 1, i - k, No, o)
<1>0. PICK s : s = Loop(k, v, l, b, o)
  OBVIOUS
<1>1. s.key = k
  BY <1>0 DEF Loop
<1>2. Pass(args, s, i) = [s EXCEPT !.val = i + 1, !.key_len = i - s.key, !.is_key = No]
  BY DEF Pass, No
<1>3. Pass(args, s, i) = [s EXCEPT !.val = i + 1, !.key_len = i - k, !.is_key = No]
  BY <1>1, <1>2
<1>4. PICK m : m = [s EXCEPT !.val = i + 1]
  OBVIOUS
<1>5. m = Loop(k, i + 1, l, b, o)
  BY <1>0, <1>4 DEF Loop
<1>6. PICK q : q = [m EXCEPT !.key_len = i - k]
  OBVIOUS
<1>7. q = Loop(k, i + 1, i - k, b, o)
  BY <1>5, <1>6 DEF Loop
<1>8. [q EXCEPT !.is_key = No] = Loop(k, i + 1, i - k, No, o)
  BY <1>7 DEF Loop
<1> QED
  BY <1>0, <1>3, <1>4, <1>6, <1>8

LEMMA NextPairIs ==
    ASSUME NEW i \in Nat, NEW k, NEW v, NEW l, NEW b, NEW o
    PROVE  NextPair(Loop(k, v, l, b, o), i) = Loop(i + 1, v, l, Yes, o)
<1>1. PICK q : q = Loop(k, v, l, b, o)
  OBVIOUS
<1>2. NextPair(q, i) = [q EXCEPT !.key = i + 1, !.is_key = Yes]
  BY DEF NextPair, Yes
<1>3. PICK m : m = [q EXCEPT !.key = i + 1]
  OBVIOUS
<1>4. m = Loop(i + 1, v, l, b, o)
  BY <1>1, <1>3 DEF Loop
<1>5. [m EXCEPT !.is_key = Yes] = Loop(i + 1, v, l, Yes, o)
  BY <1>4 DEF Loop
<1> QED
  BY <1>1, <1>2, <1>3, <1>5

\* In front of token i: which pair it is in, whether it has an "=" so far and
\* where the last one is; the pairs before have set what they set.
Where(args, i, k, v, l, b, e) ==
    /\ k \in 1 .. i /\ (k = 1 \/ (k \in 2 .. Len(args) + 1 /\ args[k - 1] = "&") \/ k = Len(args) + 2)
    /\ \A j \in k .. i - 1 : j <= Len(args) /\ args[j] # "&"
    /\ b => \A j \in k .. i - 1 : args[j] # "="
    /\ ~ b => /\ e \in k .. i - 1 /\ args[e] = "=" /\ \A j \in e + 1 .. i - 1 : args[j] # "="
              /\ v = e + 1 /\ l = e - k

InPair(args, i, s) ==
    \E k, v, l, e \in Nat : \E b :
        s = Loop(k, v, l, b, OptionsTo(args, k)) /\ Where(args, i, k, v, l, b, e)

LEMMA InFirstPair ==
    ASSUME NEW args, IsArgs(args)
    PROVE  InPair(args, 1, AtFirst)
<1>1. \A name : Before(args, 1, name) = {}
  <2> SUFFICES ASSUME NEW name, NEW s \in Before(args, 1, name) PROVE FALSE
    OBVIOUS
  <2>1. PICK a, e, b \in Nat : Sets(args, a, e, b, name) /\ s = Setting(args, a, e, b)
    BY SettingsAre DEF Before
  <2>2. s.at = a /\ a < 1 /\ a \in 1 .. Len(args)
    BY <2>1 DEF Before, Setting, Sets
  <2> QED
    BY <2>2
<1>2. OptionsTo(args, 1) = Defaults
  BY <1>1 DEF OptionsTo, Defaults, NumberOf
<1>3. AtFirst = Loop(1, 0, 0, Yes, OptionsTo(args, 1))
  BY <1>2 DEF AtFirst, Loop, Yes
<1>4. 1 \in 1 .. 1 /\ \A j \in 1 .. 1 - 1 : FALSE
  OBVIOUS
<1> QED
  BY <1>3, <1>4, YesNo DEF InPair, Where

LEMMA PassKeeps ==
    ASSUME NEW args, IsArgs(args), NEW i \in 1 .. Len(args) + 1, NEW s, InPair(args, i, s)
    PROVE  InPair(args, i + 1, Pass(args, s, i))
<1> DEFINE n == Len(args)
<1>1. n \in Nat
  BY DEF IsArgs
<1>b. PICK k, v, l, e \in Nat : \E b :
        s = Loop(k, v, l, b, OptionsTo(args, k)) /\ Where(args, i, k, v, l, b, e)
  BY DEF InPair
<1>2. PICK b : s = Loop(k, v, l, b, OptionsTo(args, k)) /\ Where(args, i, k, v, l, b, e)
  BY <1>b
<1>w. /\ k \in 1 .. i /\ (k = 1 \/ (k \in 2 .. n + 1 /\ args[k - 1] = "&") \/ k = n + 2)
      /\ \A j \in k .. i - 1 : j <= n /\ args[j] # "&"
      /\ b => \A j \in k .. i - 1 : args[j] # "="
      /\ ~ b => /\ e \in k .. i - 1 /\ args[e] = "=" /\ \A j \in e + 1 .. i - 1 : args[j] # "="
                /\ v = e + 1 /\ l = e - k
  BY <1>2 DEF Where
<1>3. /\ i \in Nat /\ i \in 1 .. n + 1 /\ k \in Nat /\ k \in 1 .. i
      /\ k = 1 \/ (k \in 2 .. n + 1 /\ args[k - 1] = "&")
  BY <1>1, <1>w
<1>4. \A j \in k .. i : j = i \/ j \in k .. i - 1
  BY <1>3
<1>5. PICK o : o = OptionsTo(args, k)
  OBVIOUS
<1>6. CASE i <= n /\ args[i] = "="
  <2>1. Pass(args, s, i) = Loop(k, i + 1, i - k, No, o)
    <3>1. i \in 1 .. Len(args) /\ s = Loop(k, v, l, b, o)
      BY <1>1, <1>2, <1>3, <1>5, <1>6
    <3> QED
      BY <1>6, <3>1, PassEquals
  <2>2. i + 1 \in Nat /\ i - k \in Nat /\ k \in 1 .. i + 1 /\ i \in k .. i + 1 - 1
    BY <1>3
  <2>3. \A j \in k .. i + 1 - 1 : j <= n /\ args[j] # "&"
    BY <1>w, <1>3, <1>4, <1>6
  <2>4. \A j \in i + 1 .. i + 1 - 1 : args[j] # "="
    BY <1>3
  <2> QED
    <3>1. Where(args, i + 1, k, i + 1, i - k, No, i)
      BY <1>1, <1>3, <1>6, <2>2, <2>3, <2>4, YesNo DEF Where
    <3> QED
      BY <1>3, <1>5, <2>1, <2>2, <3>1, YesNo DEF InPair
<1>7. CASE i = n + 1 \/ args[i] = "&"
  <2>1. /\ k \in 1 .. i - 1 + 1 /\ i - 1 \in Nat /\ i - 1 <= n /\ i - 1 + 2 = i + 1
    BY <1>3
  <2>2. IsPair(args, k, i - 1)
    <3>1. i - 1 = n \/ args[i - 1 + 1] = "&"
      BY <1>3, <1>7
    <3> QED
      BY <1>1, <1>w, <1>3, <3>1 DEF IsPair
  <2>6. PICK p : /\ p = IF b THEN o ELSE Assign(o, SubSeq(args, k, k + l - 1), SubSeq(args, v, i - 1))
                 /\ Pass(args, s, i) = Loop(i + 1, v, l, Yes, p)
    <3>1. s = Loop(k, v, l, b, o)
      BY <1>2, <1>5
    <3>2. PICK o1 : o1 = Assign(o, SubSeq(args, k, k + l - 1), SubSeq(args, v, i - 1))
      OBVIOUS
    <3>3. ~ (i <= Len(args) /\ args[i] = "=")
      BY <1>1, <1>3, <1>7
    <3>4. s.is_key = b /\ s.key = k /\ s.val = v /\ s.key_len = l /\ s.options = o
      BY <3>1 DEF Loop
    <3>5. Pass(args, s, i) = NextPair(IF s.is_key THEN s ELSE [s EXCEPT !.options = o1], i)
      BY <1>7, <3>2, <3>3, <3>4 DEF Pass
    <3>6. [s EXCEPT !.options = o1] = Loop(k, v, l, b, o1)
      BY <3>1 DEF Loop
    <3>7. \A x : NextPair(Loop(k, v, l, b, x), i) = Loop(i + 1, v, l, Yes, x)
      BY <1>3, NextPairIs
    <3>8. CASE b
      BY <3>1, <3>4, <3>5, <3>7, <3>8, ZenonT(40)
    <3>9. CASE ~ b
      BY <3>2, <3>4, <3>5, <3>6, <3>7, <3>9
    <3> QED
      BY <3>8, <3>9
  <2>3. Pass(args, s, i) = Loop(i + 1, v, l, Yes, OptionsTo(args, i + 1))
    <3>1. CASE b
      <4>1. Pass(args, s, i) = Loop(i + 1, v, l, Yes, o)
        BY <2>6, <3>1
      <4>2. \A f \in k .. i - 1 : \A name : ~ Sets(args, k, f, i - 1, name)
        BY <1>w, <3>1 DEF Sets
      <4>3. \A name : Before(args, i + 1, name) = Before(args, k, name)
        BY <1>1, <2>1, <2>2, <4>2, PairSilent
      <4>4. OptionsTo(args, i + 1) = o
        BY <1>5, <4>3 DEF OptionsTo
      <4> QED
        BY <4>1, <4>4
    <3>2. CASE ~ b
      <4>1. /\ e \in k .. i - 1 /\ args[e] = "=" /\ \A j \in e + 1 .. i - 1 : args[j] # "="
            /\ v = e + 1 /\ l = e - k
        BY <1>w, <3>2
      <4>2. k + l - 1 = e - 1
        BY <1>3, <4>1
      <4>3. Pass(args, s, i) = Loop(i + 1, v, l, Yes,
                                    Assign(o, SubSeq(args, k, e - 1), SubSeq(args, e + 1, i - 1)))
        BY <2>6, <3>2, <4>1, <4>2
      <4>4. Assign(OptionsTo(args, k), SubSeq(args, k, e - 1), SubSeq(args, e + 1, i - 1))
              = OptionsTo(args, i - 1 + 2)
        BY <1>1, <1>3, <2>1, <2>2, <4>1, PairAssigned
      <4> QED
        BY <1>5, <2>1, <4>3, <4>4
    <3> QED
      BY <3>1, <3>2
  <2>4. i + 1 \in Nat /\ i + 1 \in 1 .. i + 1 /\ \A j \in i + 1 .. i + 1 - 1 : FALSE
    BY <1>3
  <2>5. (i + 1 \in 2 .. n + 1 /\ args[i + 1 - 1] = "&") \/ i + 1 = n + 2
    BY <1>3, <1>7
  <2> QED
    <3>1. Where(args, i + 1, i + 1, v, l, Yes, e)
      BY <1>1, <2>4, <2>5, YesNo DEF Where
    <3>2. PICK q, h : q = Pass(args, s, i) /\ h = i + 1
      OBVIOUS
    <3>3. q = Loop(h, v, l, Yes, OptionsTo(args, h)) /\ h \in Nat /\ Where(args, h, h, v, l, Yes, e)
      BY <2>3, <2>4, <3>1, <3>2
    <3>4. InPair(args, h, q)
      BY <3>3, YesNo DEF InPair
    <3> QED
      BY <3>2, <3>4
<1>8. CASE i <= n /\ args[i] # "=" /\ args[i] # "&"
  <2>1. Pass(args, s, i) = s
    BY <1>8 DEF Pass
  <2>2. \A j \in k .. i + 1 - 1 : j <= n /\ args[j] # "&"
    BY <1>w, <1>3, <1>4, <1>8
  <2>3. k \in 1 .. i + 1
    BY <1>3
  <2>4. b => \A j \in k .. i + 1 - 1 : args[j] # "="
    BY <1>w, <1>3, <1>4, <1>8
  <2>5. ~ b => /\ e \in k .. i + 1 - 1 /\ args[e] = "=" /\ \A j \in e + 1 .. i + 1 - 1 : args[j] # "="
               /\ v = e + 1 /\ l = e - k
    <3> SUFFICES ASSUME ~ b
                 PROVE  e \in k .. i + 1 - 1 /\ args[e] = "=" /\ \A j \in e + 1 .. i + 1 - 1 : args[j] # "="
      BY <1>w
    <3>1. e \in k .. i - 1 /\ args[e] = "=" /\ \A j \in e + 1 .. i - 1 : args[j] # "="
      BY <1>w
    <3>2. \A j \in e + 1 .. i + 1 - 1 : j = i \/ j \in e + 1 .. i - 1
      BY <1>3
    <3>3. e \in k .. i + 1 - 1
      BY <1>3, <3>1
    <3> QED
      BY <1>8, <3>1, <3>2, <3>3
  <2> QED
    <3>1. Where(args, i + 1, k, v, l, b, e)
      BY <1>1, <1>w, <1>3, <2>2, <2>3, <2>4, <2>5 DEF Where
    <3> QED
      BY <1>2, <2>1, <3>1 DEF InPair
<1>9. i = n + 1 \/ i <= n
  BY <1>3
<1> QED
  BY <1>6, <1>7, <1>8, <1>9

\* The states of the loop in front of the first m tokens.
Passes(args, m, f) ==
    f = [i \in 1 .. m |-> IF i = 1 THEN AtFirst ELSE Pass(args, f[i - 1], i - 1)]

LEMMA PassesOneMore ==
    ASSUME NEW args, NEW m \in Nat \ {0}, NEW f, Passes(args, m, f)
    PROVE  \E g : Passes(args, m + 1, g)
<1> DEFINE g == [i \in 1 .. m + 1 |-> IF i <= m THEN f[i] ELSE Pass(args, f[m], m)]
           h == [i \in 1 .. m + 1 |-> IF i = 1 THEN AtFirst ELSE Pass(args, g[i - 1], i - 1)]
<1>1. \A i \in 1 .. m : f[i] = IF i = 1 THEN AtFirst ELSE Pass(args, f[i - 1], i - 1)
  BY DEF Passes
<1>2. ASSUME NEW i \in 1 .. m + 1
      PROVE  g[i] = IF i = 1 THEN AtFirst ELSE Pass(args, g[i - 1], i - 1)
  <2>1. CASE i = 1
    BY <1>1, <2>1
  <2>2. CASE i # 1 /\ i <= m
    <3>1. i \in 1 .. m /\ i - 1 \in 1 .. m + 1 /\ i - 1 <= m
      BY <2>2
    <3>2. g[i] = f[i] /\ g[i - 1] = f[i - 1]
      BY <2>2, <3>1
    <3> HIDE DEF g
    <3> QED
      BY <1>1, <2>2, <3>1, <3>2
  <2>3. CASE i = m + 1
    <3>1. m \in 1 .. m + 1 /\ i - 1 = m /\ i # 1
      BY <2>3
    <3>2. g[m] = f[m] /\ g[i] = Pass(args, f[m], m)
      BY <2>3, <3>1
    <3> HIDE DEF g
    <3> QED
      BY <3>1, <3>2
  <2>4. i = 1 \/ (i # 1 /\ i <= m) \/ i = m + 1
    OBVIOUS
  <2> QED
    BY <2>1, <2>2, <2>3, <2>4
<1>3. g = h
  <2>1. \A i \in 1 .. m + 1 : g[i] = h[i]
    <3> HIDE DEF g
    <3> QED
      BY <1>2
  <2>2. g = [i \in 1 .. m + 1 |-> g[i]] /\ h = [i \in 1 .. m + 1 |-> h[i]]
    OBVIOUS
  <2> HIDE DEF g, h
  <2> QED
    BY <2>1, <2>2
<1> QED
  BY <1>3 DEF Passes

LEMMA PassesExist ==
    ASSUME NEW args, NEW m \in Nat \ {0}
    PROVE  \E f : Passes(args, m, f)
<1> DEFINE none == {k \in Nat \ {0} : \A f : ~ Passes(args, k, f)}
<1> SUFFICES ASSUME none # {} PROVE FALSE
  OBVIOUS
<1>1. PICK k \in none : \A j \in none : k <= j
  <2>1. none \in SUBSET Nat
    OBVIOUS
  <2> HIDE DEF none
  <2> QED
    BY <2>1, LeastNumber
<1>2. CASE k = 1
  <2>1. Passes(args, 1, [i \in 1 .. 1 |-> AtFirst])
    <3> DEFINE one == [i \in 1 .. 1 |-> AtFirst]
               same == [i \in 1 .. 1 |-> IF i = 1 THEN AtFirst ELSE Pass(args, one[i - 1], i - 1)]
    <3>1. \A i \in 1 .. 1 : i = 1
      OBVIOUS
    <3>2. one = same
      BY <3>1
    <3> QED
      BY <3>2 DEF Passes
  <2> QED
    BY <1>2, <2>1
<1>3. CASE k # 1
  <2>1. k - 1 \in Nat \ {0} /\ k - 1 + 1 = k /\ ~ (k <= k - 1)
    BY <1>3
  <2>2. k - 1 \notin none
    BY <1>1, <2>1
  <2>3. PICK f : Passes(args, k - 1, f)
    BY <2>1, <2>2
  <2>4. \E g : Passes(args, k - 1 + 1, g)
    BY <2>1, <2>3, PassesOneMore
  <2> QED
    BY <2>1, <2>4
<1> QED
  BY <1>2, <1>3

\* The one pass over the arguments and the reading of them pair by pair agree.
LEMMA ScanIs ==
    ASSUME NEW args, IsArgs(args)
    PROVE  Scan(args) = AsNamed(args)
<1> DEFINE n == Len(args)
           from == CHOOSE f : Passes(args, n + 2, f)
<1>1. n \in Nat /\ n + 2 \in Nat \ {0}
  BY DEF IsArgs
<1>2. Scan(args) = from[n + 2].options
  BY DEF Scan, Passes
<1>3. Passes(args, n + 2, from)
  BY <1>1, PassesExist
<1> HIDE DEF from
<1>4. /\ from[1] = AtFirst
      /\ \A i \in 2 .. n + 2 : from[i] = Pass(args, from[i - 1], i - 1)
  <2>1. \A i \in 1 .. n + 2 : from[i] = IF i = 1 THEN AtFirst ELSE Pass(args, from[i - 1], i - 1)
    BY <1>3 DEF Passes
  <2> QED
    BY <1>1, <2>1
<1>5. InPair(args, n + 2, from[n + 2])
  <2> DEFINE wrong == {i \in 1 .. n + 2 : ~ InPair(args, i, from[i])}
  <2> SUFFICES ASSUME wrong # {} PROVE FALSE
    BY <1>1
  <2>1. PICK i \in wrong : \A j \in wrong : i <= j
    <3>1. wrong \in SUBSET Nat
      BY <1>1
    <3> HIDE DEF wrong
    <3> QED
      BY <3>1, LeastNumber
  <2>2. i # 1
    BY <1>4, InFirstPair
  <2>3. /\ i - 1 \in 1 .. n + 1 /\ i - 1 \in 1 .. n + 2 /\ i - 1 + 1 = i /\ ~ (i <= i - 1)
        /\ i \in 2 .. n + 2
    BY <1>1, <2>2
  <2>4. InPair(args, i - 1, from[i - 1])
    BY <2>1, <2>3
  <2>5. InPair(args, i - 1 + 1, Pass(args, from[i - 1], i - 1))
    BY <2>3, <2>4, PassKeeps
  <2>6. from[i] = Pass(args, from[i - 1], i - 1)
    BY <1>4, <2>3
  <2> QED
    BY <2>3, <2>5, <2>6
<1>6. from[n + 2].options = OptionsTo(args, n + 2)
  <2>1. PICK k, v, l, e \in Nat : \E b :
          from[n + 2] = Loop(k, v, l, b, OptionsTo(args, k)) /\ Where(args, n + 2, k, v, l, b, e)
    BY <1>5 DEF InPair
  <2>2. PICK b : from[n + 2] = Loop(k, v, l, b, OptionsTo(args, k)) /\ Where(args, n + 2, k, v, l, b, e)
    BY <2>1
  <2>3. k \in 1 .. n + 2 /\ \A j \in k .. n + 2 - 1 : j <= n
    BY <2>2 DEF Where
  <2>4. k = n + 2
    <3> SUFFICES ASSUME k # n + 2 PROVE FALSE
      OBVIOUS
    <3>1. n + 1 \in k .. n + 2 - 1 /\ ~ (n + 1 <= n)
      BY <1>1, <2>3
    <3> QED
      BY <2>3, <3>1
  <2>5. from[n + 2].options = OptionsTo(args, k)
    BY <2>2 DEF Loop
  <2> QED
    BY <2>4, <2>5
<1>7. \A name : Before(args, n + 2, name) = Settings(args, name)
  <2> SUFFICES ASSUME NEW name, NEW s \in Settings(args, name) PROVE s.at < n + 2
    BY DEF Before
  <2>1. PICK a, e, b \in Nat : Sets(args, a, e, b, name) /\ s = Setting(args, a, e, b)
    BY SettingsAre
  <2>2. s.at = a /\ a \in 1 .. n
    BY <2>1 DEF Sets, Setting
  <2> QED
    BY <1>1, <2>2
<1>8. OptionsTo(args, n + 2) = AsNamed(args)
  <2>1. \A name, default : NumberOf(Settings(args, name), default) = ValueOf(args, name, default)
    BY DEF NumberOf, ValueOf
  <2>2. PICK o, p : o = OptionsTo(args, n + 2) /\ p = AsNamed(args)
    OBVIOUS
  <2>3. /\ o.start = p.start /\ o.end = p.end /\ o.fragment_bitrate = p.fragment_bitrate
        /\ o.fragments = p.fragments /\ o.fragment_start = p.fragment_start
        /\ o.fragment_track_id = p.fragment_track_id /\ o.length = p.length
    BY <1>7, <2>1, <2>2 DEF OptionsTo, AsNamed
  <2>4. o.hash = p.hash
    <3>1. PICK S : S = Settings(args, "hash") /\ S = Before(args, n + 2, "hash")
      BY <1>7
    <3>2. p.hash = IF S = {} THEN NoHash ELSE Latest(S).val
      BY <2>2, <3>1 DEF AsNamed
    <3>3. o.hash = IF S = {} THEN NoHash ELSE Latest(S).val
      BY <2>2, <3>1 DEF OptionsTo
    <3> QED
      BY <3>2, <3>3
  <2>5. o.input_format = p.input_format
    BY <1>7, <2>2 DEF OptionsTo, AsNamed
  <2> DEFINE R(r) ==
        [start |-> r.start, end |-> r.end, fragment_bitrate |-> r.fragment_bitrate,
         fragments |-> r.fragments, fragment_start |-> r.fragment_start,
         fragment_track_id |-> r.fragment_track_id, length |-> r.length, hash |-> r.hash,
         input_format |-> r.input_format]
  <2>6. o = R(o)
    BY <2>2 DEF OptionsTo
  <2>7. p = R(p)
    BY <2>2 DEF AsNamed
  <2> QED
    BY <2>2, <2>3, <2>4, <2>5, <2>6, <2>7
<1> QED
  BY <1>2, <1>6, <1>8

\* Only SetOptions changes the options, and nothing the request.
OptionsInv == request \in Requests /\ OptionsAsNamed

LEMMA OptionsStep == OptionsInv /\ [Next]_vars => OptionsInv'
<1> SUFFICES ASSUME OptionsInv, [Next]_vars PROVE OptionsInv'
  OBVIOUS
<1>1. CASE SetOptions
  <2>1. request' = request /\ pc' = "path" /\ options' = Scan(request.args)
    <3>1. request' = request /\ pc' = "path"
          /\ options' = IF request.args = <<>> THEN Defaults ELSE Scan(request.args)
      BY <1>1 DEF SetOptions
    <3>2. CASE request.args = <<>>
      <4>1. IsArgs(request.args)
        BY RequestsAssumption DEF OptionsInv, IsArgs
      <4>2. Scan(<<>>) = Defaults
        <5>1. \A name : Settings(<<>>, name) = {}
          BY DEF Settings
        <5>2. AsNamed(<<>>) = Defaults
          BY <5>1 DEF AsNamed, Defaults, ValueOf
        <5> QED
          BY <3>2, <4>1, <5>2, ScanIs
      <4> QED
        BY <3>1, <3>2, <4>2
    <3>3. CASE request.args # <<>>
      BY <3>1, <3>3
    <3> QED
      BY <3>2, <3>3
  <2>2. Scan(request.args) = AsNamed(request.args)
    BY RequestsAssumption, ScanIs DEF OptionsInv, IsArgs
  <2> QED
    BY <2>1, <2>2 DEF OptionsInv, OptionsAsNamed
<1>2. CASE UNCHANGED vars
  BY <1>2 DEF vars, OptionsInv, OptionsAsNamed
<1>3. CASE ~ SetOptions /\ Next
  <2>1. request' = request
    BY <1>3 DEF Next, Reject, MapPath, PathCrashes, PathFails, NotOpened, Opened, NoMemory, BoxUnreadable,
       BoxMissing, BoxFound, ReadAtoms, MoovRefused, MoovAccepted, IndexCrashes, Playlist, PlaylistFails, Segment,
       SegmentCrashes, SegmentFails, Close, SendFails, Send, Return, ReturnFailed, Goes
  <2>2. pc' = "answered" \/ (pc \notin {"begin", "answered"} /\ options' = options)
    BY <1>3 DEF Next, Reject, MapPath, PathCrashes, PathFails, NotOpened, Opened, NoMemory, BoxUnreadable,
       BoxMissing, BoxFound, ReadAtoms, MoovRefused, MoovAccepted, IndexCrashes, Playlist, PlaylistFails, Segment,
       SegmentCrashes, SegmentFails, Close, SendFails, Send, Return, ReturnFailed, Goes
  <2> QED
    BY <2>1, <2>2 DEF OptionsInv, OptionsAsNamed
<1> QED
  BY <1>1, <1>2, <1>3

\* For every sequence of arguments the one pass over them sets what the pairs name,
\* each by its own key and value only, and the last of two pairs for an option wins.
THEOREM OptionsNamed == Spec => []OptionsAsNamed
<1>1. Init => OptionsInv
  BY DEF Init, OptionsInv, OptionsAsNamed
<1>2. OptionsInv => OptionsAsNamed
  BY DEF OptionsInv
<1> QED
  BY <1>1, <1>2, OptionsStep, PTL DEF Spec

-------------------------------------------------------------------------------
(* An entry of stsd in which nothing is cut short is parsed: the loops over    *)
(* its boxes, step by step.                                                    *)

\* A loop over boxes, step by step.
ReadBox(read, e, b) ==
    IF read = "vide" THEN VideBox(e, b) ELSE IF read = "soun" THEN Wave(e, b) ELSE Esds(e, b)

BoxStep(read, e, b) ==
    IF ~ e.ok THEN e ELSE IF b.fate = "broken" THEN Refused ELSE ReadBox(read, e, b)

BoxSteps(read, boxes, entry, m, f) ==
    f = [k \in 0 .. m |-> IF k = 0 THEN entry ELSE BoxStep(read, f[k - 1], boxes[k])]

LEMMA BoxStepsExist ==
    ASSUME NEW read, NEW boxes, NEW entry, NEW m \in Nat
    PROVE  \E f : BoxSteps(read, boxes, entry, m, f)
<1> DEFINE none == {k \in Nat : \A f : ~ BoxSteps(read, boxes, entry, k, f)}
<1> SUFFICES ASSUME none # {} PROVE FALSE
  OBVIOUS
<1>1. PICK k \in none : \A j \in none : k <= j
  <2>1. none \in SUBSET Nat
    OBVIOUS
  <2> HIDE DEF none
  <2> QED
    BY <2>1, LeastNumber
<1>2. CASE k = 0
  <2> DEFINE one == [i \in 0 .. 0 |-> entry]
             same == [i \in 0 .. 0 |-> IF i = 0 THEN entry ELSE BoxStep(read, one[i - 1], boxes[i])]
  <2>1. \A i \in 0 .. 0 : i = 0
    OBVIOUS
  <2>2. one = same
    BY <2>1
  <2>3. BoxSteps(read, boxes, entry, 0, one)
    BY <2>2 DEF BoxSteps
  <2> QED
    BY <1>2, <2>3
<1>3. CASE k # 0
  <2>1. k - 1 \in Nat /\ ~ (k <= k - 1)
    BY <1>3
  <2>2. PICK f : BoxSteps(read, boxes, entry, k - 1, f)
    <3>1. k - 1 \notin none
      BY <1>1, <2>1
    <3> QED
      BY <2>1, <3>1
  <2> DEFINE g == [i \in 0 .. k |-> IF i <= k - 1 THEN f[i] ELSE BoxStep(read, f[k - 1], boxes[k])]
             h == [i \in 0 .. k |-> IF i = 0 THEN entry ELSE BoxStep(read, g[i - 1], boxes[i])]
  <2>3. \A i \in 0 .. k - 1 : f[i] = IF i = 0 THEN entry ELSE BoxStep(read, f[i - 1], boxes[i])
    BY <2>2 DEF BoxSteps
  <2>4. ASSUME NEW i \in 0 .. k
        PROVE  g[i] = IF i = 0 THEN entry ELSE BoxStep(read, g[i - 1], boxes[i])
    <3>1. CASE i = 0
      BY <2>1, <2>3, <3>1
    <3>2. CASE i # 0 /\ i <= k - 1
      <4>1. i \in 0 .. k - 1 /\ i - 1 \in 0 .. k /\ i - 1 <= k - 1
        BY <3>2
      <4>2. g[i] = f[i] /\ g[i - 1] = f[i - 1]
        BY <3>2, <4>1
      <4> HIDE DEF g
      <4> QED
        BY <2>3, <3>2, <4>1, <4>2
    <3>3. CASE i = k
      <4>1. k - 1 \in 0 .. k /\ ~ (k <= k - 1)
        BY <2>1
      <4>2. g[k - 1] = f[k - 1] /\ g[k] = BoxStep(read, f[k - 1], boxes[k])
        BY <4>1
      <4> HIDE DEF g
      <4> QED
        BY <1>3, <3>3, <4>2
    <3>4. i = 0 \/ (i # 0 /\ i <= k - 1) \/ i = k
      OBVIOUS
    <3> QED
      BY <3>1, <3>2, <3>3, <3>4
  <2>5. g = h
    <3>1. \A i \in 0 .. k : g[i] = h[i]
      <4> HIDE DEF g
      <4> QED
        BY <2>4
    <3>2. g = [i \in 0 .. k |-> g[i]] /\ h = [i \in 0 .. k |-> h[i]]
      OBVIOUS
    <3> HIDE DEF g, h
    <3> QED
      BY <3>1, <3>2
  <2>6. BoxSteps(read, boxes, entry, k, g)
    BY <2>5 DEF BoxSteps
  <2> QED
    BY <1>1, <2>6
<1> QED
  BY <1>2, <1>3

\* If every step leaves the entry whole, the loop does.
LEMMA BoxStepsWhole ==
    ASSUME NEW read, NEW boxes, NEW entry, entry.ok, NEW m \in Nat, NEW f,
           BoxSteps(read, boxes, entry, m, f),
           \A k \in 1 .. m : \A e : e.ok => BoxStep(read, e, boxes[k]).ok
    PROVE  f[m].ok
<1> DEFINE bad == {k \in 0 .. m : ~ f[k].ok}
<1> SUFFICES ASSUME bad # {} PROVE FALSE
  OBVIOUS
<1>1. PICK k \in bad : \A j \in bad : k <= j
  <2>1. bad \in SUBSET Nat
    OBVIOUS
  <2> HIDE DEF bad
  <2> QED
    BY <2>1, LeastNumber
<1>2. \A i \in 0 .. m : f[i] = IF i = 0 THEN entry ELSE BoxStep(read, f[i - 1], boxes[i])
  BY DEF BoxSteps
<1>3. k \in 0 .. m /\ ~ f[k].ok
  BY <1>1
<1>4. k # 0
  BY <1>2, <1>3
<1>5. k - 1 \in 0 .. m /\ k \in 1 .. m /\ ~ (k <= k - 1)
  BY <1>3, <1>4
<1>6. f[k - 1].ok
  BY <1>1, <1>5
<1>7. f[k] = BoxStep(read, f[k - 1], boxes[k])
  BY <1>2, <1>3, <1>4
<1> QED
  BY <1>3, <1>5, <1>6, <1>7

\* The loop over boxes ends with the last step.
LEMMA LoopsAre ==
    ASSUME NEW boxes, Len(boxes) \in Nat, NEW entry
    PROVE  /\ \E f : /\ BoxSteps("vide", boxes, entry, Len(boxes), f)
                     /\ OverBoxes(boxes, entry, VideBox) = f[Len(boxes)]
           /\ \E f : /\ BoxSteps("soun", boxes, entry, Len(boxes), f)
                     /\ OverBoxes(boxes, entry, Wave) = f[Len(boxes)]
           /\ \E f : /\ BoxSteps("wave", boxes, entry, Len(boxes), f)
                     /\ OverBoxes(boxes, entry, Esds) = f[Len(boxes)]
<1>1. PICK m \in Nat : m = Len(boxes)
  OBVIOUS
<1>2. \E f : BoxSteps("vide", boxes, entry, m, f) /\ OverBoxes(boxes, entry, VideBox) = f[m]
  <2> DEFINE G(f) == f = [k \in 0 .. m |-> IF k = 0 THEN entry ELSE IF ~ f[k - 1].ok THEN f[k - 1]
                             ELSE IF boxes[k].fate = "broken" THEN Refused ELSE VideBox(f[k - 1], boxes[k])]
             after == CHOOSE f : G(f)
  <2>1. OverBoxes(boxes, entry, VideBox) = after[m]
    BY <1>1 DEF OverBoxes
  <2>2. \A f : G(f) <=> BoxSteps("vide", boxes, entry, m, f)
    BY DEF BoxSteps, BoxStep, ReadBox
  <2> HIDE DEF G
  <2>3. \E f : G(f)
    BY <2>2, BoxStepsExist
  <2>4. G(after)
    BY <2>3
  <2> QED
    BY <2>1, <2>2, <2>4
<1>3. \E f : BoxSteps("soun", boxes, entry, m, f) /\ OverBoxes(boxes, entry, Wave) = f[m]
  <2> DEFINE G(f) == f = [k \in 0 .. m |-> IF k = 0 THEN entry ELSE IF ~ f[k - 1].ok THEN f[k - 1]
                             ELSE IF boxes[k].fate = "broken" THEN Refused ELSE Wave(f[k - 1], boxes[k])]
             after == CHOOSE f : G(f)
  <2>1. OverBoxes(boxes, entry, Wave) = after[m]
    BY <1>1 DEF OverBoxes
  <2>2. \A f : G(f) <=> BoxSteps("soun", boxes, entry, m, f)
    BY DEF BoxSteps, BoxStep, ReadBox
  <2> HIDE DEF G
  <2>3. \E f : G(f)
    BY <2>2, BoxStepsExist
  <2>4. G(after)
    BY <2>3
  <2> QED
    BY <2>1, <2>2, <2>4
<1>4. \E f : BoxSteps("wave", boxes, entry, m, f) /\ OverBoxes(boxes, entry, Esds) = f[m]
  <2> DEFINE G(f) == f = [k \in 0 .. m |-> IF k = 0 THEN entry ELSE IF ~ f[k - 1].ok THEN f[k - 1]
                             ELSE IF boxes[k].fate = "broken" THEN Refused ELSE Esds(f[k - 1], boxes[k])]
             after == CHOOSE f : G(f)
  <2>1. OverBoxes(boxes, entry, Esds) = after[m]
    BY <1>1 DEF OverBoxes
  <2>2. \A f : G(f) <=> BoxSteps("wave", boxes, entry, m, f)
    BY DEF BoxSteps, BoxStep, ReadBox
  <2> HIDE DEF G
  <2>3. \E f : G(f)
    BY <2>2, BoxStepsExist
  <2>4. G(after)
    BY <2>3
  <2> QED
    BY <2>1, <2>2, <2>4
<1> QED
  BY <1>1, <1>2, <1>3, <1>4

LEMMA LoopIs ==
    ASSUME NEW boxes, Len(boxes) \in Nat, NEW entry, entry.ok
    PROVE  /\ (\A k \in 1 .. Len(boxes) : \A e : e.ok => BoxStep("vide", e, boxes[k]).ok)
                => OverBoxes(boxes, entry, VideBox).ok
           /\ (\A k \in 1 .. Len(boxes) : \A e : e.ok => BoxStep("soun", e, boxes[k]).ok)
                => OverBoxes(boxes, entry, Wave).ok
           /\ (\A k \in 1 .. Len(boxes) : \A e : e.ok => BoxStep("wave", e, boxes[k]).ok)
                => OverBoxes(boxes, entry, Esds).ok
<1>1. PICK f : /\ BoxSteps("vide", boxes, entry, Len(boxes), f)
               /\ OverBoxes(boxes, entry, VideBox) = f[Len(boxes)]
  BY LoopsAre
<1>2. PICK g : /\ BoxSteps("soun", boxes, entry, Len(boxes), g)
               /\ OverBoxes(boxes, entry, Wave) = g[Len(boxes)]
  BY LoopsAre
<1>3. PICK h : /\ BoxSteps("wave", boxes, entry, Len(boxes), h)
               /\ OverBoxes(boxes, entry, Esds) = h[Len(boxes)]
  BY LoopsAre
<1>4. PICK m \in Nat : m = Len(boxes)
  OBVIOUS
<1>5. ASSUME \A k \in 1 .. m : \A e : e.ok => BoxStep("vide", e, boxes[k]).ok PROVE f[m].ok
  BY <1>1, <1>4, <1>5, BoxStepsWhole
<1>6. ASSUME \A k \in 1 .. m : \A e : e.ok => BoxStep("soun", e, boxes[k]).ok PROVE g[m].ok
  BY <1>2, <1>4, <1>6, BoxStepsWhole
<1>7. ASSUME \A k \in 1 .. m : \A e : e.ok => BoxStep("wave", e, boxes[k]).ok PROVE h[m].ok
  BY <1>3, <1>4, <1>7, BoxStepsWhole
<1> QED
  BY <1>1, <1>2, <1>3, <1>4, <1>5, <1>6, <1>7

\* An entry in which nothing is cut short is parsed.
LEMMA ListIs ==
    ASSUME NEW s, IsList(s)
    PROVE  Len(s) \in Nat /\ \A k \in 1 .. Len(s) : s[k] \in ToSet(s)
BY DEF IsList, ToSet

LEMMA VideParsed ==
    ASSUME NEW raw, IsEntry(raw), SoundEntry(raw)
    PROVE  ParseVide(raw).ok
<1>1. Fresh.ok
  BY DEF Fresh
<1>2. /\ Len(raw.boxes) \in Nat
      /\ \A k \in 1 .. Len(raw.boxes) : raw.boxes[k] \in ToSet(raw.boxes)
  BY ListIs DEF IsEntry
<1>3. \A b \in ToSet(raw.boxes) : b.fate = "good"
  BY DEF SoundEntry
<1>4. ASSUME NEW b, b.fate = "good", NEW e, e.ok PROVE BoxStep("vide", e, b).ok
  <2>1. BoxStep("vide", e, b) = VideBox(e, b)
    BY <1>4 DEF BoxStep, ReadBox
  <2>2. Esds(e, b) = e
    BY <1>4 DEF Esds
  <2>3. [e EXCEPT !.sps = LastSet(b.sps, @), !.pps = LastSet(b.pps, @)].ok = e.ok
    OBVIOUS
  <2> QED
    BY <1>4, <2>1, <2>2, <2>3 DEF VideBox
<1>5. OverBoxes(raw.boxes, Fresh, VideBox).ok
  BY <1>1, <1>2, <1>3, <1>4, LoopIs
<1>6. raw.fixed
  BY DEF SoundEntry
<1> QED
  BY <1>1, <1>5, <1>6 DEF ParseVide

LEMMA SounParsed ==
    ASSUME NEW raw, IsEntry(raw), SoundEntry(raw)
    PROVE  ParseSoun(raw).ok
<1>1. PICK entry : entry = [Fresh EXCEPT !.channels = IF raw.channels = 3 THEN 6 ELSE raw.channels,
                                         !.rate = raw.rate]
  OBVIOUS
<1>2. entry.ok
  BY <1>1 DEF Fresh
<1>3. /\ Len(raw.boxes) \in Nat
      /\ \A k \in 1 .. Len(raw.boxes) : raw.boxes[k] \in ToSet(raw.boxes)
  BY ListIs DEF IsEntry
<1>4. ASSUME NEW b, b.fate = "good", NEW e PROVE Esds(e, b) = e
  BY <1>4 DEF Esds
<1>5. ASSUME NEW b \in ToSet(raw.boxes), NEW e, e.ok PROVE BoxStep("soun", e, b).ok
  <2>1. b.fate = "good"
    BY DEF SoundEntry
  <2>2. BoxStep("soun", e, b) = Wave(e, b)
    BY <1>5, <2>1 DEF BoxStep, ReadBox
  <2>3. CASE b.type = "wave"
    <3>1. IsList(b.boxes) /\ \A x \in ToSet(b.boxes) : x.fate = "good"
      BY <2>3 DEF IsEntry, SoundEntry
    <3>2. Len(b.boxes) \in Nat /\ \A k \in 1 .. Len(b.boxes) : b.boxes[k].fate = "good"
      BY <3>1, ListIs
    <3>3. ASSUME NEW x, x.fate = "good", NEW d, d.ok PROVE BoxStep("wave", d, x).ok
      BY <1>4, <3>3 DEF BoxStep, ReadBox
    <3>4. OverBoxes(b.boxes, e, Esds).ok
      BY <1>5, <3>2, <3>3, LoopIs
    <3> QED
      BY <2>2, <2>3, <3>4 DEF Wave
  <2>4. CASE b.type # "wave"
    BY <1>4, <1>5, <2>1, <2>2, <2>4 DEF Wave
  <2> QED
    BY <2>3, <2>4
<1>6. OverBoxes(raw.boxes, entry, Wave).ok
  BY <1>2, <1>3, <1>5, LoopIs
<1>7. raw.fixed /\ raw.extended /\ ~ (raw.version > 2)
  <2>1. raw.fixed /\ raw.extended /\ raw.version <= 2
    BY DEF SoundEntry
  <2>2. raw.version \in Nat
    BY DEF IsEntry
  <2> QED
    BY <2>1, <2>2
<1>8. ParseSoun(raw) = IF raw.fourcc = "owma" THEN entry ELSE OverBoxes(raw.boxes, entry, Wave)
  BY <1>1, <1>7 DEF ParseSoun
<1> QED
  BY <1>2, <1>6, <1>8

-------------------------------------------------------------------------------
(* A sound movie is read. *)

\* SoundMovie, as far as it is about moov.
Sound ==
    /\ SoundAtoms(0)
    /\ \A j \in Atoms : Cardinality(Children(j, "trak")) <= MaxTracks
                        /\ Cardinality(Children(j, "trex")) <= MaxTracks
    /\ \E t \in Children(0, "trak") : Played(t)
    /\ \A t \in Children(0, "trak") : Played(t) => HasTables(t)

\* Of the atoms in c before b, each that c has a slot for has filled it, unless
\* it is a track that is not played.
Kept(c, b) ==
    \A j \in 1 .. Len(atoms) :
        atoms[j].up = c /\ j < b /\ atoms[j].type \in Reads[TypeOf(c)].list
            => Held(c, Slot(c, atoms[j].type)) # {} \/ (atoms[j].type = "trak" /\ ~ Played(j))

\* How far the loop of the i-th container being read has come.
Border(i) ==
    IF i < Len(open) THEN open[i + 1] ELSE IF parse = "loop" THEN at ELSE Len(atoms) + 1

OpenNamed ==
    \A i \in 2 .. Len(open) : TypeOf(open[i]) \in Reads[TypeOf(open[i - 1])].list

AttachedKept ==
    \A k \in Atoms : owner[k] # None /\ SlotOf(k) # "unknown" /\ IsContainer(k) => Kept(k, Len(atoms) + 1)

OpenKept == \A i \in 1 .. Len(open) : Kept(open[i], Border(i))

ReadsOn ==
    /\ parse # "refused"
    /\ parse \in {"loop", "ended"} => result
    /\ AttachedKept
    /\ OpenKept

SoundInv == OpenNamed /\ (Sound => ReadsOn)

LEMMA SoundSame ==
    UNCHANGED atoms => /\ Sound' = Sound
                       /\ \A j, type : Children(j, type)' = Children(j, type)
                       /\ \A j : Played(j)' = Played(j)
                       /\ \A j : TypeOf(j)' = TypeOf(j)
<1> SUFFICES ASSUME UNCHANGED atoms
             PROVE  /\ Sound' = Sound
                    /\ \A j, type : Children(j, type)' = Children(j, type)
                    /\ \A j : Played(j)' = Played(j)
                    /\ \A j : TypeOf(j)' = TypeOf(j)
  OBVIOUS
<1>1. \A j, type : Children(j, type)' = Children(j, type)
  BY DEF Children
<1>2. \A j : Played(j)' = Played(j)
  BY <1>1 DEF Played
<1>3. Atoms' = Atoms /\ (\A k : TypeOf(k)' = TypeOf(k)) /\ (\A k : IsContainer(k)' = IsContainer(k))
      /\ \A k : After(k)' = After(k)
  BY TypesSame
<1>4. \A k : Within(k)' = Within(k)
  BY <1>3 DEF Within
<1>5. \A k : HasTables(k)' = HasTables(k)
  BY <1>1, <1>3, <1>4 DEF HasTables
<1>6. SoundAtoms(0)' = SoundAtoms(0)
  BY <1>1, <1>3, <1>4 DEF SoundAtoms
<1> QED
  BY <1>1, <1>2, <1>3, <1>5, <1>6 DEF Sound

\* What soundness says of an atom.
LEMMA SoundIs ==
    ASSUME Sound, IsTree(atoms), NEW k \in 1 .. Len(atoms)
    PROVE  /\ atoms[k].fate \notin {"short", "none", "cut", "broken", "empty"}
           /\ ~ Fails(k)
           /\ TypeOf(k) = "stsd" =>
                /\ atoms[k].entries # <<>>
                /\ \A e \in ToSet(atoms[k].entries) : SoundEntry(e)
<1>1. k \in Within(0) /\ k # 0
  BY DEF Within, Atoms, IsTree
<1>2. SoundAtoms(0)
  BY DEF Sound
<1>3. /\ atoms[k].fate \in {"good", "vide", "soun", "hint", "large"}
      /\ TypeOf(k) = "stsd" =>
           atoms[k].entries # <<>> /\ \A e \in ToSet(atoms[k].entries) : SoundEntry(e)
  BY <1>1, <1>2 DEF SoundAtoms
<1> QED
  BY <1>3 DEF Fails

\* What it says of a container.
LEMMA SoundHolds ==
    ASSUME Sound, NEW c \in Atoms, IsContainer(c)
    PROVE  /\ \A m \in Reads[TypeOf(c)].mandatory : Children(c, m) # {}
           /\ \A i \in c + 1 .. Len(atoms) :
                atoms[i].up = c /\ TypeOf(i) \notin {"trak", "trex"} /\ TypeOf(i) \in Reads[TypeOf(c)].list =>
                    Cardinality(Children(c, TypeOf(i))) = 1
<1>1. c \in Within(0)
  BY DEF Within
<1>2. SoundAtoms(0)
  BY DEF Sound
<1> QED
  BY <1>1, <1>2 DEF SoundAtoms

\* What is held is a child.
LEMMA HeldChild ==
    ASSUME TreeInv, NEW c \in Atoms, NEW slot, slot # "unknown", slot # "stco", NEW j \in Held(c, slot)
    PROVE  /\ j \in 1 .. Len(atoms) /\ atoms[j].up = c /\ j \in Children(c, slot) /\ TypeOf(j) = slot
           /\ slot \in Reads[TypeOf(c)].list /\ owner[j] = c
<1>1. j \in Atoms /\ owner[j] = c /\ Slot(c, TypeOf(j)) = slot /\ c # None
  BY DEF Held, Atoms, None
<1>2. j # 0 /\ atoms[j].up = c
  BY <1>1 DEF TreeInv, OwnedInside
<1>3. j \in 1 .. Len(atoms)
  <2>1. Len(atoms) \in Nat
    BY DEF TreeInv, Path, IsTree
  <2> QED
    BY <1>1, <1>2, <2>1 DEF Atoms
<1>4. TypeOf(j) = slot /\ slot \in Reads[TypeOf(c)].list
  BY <1>1, SlotIs
<1>5. atoms[j].type = slot
  BY <1>2, <1>4 DEF TypeOf
<1> QED
  BY <1>1, <1>2, <1>3, <1>4, <1>5 DEF Children

\* What has been filled stays filled.
Grows == \A x \in Atoms : \A slot : slot # "unknown" /\ Held(x, slot) # {} => Held(x, slot)' # {}

LEMMA ListedKnown ==
    ASSUME NEW c, NEW type, type \in Reads[TypeOf(c)].list
    PROVE  Slot(c, type) # "unknown" \/ ~ IsContainer(c)
<1> SUFFICES ASSUME IsContainer(c) PROVE Slot(c, type) # "unknown"
  OBVIOUS
<1>1. TypeOf(c) \in {"moov", "trak", "edts", "mdia", "minf", "dinf", "stbl", "mvex"}
  BY DEF IsContainer, Containers, Reads
<1>2. type # "unknown"
  BY <1>1 DEF Reads, MoovReads, TrakReads, EdtsReads, MdiaReads, MinfReads, DinfReads, StblReads, MvexReads
<1> QED
  BY <1>2 DEF Slot

LEMMA KeptStands ==
    ASSUME UNCHANGED atoms, Grows, NEW c \in Atoms, IsContainer(c), NEW b, Kept(c, b)
    PROVE  Kept(c, b)'
<1>1. /\ \A j : Played(j)' = Played(j)
      /\ \A j : TypeOf(j)' = TypeOf(j)
      /\ \A x, type : Slot(x, type)' = Slot(x, type)
  BY SoundSame, TypesSame
<1> SUFFICES ASSUME NEW j \in 1 .. Len(atoms), atoms[j].up = c, j < b, atoms[j].type \in Reads[TypeOf(c)].list,
                    ~ (atoms[j].type = "trak" /\ ~ Played(j))
             PROVE  Held(c, Slot(c, atoms[j].type))' # {}
  BY <1>1 DEF Kept
<1>2. PICK slot : slot = Slot(c, atoms[j].type)
  OBVIOUS
<1>3. slot # "unknown" /\ Held(c, slot) # {}
  BY <1>2, ListedKnown DEF Kept
<1>4. Held(c, slot)' # {}
  BY <1>3 DEF Grows
<1>5. Slot(c, atoms[j].type)' = slot
  BY <1>1, <1>2
<1> QED
  BY <1>4, <1>5

\* Behind an atom that is kept, or need not be.
LEMMA KeptBehind ==
    ASSUME IsTree(atoms), NEW k \in 1 .. Len(atoms), NEW c, c = atoms[k].up, Kept(c, k),
           \/ Held(c, Slot(c, atoms[k].type)) # {}
           \/ atoms[k].type \notin Reads[TypeOf(c)].list
           \/ atoms[k].type = "trak" /\ ~ Played(k)
    PROVE  Kept(c, After(k))
<1>1. PICK n \in Nat : n = Len(atoms)
  BY DEF IsTree
<1>2. k \in Atoms /\ c \in 0 .. k - 1
  BY <1>1 DEF IsTree, Atoms
<1>3. PICK d \in k + 1 .. n + 1 : d = After(k) /\ \A j \in k + 1 .. d - 1 : atoms[j].up >= k
  BY <1>1, <1>2, AfterIs
<1> SUFFICES ASSUME NEW j \in 1 .. n, atoms[j].up = c, j < d, atoms[j].type \in Reads[TypeOf(c)].list
             PROVE  Held(c, Slot(c, atoms[j].type)) # {} \/ (atoms[j].type = "trak" /\ ~ Played(j))
  BY <1>1, <1>3 DEF Kept
<1>4. CASE j < k
  BY <1>1, <1>4 DEF Kept
<1>5. CASE j = k
  BY <1>5
<1>6. CASE j > k
  <2>1. j \in k + 1 .. d - 1
    BY <1>6
  <2>2. atoms[j].up >= k
    BY <1>3, <2>1
  <2> QED
    BY <1>2, <2>2
<1> QED
  BY <1>2, <1>4, <1>5, <1>6

\* At the end of c: all that is in it.
LEMMA KeptAll ==
    ASSUME IsTree(atoms), NEW c \in Atoms, Kept(c, After(c))
    PROVE  Kept(c, Len(atoms) + 1)
<1> SUFFICES ASSUME NEW j \in 1 .. Len(atoms), atoms[j].up = c
             PROVE  j < After(c)
  BY DEF Kept
<1> QED
  BY InnerBefore

-------------------------------------------------------------------------------
(* The readers of a sound movie: none of them fails.                           *)

\* The innermost container is one.
LEMMA CurHolds ==
    ASSUME TreeInv, WholeInv, open # <<>>
    PROVE  IsContainer(cur)
<1>1. Len(open) \in 1 .. Len(open)
  BY CurIs DEF TreeInv
<1> QED
  BY <1>1 DEF WholeInv, NoneMissing, Contained, cur

\* The reader of a container in a sound movie finds it whole.
LEMMA SoundWhole ==
    ASSUME TreeInv, WholeInv, SoundInv, Sound, parse = "ended"
    PROVE  Whole(cur)
<1>1. open # <<>> /\ IsTree(atoms) /\ ReadsOn
  BY DEF TreeInv, Place, Path, SoundInv
<1>2. /\ Len(open) \in Nat \ {0} /\ cur \in Atoms /\ Len(atoms) \in Nat
      /\ cur = 0 <=> Len(open) = 1
      /\ IsContainer(cur)
  BY <1>1, CurIs, CurHolds DEF TreeInv
<1>3. Kept(cur, Len(atoms) + 1)
  <2>1. PICK n \in Nat \ {0} : n = Len(open)
    BY <1>2
  <2>2. Border(n) = Len(atoms) + 1
    BY <2>1 DEF Border
  <2>3. n \in 1 .. Len(open) /\ open[n] = cur
    BY <2>1 DEF cur
  <2> QED
    BY <1>1, <2>2, <2>3 DEF ReadsOn, OpenKept
<1>4. result
  BY <1>1 DEF ReadsOn
<1>5. TypeOf(cur) \in {"moov", "trak", "edts", "mdia", "minf", "dinf", "stbl", "mvex"}
  BY <1>2 DEF IsContainer, Containers, Reads
<1>6. TypeOf(cur) = "moov" => cur = 0
  <2> SUFFICES ASSUME cur # 0, TypeOf(cur) = "moov" PROVE FALSE
    OBVIOUS
  <2>1. PICK n \in Nat \ {0} : n = Len(open)
    BY <1>2
  <2>2. n \in 2 .. Len(open) /\ n - 1 \in 1 .. Len(open)
    BY <1>2, <2>1
  <2>3. "moov" \in Reads[TypeOf(open[n - 1])].list
    BY <2>1, <2>2 DEF SoundInv, OpenNamed, cur
  <2>4. IsContainer(open[n - 1])
    BY <2>2 DEF WholeInv, NoneMissing, Contained
  <2> QED
    BY <2>3, <2>4 DEF IsContainer, Containers, Reads, MoovReads, TrakReads, EdtsReads, MdiaReads,
                      MinfReads, DinfReads, StblReads, MvexReads
<1>7. ASSUME NEW slot \in Reads[TypeOf(cur)].mandatory PROVE Held(cur, slot) # {}
  <2>1. slot \in Reads[TypeOf(cur)].list /\ slot # "co64" /\ (slot = "trak" => TypeOf(cur) = "moov")
    BY <1>5 DEF Reads, MoovReads, TrakReads, EdtsReads, MdiaReads, MinfReads, DinfReads,
                StblReads, MvexReads
  <2>2. Slot(cur, slot) = slot
    BY <2>1, SlotIs
  <2>3. PICK j \in Children(cur, slot) : slot = "trak" => Played(j)
    <3>1. CASE slot = "trak"
      <4>1. cur = 0
        BY <1>6, <2>1, <3>1
      <4> QED
        BY <3>1, <4>1 DEF Sound
    <3>2. CASE slot # "trak"
      <4>1. Children(cur, slot) # {}
        BY <1>2, SoundHolds
      <4> QED
        BY <3>2, <4>1
    <3> QED
      BY <3>1, <3>2
  <2>4. j \in 1 .. Len(atoms) /\ atoms[j].up = cur /\ atoms[j].type = slot /\ j < Len(atoms) + 1
    BY <1>2, <2>3 DEF Children
  <2> QED
    BY <1>3, <2>1, <2>2, <2>3, <2>4 DEF Kept
<1>8. StsdParsed(cur)
  <2> SUFFICES ASSUME NEW d \in Follow(cur, <<"mdia", "minf", "stbl", "stsd">>), NEW handler \in Handler(cur)
               PROVE  StsdAccepted(handler, atoms[d].entries)
    BY DEF StsdParsed
  <2>1. PICK s : d \in Held(s, "stsd")
    BY PathFour DEF Step
  <2>2. d \in Atoms /\ TypeOf(d) = "stsd"
    BY <2>1, SlotIs DEF Held
  <2>3. d \in 1 .. Len(atoms) /\ atoms[d].type = "stsd"
    BY <1>2, <2>2 DEF TypeOf, Atoms
  <2>4. PICK entries : entries = atoms[d].entries
    OBVIOUS
  <2>5. IsList(entries) /\ \A e \in ToSet(entries) : IsEntry(e)
    BY <1>1, <2>3, <2>4 DEF IsTree
  <2>6. \A e \in ToSet(entries) : SoundEntry(e)
    BY <1>1, <2>2, <2>3, <2>4, SoundIs
  <2>7. \A i \in 1 .. Len(entries) : entries[i] \in ToSet(entries)
    BY <2>5, ListIs
  <2>8. ASSUME NEW i \in 1 .. Len(entries) PROVE Parsed(handler, entries[i]).ok
    <3>1. PICK e : e = entries[i]
      OBVIOUS
    <3>2. IsEntry(e) /\ SoundEntry(e)
      BY <2>5, <2>6, <2>7, <3>1
    <3>3. ParseVide(e).ok /\ ParseSoun(e).ok
      BY <3>2, VideParsed, SounParsed
    <3> QED
      BY <3>1, <3>3 DEF Parsed
  <2> QED
    BY <2>4, <2>8 DEF StsdAccepted
<1> QED
  BY <1>4, <1>7, <1>8 DEF Whole

\* There is room for a child that has not been attached.
LEMMA SoundRoom ==
    ASSUME TreeInv, Sound, NEW k \in 1 .. Len(atoms), NEW c \in Atoms, c = atoms[k].up, owner[k] = None
    PROVE  ~ Full(c, atoms[k].type)
<1> SUFFICES ASSUME atoms[k].type \in {"trak", "trex"}, Cardinality(Held(c, atoms[k].type)) = MaxTracks
             PROVE  FALSE
  BY DEF Full
<1>1. PICK type \in {"trak", "trex"} : type = atoms[k].type
  OBVIOUS
<1> DEFINE S == Children(c, type)
           T == Held(c, type)
<1>2. k \in S /\ k \notin T
  BY <1>1 DEF Children, Held, None, Atoms
<1>3. T \subseteq S \ {k}
  <2>1. type # "unknown" /\ type # "stco"
    OBVIOUS
  <2> QED
    BY <1>2, <2>1, HeldChild
<1>4. IsFiniteSet(S)
  <2>1. PICK n \in Nat : n = Len(atoms)
    BY DEF TreeInv, Path, IsTree
  <2>2. IsFiniteSet(1 .. n)
    BY <2>1, FS_Interval
  <2>3. S \subseteq 1 .. n
    BY <2>1 DEF Children
  <2> QED
    BY <2>2, <2>3, FS_Subset
<1>5. Cardinality(S) <= MaxTracks /\ Cardinality(T) = MaxTracks
  BY <1>1 DEF Sound
<1> HIDE DEF S, T
<1>6. IsFiniteSet(S \ {k}) /\ Cardinality(S \ {k}) = Cardinality(S) - 1 /\ Cardinality(S) \in Nat
  BY <1>2, <1>4, FS_RemoveElement, FS_CardinalityType
<1>7. Cardinality(T) <= Cardinality(S \ {k})
  BY <1>3, <1>6, FS_Subset
<1> QED
  BY <1>5, <1>6, <1>7, MaxTracksAssumption

\* What a step that attaches k to c leaves.
LEMMA AttachGrows ==
    ASSUME TreeInv, NEW c \in Atoms, NEW k \in 1 .. Len(atoms), owner[k] = None,
           owner' = Attached(c, k), UNCHANGED atoms
    PROVE  /\ Grows /\ k \in Held(c, Slot(c, TypeOf(k)))'
           /\ \A j \in Atoms : owner'[j] # None /\ j # k => owner'[j] = owner[j]
           /\ owner'[k] = c
<1>1. Len(atoms) \in Nat /\ Atoms = 0 .. Len(atoms) /\ k \in Atoms
  BY DEF TreeInv, Path, IsTree, Atoms
<1>0. PICK slotk : slotk = Slot(c, TypeOf(k))
  OBVIOUS
<1> DEFINE gone == IF slotk \in {"trak", "trex", "unknown"} THEN {} ELSE Held(c, slotk)
<1>2. \A j \in Atoms : owner'[j] = IF j = k THEN c ELSE IF j \in gone THEN None ELSE owner[j]
  BY <1>0, AttachedIs
<1>3. \A j \in gone : owner[j] = c /\ Slot(c, TypeOf(j)) = slotk
  BY DEF Held
<1> HIDE DEF gone
<1>4. Atoms' = Atoms /\ \A x, type : Slot(x, type)' = Slot(x, type)
  BY TypesSame
<1>5. \A x, slot : Held(x, slot)' = {j \in Atoms : owner'[j] = x /\ Slot(x, TypeOf(j)) = slot}
  BY <1>4, TypesSame DEF Held
<1>6. owner'[k] = c /\ k \in Held(c, slotk)'
  BY <1>0, <1>1, <1>2, <1>5
<1>7. Slot(c, TypeOf(k))' = slotk
  BY <1>0, <1>4, TypesSame
<1>8. Grows
  <2> SUFFICES ASSUME NEW x \in Atoms, NEW slot, NEW j \in Held(x, slot) PROVE Held(x, slot)' # {}
    BY DEF Grows
  <2>1. j \in Atoms /\ owner[j] = x /\ Slot(x, TypeOf(j)) = slot /\ x # None
    BY DEF Held, Atoms, None
  <2>2. CASE j \in gone
    <3>1. x = c /\ slot = slotk
      BY <1>3, <2>1, <2>2
    <3> QED
      BY <1>6, <3>1
  <2>3. CASE j \notin gone
    <3>1. j # k
      BY <2>1
    <3>2. owner'[j] = x
      BY <1>2, <2>1, <2>3, <3>1
    <3> QED
      BY <1>5, <2>1, <3>2
  <2> QED
    BY <2>2, <2>3
<1> QED
  BY <1>2, <1>6, <1>7, <1>8

LEMMA LargeGrows ==
    ASSUME NEW c, UNCHANGED atoms,
           owner' = [k \in Atoms |-> IF k \in Held(c, "unknown") THEN None ELSE owner[k]]
    PROVE  Grows /\ \A j \in Atoms : owner'[j] # None => owner'[j] = owner[j]
<1>1. \A j \in Atoms : owner'[j] = IF j \in Held(c, "unknown") THEN None ELSE owner[j]
  OBVIOUS
<1>2. \A j \in Held(c, "unknown") : owner[j] = c /\ Slot(c, TypeOf(j)) = "unknown"
  BY DEF Held
<1>3. Atoms' = Atoms /\ \A x, type : Slot(x, type)' = Slot(x, type)
  BY TypesSame
<1>4. \A x, slot : Held(x, slot)' = {j \in Atoms : owner'[j] = x /\ Slot(x, TypeOf(j)) = slot}
  BY <1>3, TypesSame DEF Held
<1>5. Grows
  <2> SUFFICES ASSUME NEW x \in Atoms, NEW slot, slot # "unknown", NEW j \in Held(x, slot)
               PROVE  Held(x, slot)' # {}
    BY DEF Grows
  <2>1. j \in Atoms /\ owner[j] = x /\ Slot(x, TypeOf(j)) = slot
    BY DEF Held
  <2>2. owner'[j] = x
    BY <1>1, <1>2, <2>1
  <2> QED
    BY <1>4, <2>1, <2>2
<1> QED
  BY <1>1, <1>5

-------------------------------------------------------------------------------
(* What has been kept stays kept, step by step.                                *)

KeptOn ==
    IsTree(atoms) =>
        \A k \in 1 .. Len(atoms) : \A c :
            /\ c = atoms[k].up /\ Kept(c, k)
            /\ \/ Held(c, Slot(c, atoms[k].type)) # {}
               \/ atoms[k].type \notin Reads[TypeOf(c)].list
               \/ atoms[k].type = "trak" /\ ~ Played(k)
            => Kept(c, After(k))

LEMMA KeptOnHolds == KeptOn
BY KeptBehind DEF KeptOn

LEMMA AttachedStands ==
    ASSUME UNCHANGED atoms, Grows, AttachedKept, NEW k,
           \A j \in Atoms : owner'[j] # None /\ j # k => owner'[j] = owner[j],
           k \in Atoms /\ IsContainer(k) /\ SlotOf(k)' # "unknown" => Kept(k, Len(atoms) + 1)
    PROVE  AttachedKept'
<1>1. /\ Atoms' = Atoms /\ Len(atoms') = Len(atoms)
      /\ \A j : IsContainer(j)' = IsContainer(j)
      /\ \A j : TypeOf(j)' = TypeOf(j)
      /\ \A x, type : Slot(x, type)' = Slot(x, type)
  BY TypesSame
<1>2. PICK b : b = Len(atoms) + 1
  OBVIOUS
<1>3. ASSUME NEW j \in Atoms, owner'[j] # None, SlotOf(j)' # "unknown", IsContainer(j)
      PROVE  Kept(j, b)'
  <2>1. Kept(j, b)
    <3>1. CASE j = k
      BY <1>2, <1>3, <3>1
    <3>2. CASE j # k
      <4>1. owner'[j] = owner[j]
        BY <1>3, <3>2
      <4>2. SlotOf(j) # "unknown"
        BY <1>1, <1>3, <4>1 DEF SlotOf
      <4> QED
        BY <1>2, <1>3, <4>1, <4>2 DEF AttachedKept
    <3> QED
      BY <3>1, <3>2
  <2> QED
    BY <1>3, <2>1, KeptStands
<1> SUFFICES ASSUME NEW j \in Atoms, owner'[j] # None, SlotOf(j)' # "unknown", IsContainer(j)
             PROVE  Kept(j, Len(atoms) + 1)'
  BY <1>1 DEF AttachedKept
<1>4. Kept(j, b)'
  BY <1>3
<1>5. b = Len(atoms') + 1
  BY <1>1, <1>2
<1> QED
  BY <1>4, <1>5

\* What the containers around the innermost one have read of moov stays kept.
LEMMA AroundKept ==
    ASSUME TreeInv, WholeInv, ReadsOn, UNCHANGED atoms, Grows,
           NEW i \in 1 .. Len(open), NEW c, c = open[i], NEW b, b = Border(i)
    PROVE  Kept(c, b)'
<1>1. c \in Atoms /\ IsContainer(c)
  BY DEF TreeInv, Path, WholeInv, NoneMissing, Contained
<1>2. Kept(c, b)
  BY DEF ReadsOn, OpenKept
<1> QED
  BY <1>1, <1>2, KeptStands

\* The loop of the innermost container goes on, or ends.
LEMMA InnerKept ==
    ASSUME TreeInv, WholeInv, ReadsOn, UNCHANGED <<atoms, open>>, Grows, open # <<>>,
           NEW c, c = cur, Kept(c, Border(Len(open)))'
    PROVE  OpenKept'
<1>1. PICK n \in Nat \ {0} : n = Len(open) /\ open[n] = c
  BY CurIs DEF TreeInv, cur
<1> SUFFICES ASSUME NEW i \in 1 .. n PROVE Kept(open[i], Border(i))'
  BY <1>1 DEF OpenKept
<1>2. PICK x : x = open[i]
  OBVIOUS
<1>3. PICK b : b = Border(i)'
  OBVIOUS
<1>4. CASE i = n
  <2>1. Kept(c, b)' /\ x = c
    <3>1. b = Border(Len(open))'
      BY <1>1, <1>3, <1>4
    <3> QED
      BY <1>1, <1>2, <1>4, <3>1
  <2> QED
    BY <1>2, <1>3, <2>1
<1>5. CASE i # n
  <2>1. b = open[i + 1] /\ b = Border(i)
    BY <1>1, <1>3, <1>5 DEF Border
  <2>2. Kept(x, b)'
    BY <1>1, <1>2, <2>1, AroundKept
  <2> QED
    BY <1>2, <1>3, <2>2
<1> QED
  BY <1>4, <1>5

\* The container around the innermost one goes on behind it.
LEMMA OuterKept ==
    ASSUME TreeInv, WholeInv, ReadsOn, UNCHANGED atoms, open' = Outer, open # <<>>, Grows,
           cur # 0, NEW c, c = atoms[cur].up, parse' = "loop", Kept(c, at)'
    PROVE  OpenKept'
<1>1. PICK n \in Nat \ {0} : n = Len(open) /\ n # 1 /\ open[n] = cur /\ open[n - 1] = c
  BY CurIs DEF TreeInv, cur
<1>2. Len(open') = n - 1 /\ \A i \in 1 .. n - 1 : open'[i] = open[i]
  <2> HIDE DEF Outer
  <2> QED
    BY <1>1, OuterIs DEF TreeInv
<1> SUFFICES ASSUME NEW i \in 1 .. n - 1 PROVE Kept(open[i], Border(i))'
  BY <1>2 DEF OpenKept
<1>3. PICK x : x = open'[i] /\ x = open[i]
  BY <1>2
<1>4. PICK b : b = Border(i)'
  OBVIOUS
<1>5. CASE i = n - 1
  <2>1. b = at'
    <3>1. ~ (i < n - 1)
      BY <1>5
    <3> QED
      BY <1>2, <1>4, <3>1 DEF Border
  <2>2. x = c
    BY <1>1, <1>3, <1>5
  <2>3. Kept(c, b)'
    BY <2>1
  <2> QED
    BY <1>3, <1>4, <2>2, <2>3
<1>6. CASE i # n - 1
  <2>1. i < n - 1 /\ i + 1 \in 1 .. n - 1 /\ i < n /\ i \in 1 .. n
    BY <1>1, <1>6
  <2>2. b = open[i + 1] /\ b = Border(i)
    BY <1>1, <1>2, <1>4, <2>1 DEF Border
  <2>3. Kept(x, b)'
    BY <1>1, <1>3, <2>1, <2>2, AroundKept
  <2> QED
    BY <1>3, <1>4, <2>3
<1> QED
  BY <1>5, <1>6

LEMMA GrowsStands ==
    ASSUME UNCHANGED <<atoms, owner>>
    PROVE  Grows /\ \A j \in Atoms : owner'[j] # None => owner'[j] = owner[j]
BY TypesSame DEF Grows, Held

LEMMA NamedSteps == ASSUME TreeInv, OpenNamed, TreeNext PROVE OpenNamed'
<1>0. UNCHANGED atoms
  BY DEF TreeNext, HeaderBroken, Unknown, OpenContainer, ReadLeaf, LeafFails, TrexTurnedAway, LoopEnds,
         ContainerFails, TrakTurnedAway, TrakIgnored, ContainerRead, MoovRead
<1>1. \A k : TypeOf(k)' = TypeOf(k)
  BY <1>0, SoundSame
<1>2. CASE UNCHANGED open
  BY <1>1, <1>2 DEF OpenNamed
<1>3. CASE OpenContainer
  <2>1. open' = Append(open, at) /\ More /\ Known
    BY <1>3 DEF OpenContainer
  <2>2. open # <<>> /\ open \in Seq(Atoms) /\ at \in Atoms /\ at # 0
    BY <2>1, MoreIs DEF TreeInv, Path
  <2>3. PICK n \in Nat \ {0} : n = Len(open)
    BY <2>2, CurIs DEF TreeInv
  <2>4. /\ Len(open') = n + 1 /\ open'[n + 1] = at
        /\ \A i \in 1 .. n : open'[i] = open[i]
    BY <2>1, <2>2, <2>3
  <2>5. TypeOf(at) \in Reads[TypeOf(open[n])].list
    BY <2>1, <2>2, <2>3 DEF Known, TypeOf, cur
  <2>6. ASSUME NEW i \in 2 .. n + 1 PROVE TypeOf(open'[i]) \in Reads[TypeOf(open'[i - 1])].list
    <3>1. i - 1 \in 1 .. n
      BY <2>3
    <3>2. CASE i = n + 1
      BY <2>4, <2>5, <3>1, <3>2
    <3>3. CASE i # n + 1
      <4>1. i \in 2 .. n /\ i \in 1 .. n
        BY <2>3, <3>3
      <4> QED
        BY <2>3, <2>4, <3>1, <4>1 DEF OpenNamed
    <3> QED
      BY <3>2, <3>3
  <2> QED
    BY <1>1, <2>4, <2>6 DEF OpenNamed
<1>4. CASE open' = Outer /\ parse = "ended"
  <2>1. open # <<>>
    BY <1>4 DEF TreeInv, Place
  <2>2. PICK n \in Nat \ {0} : n = Len(open)
    BY <2>1, CurIs DEF TreeInv
  <2>3. Len(open') = n - 1 /\ \A i \in 1 .. n - 1 : open'[i] = open[i]
    <3> HIDE DEF Outer
    <3> QED
      BY <1>4, <2>1, <2>2, OuterIs DEF TreeInv
  <2>4. ASSUME NEW i \in 2 .. n - 1 PROVE TypeOf(open'[i]) \in Reads[TypeOf(open'[i - 1])].list
    <3>1. i - 1 \in 1 .. n - 1 /\ i \in 1 .. n - 1 /\ i \in 2 .. n
      BY <2>2
    <3> QED
      BY <2>2, <2>3, <3>1 DEF OpenNamed
  <2> QED
    BY <1>1, <2>3, <2>4 DEF OpenNamed
<1> QED
  BY <1>2, <1>3, <1>4 DEF TreeNext, HeaderBroken, Unknown, ReadLeaf, LeafFails, TrexTurnedAway,
         LoopEnds, ContainerFails, TrakTurnedAway, TrakIgnored, ContainerRead, MoovRead, Continue

\* Of a sound movie no reader fails.
LEMMA SoundGoesOn ==
    ASSUME TreeInv, WholeInv, SoundInv, Sound
    PROVE  ~ (HeaderBroken \/ LeafFails \/ TrexTurnedAway \/ ContainerFails \/ TrakTurnedAway)
<1>1. IsTree(atoms)
  BY DEF TreeInv, Path
<1>2. ~ HeaderBroken
  <2> SUFFICES ASSUME HeaderBroken PROVE FALSE
    OBVIOUS
  <2>1. at \in 1 .. Len(atoms) /\ atoms[at].fate = "broken"
    BY MoreIs DEF HeaderBroken, Fate
  <2>2. PICK k \in 1 .. Len(atoms) : k = at
    BY <2>1
  <2> QED
    BY <1>1, <2>1, <2>2, SoundIs
<1>3. ~ LeafFails
  <2> SUFFICES ASSUME LeafFails PROVE FALSE
    OBVIOUS
  <2>1. at \in 1 .. Len(atoms) /\ Fails(at)
    BY MoreIs DEF LeafFails
  <2>2. PICK k \in 1 .. Len(atoms) : k = at
    BY <2>1
  <2> QED
    BY <1>1, <2>1, <2>2, SoundIs
<1>4. ~ TrexTurnedAway
  <2> SUFFICES ASSUME TrexTurnedAway PROVE FALSE
    OBVIOUS
  <2>1. /\ at \in 1 .. Len(atoms) /\ at # 0 /\ atoms[at].up = cur /\ owner[at] = None /\ open # <<>>
        /\ Full(cur, TypeOf(at))
    BY MoreIs DEF TrexTurnedAway
  <2>2. PICK k \in 1 .. Len(atoms) : k = at
    BY <2>1
  <2>3. PICK c \in Atoms : c = cur
    BY <2>1, CurIs DEF TreeInv
  <2>4. ~ Full(c, atoms[k].type)
    BY <2>1, <2>2, <2>3, SoundRoom
  <2> QED
    BY <2>1, <2>2, <2>3, <2>4 DEF TypeOf
<1>5. ~ ContainerFails
  BY SoundWhole DEF ContainerFails
<1>6. ~ TrakTurnedAway
  <2> SUFFICES ASSUME TrakTurnedAway PROVE FALSE
    OBVIOUS
  <2>1. parse = "ended" /\ cur # 0 /\ Full(atoms[cur].up, TypeOf(cur))
    BY DEF TrakTurnedAway
  <2>2. open # <<>> /\ cur \in 1 .. Len(atoms) /\ owner[cur] = None
    <3>1. open # <<>>
      BY <2>1 DEF TreeInv, Place
    <3> QED
      BY <2>1, <3>1, CurIs DEF TreeInv
  <2>3. PICK k \in 1 .. Len(atoms) : k = cur
    BY <2>2
  <2>4. PICK c \in Atoms : c = atoms[k].up
    <3>1. PICK n \in Nat : n = Len(atoms)
      BY <1>1 DEF IsTree
    <3>2. atoms[k].up \in 0 .. k - 1 /\ k \in 1 .. n
      BY <1>1, <3>1 DEF IsTree
    <3> QED
      BY <3>1, <3>2 DEF Atoms
  <2>5. ~ Full(c, atoms[k].type)
    BY <2>2, <2>3, <2>4, SoundRoom
  <2> QED
    BY <2>1, <2>3, <2>4, <2>5 DEF TypeOf
<1> QED
  BY <1>2, <1>3, <1>4, <1>5, <1>6

LEMMA EndReadsOn ==
    ASSUME TreeInv, WholeInv, ReadsOn, LoopEnds \/ MoovRead
    PROVE  ReadsOn'
<1>1. UNCHANGED <<atoms, open, owner>> /\ parse' \in {"ended", "parsed"} /\ parse \in {"loop", "ended"}
  BY DEF LoopEnds, MoovRead, End
<1>2. open # <<>> /\ IsTree(atoms)
  BY <1>1 DEF TreeInv, Place, Path
<1>3. Grows /\ \A j \in Atoms : owner'[j] # None => owner'[j] = owner[j]
  BY <1>1, GrowsStands
<1>4. AttachedKept'
  <2>1. None \notin Atoms
    BY DEF Atoms, None
  <2> QED
    BY <1>1, <1>3, <2>1, AttachedStands DEF ReadsOn
<1>5. PICK n \in Nat \ {0} : n = Len(open)
  BY <1>2, CurIs DEF TreeInv
<1>6. PICK c \in Atoms : c = cur /\ c = open[n]
  BY <1>2, <1>5, CurIs DEF TreeInv, cur
<1>7. IsContainer(c)
  BY <1>2, <1>6, CurHolds
<1>8. Kept(c, Border(n))
  <2>1. n \in 1 .. Len(open)
    BY <1>5
  <2> QED
    BY <1>6, <2>1 DEF ReadsOn, OpenKept
<1>9. Kept(c, Len(atoms) + 1)
  <2>1. CASE parse = "loop"
    <3>1. at = After(c) /\ Border(n) = at
      BY <1>1, <1>5, <1>6, <2>1 DEF LoopEnds, MoovRead, Border
    <3> QED
      BY <1>2, <1>8, <3>1, KeptAll
  <2>2. CASE parse # "loop"
    BY <1>5, <1>8, <2>2 DEF Border
  <2> QED
    BY <2>1, <2>2
<1>10. PICK b : b = Len(atoms) + 1
  OBVIOUS
<1>11. Kept(c, b)'
  BY <1>1, <1>3, <1>7, <1>9, <1>10, KeptStands
<1>12. Border(Len(open))' = b
  <2>1. ~ (n < n) /\ Len(open') = n /\ parse' # "loop" /\ Len(atoms') + 1 = b
    BY <1>1, <1>5, <1>10
  <2> QED
    BY <2>1 DEF Border
<1>13. Kept(c, Border(Len(open)))'
  BY <1>11, <1>12
<1>14. OpenKept'
  BY <1>1, <1>2, <1>3, <1>6, <1>13, InnerKept
<1>15. parse' = "ended" => result'
  BY DEF LoopEnds, MoovRead, End
<1> QED
  BY <1>1, <1>4, <1>14, <1>15 DEF ReadsOn

LEMMA LeafReadsOn ==
    ASSUME TreeInv, WholeInv, ReadsOn, ReadLeaf \/ Unknown
    PROVE  ReadsOn'
<1>1. More /\ UNCHANGED <<atoms, open, parse, result>>
  BY DEF ReadLeaf, Unknown
<1>2. /\ open # <<>> /\ at \in 1 .. Len(atoms) /\ atoms[at].up = cur /\ owner[at] = None
      /\ ~ IsContainer(at) => After(at) = at + 1
  BY <1>1, MoreIs
<1>3. PICK k \in 1 .. Len(atoms) : k = at
  BY <1>2
<1>4. PICK c \in Atoms : c = cur
  BY <1>2, CurIs DEF TreeInv
<1>5. PICK n \in Nat \ {0} : n = Len(open)
  BY <1>2, CurIs DEF TreeInv
<1>6. /\ IsTree(atoms) /\ IsContainer(c) /\ TypeOf(k) = atoms[k].type /\ k \in Atoms
      /\ Len(atoms) \in Nat /\ k # 0
  <2>1. IsTree(atoms) /\ Len(atoms) \in Nat /\ Atoms = 0 .. Len(atoms)
    BY DEF TreeInv, Path, IsTree, Atoms
  <2> QED
    BY <1>2, <1>3, <1>4, <2>1, CurHolds DEF TypeOf
<1>7. at' = After(k)
  BY <1>2, <1>3 DEF ReadLeaf, Unknown
<1>8. /\ Grows
      /\ \A j \in Atoms : owner'[j] # None /\ j # k => owner'[j] = owner[j]
      /\ k \in Atoms /\ IsContainer(k) => SlotOf(k)' = "unknown" \/ owner'[k] = None
      /\ atoms[k].type \in Reads[TypeOf(c)].list => Held(c, Slot(c, atoms[k].type))' # {}
  <2>1. CASE Unknown /\ Fate = "large"
    <3>1. owner' = [j \in Atoms |-> IF j \in Held(c, "unknown") THEN None ELSE owner[j]] /\ ~ Known
      BY <1>4, <2>1 DEF Unknown
    <3>2. Grows /\ \A j \in Atoms : owner'[j] # None => owner'[j] = owner[j]
      BY <1>1, <3>1, LargeGrows
    <3>3. owner'[k] = None
      BY <1>2, <1>3, <1>6, <3>2 DEF None
    <3> QED
      BY <1>3, <1>4, <3>1, <3>2, <3>3 DEF Known
  <2>2. CASE ReadLeaf \/ (Unknown /\ Fate # "large")
    <3>1. owner' = Attached(c, k)
      BY <1>3, <1>4, <2>2 DEF ReadLeaf, Unknown
    <3>2. /\ Grows /\ k \in Held(c, Slot(c, TypeOf(k)))'
          /\ \A j \in Atoms : owner'[j] # None /\ j # k => owner'[j] = owner[j]
          /\ owner'[k] = c
      BY <1>1, <1>2, <1>3, <3>1, AttachGrows
    <3>3. Slot(c, TypeOf(k))' = Slot(c, atoms[k].type)
      BY <1>1, <1>6, TypesSame
    <3>4. IsContainer(k) => SlotOf(k)' = "unknown"
      <4> SUFFICES ASSUME IsContainer(k) PROVE SlotOf(k)' = "unknown"
        OBVIOUS
      <4>1. ~ Known
        BY <1>3, <2>2 DEF ReadLeaf, Unknown
      <4>2. Slot(c, atoms[k].type) = "unknown"
        BY <1>3, <1>4, <4>1 DEF Known, Slot
      <4> QED
        BY <3>2, <3>3, <4>2 DEF SlotOf
    <3>5. Held(c, Slot(c, atoms[k].type))' # {}
      <4>1. PICK s : s = Slot(c, atoms[k].type)
        OBVIOUS
      <4>2. Slot(c, atoms[k].type)' = s /\ Slot(c, TypeOf(k))' = s
        BY <1>1, <3>3, <4>1, TypesSame
      <4>3. k \in Held(c, s)'
        BY <3>2, <4>2
      <4> QED
        BY <4>2, <4>3
    <3> QED
      BY <3>2, <3>4, <3>5
  <2> QED
    BY <2>1, <2>2
<1>9. AttachedKept'
  <2>1. None \notin Atoms
    BY DEF Atoms, None
  <2>2. CASE owner'[k] # None
    <3>1. k \in Atoms /\ IsContainer(k) /\ SlotOf(k)' # "unknown" => Kept(k, Len(atoms) + 1)
      BY <1>8, <2>2
    <3> QED
      BY <1>1, <1>8, <3>1, AttachedStands DEF ReadsOn
  <2>3. CASE owner'[k] = None
    <3>1. \A j \in Atoms : owner'[j] # None => owner'[j] = owner[j]
      BY <1>8, <2>3
    <3> QED
      BY <1>1, <1>8, <2>1, <3>1, AttachedStands DEF ReadsOn
  <2> QED
    BY <2>2, <2>3
<1>10. Kept(c, k)
  <2>1. n \in 1 .. Len(open) /\ open[n] = c
    BY <1>4, <1>5 DEF cur
  <2>2. Border(n) = k
    BY <1>1, <1>3, <1>5 DEF Border, More
  <2> QED
    BY <2>1, <2>2 DEF ReadsOn, OpenKept
<1>11. Kept(c, k)'
  BY <1>1, <1>6, <1>8, <1>10, KeptStands
<1>12. Kept(c, After(k))'
  <2>1. KeptOn'
    BY KeptOnHolds, PTL
  <2>2. IsTree(atoms)' /\ (atoms[k].up)' = c /\ k \in 1 .. Len(atoms')
    BY <1>1, <1>2, <1>3, <1>4, <1>6
  <2>3. \/ Held(c, Slot(c, atoms[k].type))' # {}
        \/ (atoms[k].type)' \notin Reads[TypeOf(c)'].list
    BY <1>1, <1>8, TypesSame
  <2> QED
    BY <1>11, <2>1, <2>2, <2>3 DEF KeptOn
<1>13. PICK b : b = After(k)
  OBVIOUS
<1>14. Kept(c, b)'
  <2>1. After(k)' = b
    BY <1>1, <1>13, TypesSame
  <2> QED
    BY <1>12, <2>1
<1>15. Border(Len(open))' = b
  <2>1. parse' = "loop" /\ at' = b /\ Len(open') = n /\ ~ (n < n)
    BY <1>1, <1>5, <1>7, <1>13 DEF More
  <2> QED
    BY <2>1 DEF Border
<1>16. Kept(c, Border(Len(open)))'
  BY <1>14, <1>15
<1>17. OpenKept'
  BY <1>1, <1>2, <1>4, <1>8, <1>16, InnerKept
<1> QED
  BY <1>1, <1>9, <1>17 DEF ReadsOn

LEMMA OpenReadsOn ==
    ASSUME TreeInv, WholeInv, ReadsOn, OpenContainer
    PROVE  ReadsOn'
<1>1. /\ More /\ UNCHANGED <<atoms, owner, parse, result>> /\ open' = Append(open, at) /\ at' = at + 1
      /\ parse = "loop"
  BY DEF OpenContainer, More
<1>2. open # <<>> /\ open \in Seq(Atoms) /\ at \in 1 .. Len(atoms) /\ at \in Atoms /\ IsTree(atoms)
  BY <1>1, MoreIs DEF TreeInv, Path
<1>3. PICK n \in Nat \ {0} : n = Len(open)
  BY <1>2, CurIs DEF TreeInv
<1>4. /\ Len(open') = n + 1 /\ open'[n + 1] = at
      /\ \A i \in 1 .. n : open'[i] = open[i]
  BY <1>1, <1>2, <1>3
<1>5. Grows /\ \A j \in Atoms : owner'[j] # None => owner'[j] = owner[j]
  BY <1>1, GrowsStands
<1>6. AttachedKept'
  <2>1. None \notin Atoms
    BY DEF Atoms, None
  <2> QED
    BY <1>1, <1>5, <2>1, AttachedStands DEF ReadsOn
<1>7. PICK k \in 1 .. Len(atoms) : k = at
  BY <1>2
<1>8. Kept(k, k + 1)'
  <2> SUFFICES ASSUME NEW j \in 1 .. Len(atoms), atoms[j].up = k, j < k + 1 PROVE FALSE
    BY <1>1 DEF Kept
  <2>1. PICK m \in Nat : m = Len(atoms)
    BY <1>2 DEF IsTree
  <2>2. atoms[j].up \in 0 .. j - 1
    BY <1>2 DEF IsTree
  <2> QED
    BY <2>1, <2>2
<1> SUFFICES ASSUME NEW i \in 1 .. n + 1 PROVE Kept(open[i], Border(i))'
  BY <1>1, <1>4, <1>6 DEF ReadsOn, OpenKept
<1>9. PICK x : x = open'[i]
  OBVIOUS
<1>10. PICK b : b = Border(i)'
  OBVIOUS
<1>11. CASE i = n + 1
  <2>1. x = k /\ b = k + 1
    <3>1. ~ (i < n + 1)
      BY <1>11
    <3> QED
      BY <1>1, <1>4, <1>7, <1>9, <1>10, <1>11, <3>1 DEF Border
  <2>2. Kept(x, b)'
    BY <1>8, <2>1
  <2> QED
    BY <1>9, <1>10, <2>2
<1>12. CASE i # n + 1
  <2>1. i \in 1 .. n /\ i + 1 \in 1 .. n + 1 /\ i < n + 1
    BY <1>12
  <2>2. x = open[i] /\ b = open'[i + 1]
    BY <1>4, <1>9, <1>10, <2>1 DEF Border
  <2>3. b = Border(i)
    <3>1. CASE i < n
      <4>1. i + 1 \in 1 .. n
        BY <2>1, <3>1
      <4> QED
        BY <1>3, <1>4, <2>2, <3>1, <4>1 DEF Border
    <3>2. CASE ~ (i < n)
      <4>1. i = n
        BY <2>1, <3>2
      <4> QED
        BY <1>1, <1>3, <1>4, <2>2, <3>2, <4>1 DEF Border
    <3> QED
      BY <3>1, <3>2
  <2>4. Kept(x, b)'
    BY <1>1, <1>3, <1>5, <2>1, <2>2, <2>3, AroundKept
  <2> QED
    BY <1>9, <1>10, <2>4
<1> QED
  BY <1>11, <1>12

\* A track that is not wanted, and any other container that is whole.
LEMMA ContainerReadsOn ==
    ASSUME TreeInv, WholeInv, SoundInv, ReadsOn, TrakIgnored \/ ContainerRead
    PROVE  ReadsOn'
<1>1. /\ UNCHANGED <<atoms, result>> /\ open' = Outer /\ parse = "ended" /\ parse' = "loop" /\ cur # 0
      /\ at' = After(cur)
  BY DEF TrakIgnored, ContainerRead, Continue
<1>2. PICK c : c = atoms[cur].up
  OBVIOUS
<1>3. open # <<>> /\ Len(atoms) \in Nat /\ IsTree(atoms) /\ c < cur
  BY <1>1, <1>2, AroundIs DEF TreeInv, Path
<1>4. PICK k \in 1 .. Len(atoms) : k = cur /\ owner[k] = None
  BY <1>1, <1>3, CurIs DEF TreeInv
<1>5. PICK n \in Nat \ {0} : n = Len(open) /\ n # 1 /\ open[n] = k /\ open[n - 1] = c
  BY <1>1, <1>2, <1>3, <1>4, CurIs DEF TreeInv, cur
<1>6. /\ n - 1 \in 1 .. Len(open) /\ n \in 1 .. Len(open) /\ c \in Atoms /\ k \in Atoms /\ k # 0
      /\ IsContainer(c) /\ TypeOf(k) = atoms[k].type
  <2>1. n - 1 \in 1 .. Len(open) /\ n \in 1 .. Len(open)
    BY <1>5
  <2>2. c \in Atoms /\ k \in Atoms /\ k # 0 /\ IsContainer(c)
    <3>1. c \in Atoms
      BY <1>5, <2>1 DEF TreeInv, Path
    <3>2. PICK m \in Nat : m = Len(atoms)
      BY <1>3
    <3>3. k \in Atoms /\ k # 0
      BY <1>4, <3>2 DEF Atoms
    <3>4. IsContainer(c)
      BY <1>5, <2>1 DEF WholeInv, NoneMissing, Contained
    <3> QED
      BY <3>1, <3>3, <3>4
  <2> QED
    BY <2>1, <2>2 DEF TypeOf
<1>7. /\ Grows
      /\ \A j \in Atoms : owner'[j] # None /\ j # k => owner'[j] = owner[j]
      /\ \/ Held(c, Slot(c, atoms[k].type))' # {}
         \/ atoms[k].type = "trak" /\ ~ Played(k)
  <2>1. CASE TrakIgnored
    <3>1. UNCHANGED owner /\ TypeOf(k) = "trak" /\ "hint" \in Handler(k)
      BY <1>4, <2>1 DEF TrakIgnored, Ignored
    <3>2. ~ Played(k)
      <4>1. PICK m \in Held(k, "mdia") : \E h \in Held(m, "hdlr") : atoms[h].fate = "hint"
        BY <3>1, HandlerIs DEF Step
      <4>2. PICK h \in Held(m, "hdlr") : atoms[h].fate = "hint"
        BY <4>1
      <4>3. m \in Children(k, "mdia") /\ m \in Atoms
        BY <1>6, HeldChild DEF Held
      <4>4. h \in Children(m, "hdlr")
        BY <4>3, HeldChild
      <4> QED
        BY <4>2, <4>3, <4>4 DEF Played
    <3> QED
      BY <1>1, <1>6, <3>1, <3>2, GrowsStands
  <2>2. CASE ContainerRead
    <3>1. owner' = Attached(c, k)
      BY <1>2, <1>4, <2>2 DEF ContainerRead
    <3>2. /\ Grows /\ k \in Held(c, Slot(c, TypeOf(k)))'
          /\ \A j \in Atoms : owner'[j] # None /\ j # k => owner'[j] = owner[j]
      BY <1>1, <1>4, <1>6, <3>1, AttachGrows
    <3>3. PICK s : s = Slot(c, atoms[k].type)
      OBVIOUS
    <3>4. Slot(c, atoms[k].type)' = s /\ Slot(c, TypeOf(k))' = s
      BY <1>1, <1>6, <3>3, TypesSame
    <3>5. k \in Held(c, s)'
      BY <3>2, <3>4
    <3>6. Held(c, Slot(c, atoms[k].type))' # {}
      BY <3>4, <3>5
    <3> QED
      BY <3>2, <3>6
  <2> QED
    BY <2>1, <2>2
<1>8. Kept(k, Len(atoms) + 1)
  <2>1. Border(n) = Len(atoms) + 1
    BY <1>1, <1>5 DEF Border
  <2> QED
    BY <1>5, <1>6, <2>1 DEF ReadsOn, OpenKept
<1>9. AttachedKept'
  BY <1>1, <1>7, <1>8, AttachedStands DEF ReadsOn
<1>10. Kept(c, k)'
  <2>1. Border(n - 1) = k
    BY <1>5 DEF Border
  <2> QED
    BY <1>1, <1>5, <1>6, <1>7, <2>1, AroundKept
<1>11. Kept(c, After(k))'
  <2>1. KeptOn'
    BY KeptOnHolds, PTL
  <2>2. IsTree(atoms)' /\ (atoms[k].up)' = c /\ k \in 1 .. Len(atoms')
    BY <1>1, <1>2, <1>3, <1>4
  <2>3. \/ Held(c, Slot(c, atoms[k].type))' # {}
        \/ (atoms[k].type)' = "trak" /\ ~ Played(k)'
    BY <1>1, <1>7, SoundSame
  <2> QED
    BY <1>10, <2>1, <2>2, <2>3 DEF KeptOn
<1>12. PICK b : b = After(k)
  OBVIOUS
<1>13. Kept(c, b)'
  <2>1. After(k)' = b
    BY <1>1, <1>12, TypesSame
  <2> QED
    BY <1>11, <2>1
<1>14. Kept(c, at)'
  BY <1>1, <1>4, <1>12, <1>13
<1>15. OpenKept'
  BY <1>1, <1>2, <1>3, <1>7, <1>14, OuterKept
<1>16. result'
  BY <1>1 DEF ReadsOn
<1> QED
  BY <1>1, <1>9, <1>15, <1>16 DEF ReadsOn

LEMMA SoundSteps == ASSUME TreeInv, WholeInv, SoundInv, TreeNext PROVE SoundInv'
<1>1. OpenNamed'
  BY NamedSteps DEF SoundInv
<1>2. UNCHANGED atoms
  BY DEF TreeNext, HeaderBroken, Unknown, OpenContainer, ReadLeaf, LeafFails, TrexTurnedAway, LoopEnds,
         ContainerFails, TrakTurnedAway, TrakIgnored, ContainerRead, MoovRead
<1>3. Sound' => Sound
  BY <1>2, SoundSame
<1>4. ASSUME Sound PROVE ReadsOn'
  <2>1. ReadsOn
    BY <1>4 DEF SoundInv
  <2>2. ~ (HeaderBroken \/ LeafFails \/ TrexTurnedAway \/ ContainerFails \/ TrakTurnedAway)
    BY <1>4, SoundGoesOn
  <2> QED
    BY <2>1, <2>2, EndReadsOn, LeafReadsOn, OpenReadsOn, ContainerReadsOn DEF TreeNext
<1> QED
  BY <1>1, <1>3, <1>4 DEF SoundInv

LEMMA SoundStands ==
    ASSUME TreeInv, WholeInv, SoundInv, UNCHANGED <<atoms, owner>>,
           UNCHANGED <<open, at, result, parse>> \/ (parse' = "closed" /\ open' = <<>>)
    PROVE  SoundInv'
<1>1. Grows /\ \A j \in Atoms : owner'[j] # None => owner'[j] = owner[j]
  BY GrowsStands
<1>2. Sound' => Sound
  BY SoundSame
<1>3. OpenNamed'
  <2>1. CASE UNCHANGED open
    BY <2>1, SoundSame DEF SoundInv, OpenNamed
  <2>2. CASE open' = <<>>
    BY <2>2 DEF OpenNamed
  <2> QED
    BY <2>1, <2>2
<1>4. ASSUME Sound PROVE ReadsOn'
  <2>1. ReadsOn
    BY <1>4 DEF SoundInv
  <2>2. AttachedKept'
    <3>1. None \notin Atoms
      BY DEF Atoms, None
    <3> QED
      BY <1>1, <2>1, <3>1, AttachedStands DEF ReadsOn
  <2>3. CASE parse' = "closed" /\ open' = <<>>
    <3>1. OpenKept'
      BY <2>3 DEF OpenKept
    <3> QED
      BY <2>2, <2>3, <3>1 DEF ReadsOn
  <2>4. CASE UNCHANGED <<open, at, result, parse>>
    <3>1. ASSUME NEW i \in 1 .. Len(open) PROVE Kept(open[i], Border(i))'
      <4>1. PICK x : x = open[i]
        OBVIOUS
      <4>2. PICK b : b = Border(i)
        OBVIOUS
      <4>3. Border(i)' = b
        BY <2>4, <4>2 DEF Border
      <4>4. Kept(x, b)'
        BY <1>1, <2>1, <4>1, <4>2, AroundKept
      <4> QED
        BY <2>4, <4>1, <4>3, <4>4
    <3>2. OpenKept'
      BY <2>4, <3>1 DEF OpenKept
    <3> QED
      BY <2>1, <2>2, <2>4, <3>2 DEF ReadsOn
  <2> QED
    BY <2>3, <2>4
<1> QED
  BY <1>2, <1>3, <1>4 DEF SoundInv

LEMMA SoundBegins == ASSUME NEW t, IsTree(t), TreeInit(t) PROVE SoundInv
<1>1. /\ atoms = t /\ open = <<0>> /\ at = 1 /\ owner = [k \in Atoms |-> None] /\ parse = "loop" /\ result
  BY DEF TreeInit
<1>2. \A k \in Atoms : owner[k] = None
  BY <1>1
<1>3. Len(open) = 1 /\ open[1] = 0
  BY <1>1
<1>4. OpenNamed
  BY <1>3 DEF OpenNamed
<1>5. AttachedKept
  BY <1>2 DEF AttachedKept
<1>6. Kept(0, 1)
  BY <1>1 DEF Kept, IsTree
<1>7. OpenKept
  <2>1. Border(1) = 1
    BY <1>1, <1>3 DEF Border
  <2> QED
    BY <1>3, <1>6, <2>1 DEF OpenKept
<1> QED
  BY <1>1, <1>4, <1>5, <1>7 DEF SoundInv, ReadsOn

-------------------------------------------------------------------------------
(* The tracks of a sound movie, when it has been read.                         *)

\* What a sound movie holds once is all there is of it.
LEMMA OnlyChild ==
    ASSUME TreeInv, Sound, NEW c \in Atoms, IsContainer(c),
           NEW slot, slot \notin {"trak", "trex", "unknown", "stco"}, NEW j \in Held(c, slot)
    PROVE  Children(c, slot) = {j}
<1>1. /\ j \in 1 .. Len(atoms) /\ atoms[j].up = c /\ j \in Children(c, slot) /\ TypeOf(j) = slot
      /\ slot \in Reads[TypeOf(c)].list
  BY HeldChild
<1>2. j \in c + 1 .. Len(atoms)
  <2>1. PICK n \in Nat : n = Len(atoms)
    BY DEF TreeInv, Path, IsTree
  <2>2. atoms[j].up \in 0 .. j - 1
    BY <1>1 DEF TreeInv, Path, IsTree
  <2>3. c \in Nat
    BY <2>1 DEF Atoms
  <2> QED
    BY <1>1, <2>1, <2>2, <2>3
<1>3. Cardinality(Children(c, slot)) = 1
  BY <1>1, <1>2, SoundHolds
<1>4. IsFiniteSet(Children(c, slot))
  <2>1. PICK n \in Nat : n = Len(atoms)
    BY DEF TreeInv, Path, IsTree
  <2>2. IsFiniteSet(1 .. n)
    BY <2>1, FS_Interval
  <2>3. Children(c, slot) \subseteq 1 .. n
    BY <2>1 DEF Children
  <2> QED
    BY <2>2, <2>3, FS_Subset
<1>5. PICK x : Children(c, slot) = {x}
  BY <1>3, <1>4, FS_Singleton
<1> QED
  BY <1>1, <1>5

\* What is in an atom within t is within t.
LEMMA WithinGoes ==
    ASSUME IsTree(atoms), NEW t \in 1 .. Len(atoms), NEW k \in 1 .. Len(atoms),
           atoms[k].up \in Within(t)
    PROVE  k \in Within(t)
<1>1. PICK n \in Nat : n = Len(atoms)
  BY DEF IsTree
<1>2. t \in Atoms /\ t \in 1 .. n /\ k \in 1 .. n
  BY <1>1 DEF Atoms
<1>3. PICK d \in t + 1 .. n + 1 : d = After(t) /\ (d <= n => atoms[d].up < t)
  BY <1>1, <1>2, AfterIs
<1>4. Within(t) = t .. d - 1
  BY <1>2, <1>3 DEF Within
<1>5. PICK c \in t .. d - 1 : c = atoms[k].up
  BY <1>4
<1>6. c < k /\ \A j \in c + 1 .. k - 1 : atoms[j].up >= c
  <2>1. atoms[k].up \in 0 .. k - 1 /\ \A j \in atoms[k].up + 1 .. k - 1 : atoms[j].up >= atoms[k].up
    BY DEF IsTree
  <2> QED
    BY <1>2, <1>5, <2>1
<1>7. ASSUME k >= d PROVE FALSE
  <2>1. atoms[d].up < t /\ d \in 1 .. n
    BY <1>2, <1>3, <1>7
  <2>2. atoms[d].up \in 0 .. d - 1
    BY <1>1, <2>1 DEF IsTree
  <2>3. CASE d = k
    BY <1>2, <1>5, <2>1, <2>2, <2>3
  <2>4. CASE d # k
    <3>1. d \in c + 1 .. k - 1
      BY <1>2, <1>5, <1>7, <2>4
    <3>2. atoms[d].up >= c
      BY <1>6, <3>1
    <3> QED
      BY <1>2, <1>5, <2>1, <2>2, <3>2
  <2> QED
    BY <2>3, <2>4
<1> QED
  BY <1>2, <1>4, <1>5, <1>6, <1>7

\* The tracks of a sound movie have all that the index and the segment need.
LEMMA SoundTables ==
    ASSUME TreeInv, WholeInv, ReadsOn, Sound, NEW t \in Traks
    PROVE  ~ NoChunks(t) /\ ~ NoSizes(t) /\ ~ NoDescription(t)
<1>1. t \in Atoms /\ owner[t] = 0 /\ owner[t] # None /\ SlotOf(t) = "trak" /\ TypeOf(t) = "trak"
  BY SlotIs DEF Traks, Held, SlotOf, None
<1>2. /\ "trak" \in Containers /\ "mdia" \in Containers /\ "minf" \in Containers /\ "stbl" \in Containers
      /\ Reads["trak"].mandatory = {"tkhd", "mdia"}
      /\ Reads["mdia"].mandatory = {"mdhd", "hdlr", "minf"}
      /\ Reads["minf"].mandatory = {"stbl"}
      /\ Reads["stbl"].mandatory = {"stsd", "stts"}
      /\ {"stsc", "stsz", "stco", "co64"} \subseteq Reads["stbl"].list
  BY DEF Containers, Reads, TrakReads, MdiaReads, MinfReads, StblReads
<1>3. HeldWhole
  BY DEF WholeInv
<1>4. PICK m \in Atoms : Held(t, "mdia") = {m} /\ owner[m] # None /\ SlotOf(m) # "unknown" /\ TypeOf(m) = "mdia"
  BY <1>1, <1>2, <1>3, OneHeld DEF IsContainer
<1>5. PICK h \in Atoms : Held(m, "hdlr") = {h}
  BY <1>2, <1>3, <1>4, OneHeld DEF IsContainer
<1>6. PICK i \in Atoms : Held(m, "minf") = {i} /\ owner[i] # None /\ SlotOf(i) # "unknown" /\ TypeOf(i) = "minf"
  BY <1>2, <1>3, <1>4, OneHeld DEF IsContainer
<1>7. PICK s \in Atoms : Held(i, "stbl") = {s} /\ owner[s] # None /\ SlotOf(s) # "unknown" /\ TypeOf(s) = "stbl"
  BY <1>2, <1>3, <1>6, OneHeld DEF IsContainer
<1>8. PICK stsd \in Atoms : Held(s, "stsd") = {stsd}
  BY <1>2, <1>3, <1>7, OneHeld DEF IsContainer
<1>9. \A slot : Table(t, slot) = Held(s, slot)
  <2>1. \A x, slot : Step({x}, slot) = Held(x, slot)
    BY DEF Step
  <2> QED
    BY <1>4, <1>6, <1>7, <2>1, PathFour DEF Table
<1>10. 0 \in Atoms /\ IsTree(atoms)
  <2>1. IsTree(atoms)
    BY DEF TreeInv, Path
  <2>2. Len(atoms) \in Nat
    BY <2>1 DEF IsTree
  <2> QED
    BY <2>1, <2>2 DEF Atoms
<1>11. t \in 1 .. Len(atoms) /\ t \in Children(0, "trak")
  <2>1. t \in Held(0, "trak")
    BY DEF Traks
  <2> QED
    BY <1>10, <2>1, HeldChild
<1>12. Played(t)
  <2>1. Children(t, "mdia") = {m}
    BY <1>1, <1>2, <1>4, OnlyChild DEF IsContainer
  <2>2. Children(m, "hdlr") = {h}
    BY <1>2, <1>4, <1>5, OnlyChild DEF IsContainer
  <2>3. atoms[h].fate # "hint"
    <3>1. "hint" \notin Handler(t)
      BY <1>3 DEF HeldWhole, Wanted
    <3>2. h \in Step(Held(t, "mdia"), "hdlr")
      BY <1>4, <1>5 DEF Step
    <3> QED
      BY <3>1, <3>2, HandlerIs
  <2> QED
    BY <2>1, <2>2, <2>3 DEF Played
<1>13. s \in Within(t)
  <2>1. t \in Within(t)
    <3>1. PICK n \in Nat : n = Len(atoms)
      BY <1>10 DEF IsTree
    <3>2. After(t) \in t + 1 .. n + 1 /\ t \in 1 .. n
      BY <1>1, <1>10, <1>11, <3>1, AfterIs
    <3> QED
      BY <3>2 DEF Within
  <2>2. m \in 1 .. Len(atoms) /\ atoms[m].up = t
    BY <1>1, <1>4, HeldChild
  <2>3. i \in 1 .. Len(atoms) /\ atoms[i].up = m
    BY <1>4, <1>6, HeldChild
  <2>4. s \in 1 .. Len(atoms) /\ atoms[s].up = i
    BY <1>6, <1>7, HeldChild
  <2>5. m \in Within(t)
    BY <1>10, <1>11, <2>1, <2>2, WithinGoes
  <2>6. i \in Within(t)
    BY <1>10, <1>11, <2>3, <2>5, WithinGoes
  <2> QED
    BY <1>10, <1>11, <2>4, <2>6, WithinGoes
<1>14. /\ Children(s, "stsc") # {} /\ Children(s, "stsz") # {}
       /\ Children(s, "stco") \cup Children(s, "co64") # {}
  BY <1>7, <1>11, <1>12, <1>13 DEF Sound, HasTables
<1>15. ASSUME NEW type \in {"stsc", "stsz", "stco", "co64"}, Children(s, type) # {}
       PROVE  Held(s, Slot(s, type)) # {}
  <2>1. Kept(s, Len(atoms) + 1)
    BY <1>2, <1>7 DEF ReadsOn, AttachedKept, IsContainer
  <2>2. PICK j \in Children(s, type) : TRUE
    BY <1>15
  <2>3. j \in 1 .. Len(atoms) /\ atoms[j].up = s /\ atoms[j].type = type
    BY <2>2 DEF Children
  <2>4. j < Len(atoms) + 1
    <3>1. PICK n \in Nat : n = Len(atoms)
      BY <1>10 DEF IsTree
    <3> QED
      BY <2>3, <3>1
  <2>5. type \in Reads[TypeOf(s)].list /\ type # "trak"
    BY <1>2, <1>7
  <2> QED
    BY <2>1, <2>3, <2>4, <2>5 DEF Kept
<1>16. /\ Slot(s, "stsc") = "stsc" /\ Slot(s, "stsz") = "stsz"
       /\ Slot(s, "stco") = "stco" /\ Slot(s, "co64") = "stco"
  BY <1>2, <1>7 DEF Slot
<1>17. Held(s, "stsc") # {} /\ Held(s, "stsz") # {} /\ Held(s, "stco") # {}
  BY <1>14, <1>15, <1>16
<1>18. PICK c \in Held(s, "stco") : TRUE
  BY <1>17
<1>19. ASSUME NEW j \in Atoms, owner[j] # None PROVE j \in 1 .. Len(atoms)
  <2>1. PICK n \in Nat : n = Len(atoms)
    BY <1>10 DEF IsTree
  <2>2. j # 0
    BY <1>19 DEF TreeInv, OwnedInside
  <2> QED
    BY <2>1, <2>2 DEF Atoms
<1>20. s # None
  BY <1>10 DEF Atoms, None, IsTree
<1>21. c \in 1 .. Len(atoms)
  BY <1>18, <1>19, <1>20 DEF Held
<1>22. ~ NoChunks(t)
  <2>1. atoms[c].fate # "empty"
    BY <1>10, <1>21, SoundIs
  <2>2. c \in Table(t, "stco")
    BY <1>9, <1>18
  <2> QED
    BY <2>1, <2>2 DEF NoChunks
<1>23. ~ NoSizes(t)
  BY <1>9, <1>17 DEF NoSizes
<1>24. ~ NoDescription(t)
  <2>1. stsd \in Held(s, "stsd")
    BY <1>8
  <2>2. stsd \in 1 .. Len(atoms) /\ TypeOf(stsd) = "stsd"
    BY <1>7, <2>1, HeldChild
  <2>3. atoms[stsd].entries # <<>>
    BY <1>10, <2>2, SoundIs
  <2>4. stsd \in Table(t, "stsd")
    BY <1>9, <2>1
  <2> QED
    BY <2>3, <2>4 DEF NoDescription
<1> QED
  BY <1>22, <1>23, <1>24

LEMMA SoundIndexed ==
    ASSUME TreeInv, WholeInv, SoundInv, Sound
    PROVE  Stops = {} /\ \A t \in Traks : ~ NoDescription(t)
BY SoundTables DEF SoundInv, Stops

-------------------------------------------------------------------------------
(* The answer.                                                                 *)

\* What the answer is made of, on the way to it.
Begun == parse = "loop" /\ at = 1

MovieIs(state) == IF request.box = "found" THEN parse = state ELSE Begun

BodyTrue ==
    /\ body \in {"nothing", "playlist", "segment"}
    /\ body # "nothing" =>
         parse \in {"parsed", "closed"} /\ Stops = {} /\ request.m3u8 = (body = "playlist")
    /\ body = "nothing" => request.m3u8 /\ (parse \notin {"parsed", "closed"} \/ Stops # {})

Steps == {"path", "file", "mp4", "atoms", "output", "close", "send"}

AnswerInv ==
    /\ request \in Requests
    /\ parse \in {"parsed", "closed"} => result
    /\ pc \in {"begin", "answered", "crashed"} \cup Steps
    /\ pc \in {"begin", "path", "file", "mp4"} => Begun
    /\ pc \in {"begin", "path", "file", "mp4", "atoms", "output"} => body = "nothing"
    /\ pc \in Steps => request.method # "POST"
    /\ pc \in {"mp4", "atoms", "output", "close", "send"} => request.file = "file"
    /\ pc = "atoms" => request.box = "found"
    /\ pc \in {"output", "close"} => MovieIs("parsed")
    /\ pc = "send" => MovieIs("closed")
    /\ pc \in {"close", "send"} => BodyTrue
    /\ AnswerTrue

LEMMA RequestIs ==
    ASSUME request \in Requests
    PROVE  /\ request.method \in {"GET", "HEAD", "POST"}
           /\ request.slash \in BOOLEAN /\ request.m3u8 \in BOOLEAN
           /\ request.file \in {"file", "directory", "missing", "forbidden", "error"}
           /\ request.box \in {"found", "missing", "unreadable"}
BY RequestsAssumption

\* They depend on the tree alone.
LEMMA StopsSame ==
    UNCHANGED <<atoms, owner>> => Stops' = Stops /\ \A t : NoDescription(t)' = NoDescription(t)
BY DEF Stops, NoChunks, NoSizes, NoDescription, Table, Traks, Follow, Held, Slot, TypeOf, Atoms

LEMMA MovieSame == UNCHANGED <<atoms, request>> => SoundMovie' = SoundMovie
<1> SUFFICES ASSUME UNCHANGED <<atoms, request>> PROVE SoundMovie' = SoundMovie
  OBVIOUS
<1>1. SoundMovie <=> request.box = "found" /\ Sound
  BY DEF SoundMovie, Sound
<1>2. SoundMovie' <=> request.box = "found" /\ Sound'
  BY DEF SoundMovie, Sound
<1>3. Sound' = Sound
  BY SoundSame
<1>4. SoundMovie \in BOOLEAN /\ SoundMovie' \in BOOLEAN
  BY DEF SoundMovie
<1> QED
  BY <1>1, <1>2, <1>3, <1>4

LEMMA MovieIsSound == SoundMovie <=> request.box = "found" /\ Sound
BY DEF SoundMovie, Sound

\* Return, where a sound movie is not refused.
LEMMA ReturnAnswers ==
    ASSUME AnswerInv, NEW status \in {1, 403, 404, 405, 500}, Return(status),
           Begun \/ parse = "refused",
           SoundMovie /\ request.file = "file" /\ request.method = "GET" /\ ~ request.slash /\ request.dot
             => mishap'
    PROVE  AnswerInv'
<1>1. /\ UNCHANGED <<treeVars, request, options, body>> /\ pc' = "answered"
      /\ answer' = [status |-> status, body |-> "nothing"]
  BY DEF Return
<1>2. UNCHANGED <<atoms, parse, at, result, owner>>
  BY <1>1 DEF treeVars
<1>3. answer'.body = "nothing" /\ answer' # [status |-> 200, body |-> "nothing"]
  BY <1>1
<1>4. SoundMovie' = SoundMovie
  BY <1>1, <1>2, MovieSame
<1>5. AnswerTrue'
  BY <1>1, <1>2, <1>3, <1>4 DEF AnswerTrue, Begun
<1> QED
  BY <1>1, <1>2, <1>5 DEF AnswerInv, Steps

LEMMA AnswerSteps ==
    ASSUME TreeInv, WholeInv, SoundInv, AnswerInv, [Next]_vars
    PROVE  AnswerInv'
<1>1. CASE Reject
  <2>1. Begun
    BY <1>1 DEF AnswerInv, Reject
  <2>2. CASE request.method = "POST" /\ Return(405)
    BY <2>1, <2>2, ReturnAnswers
  <2>3. CASE request.slash /\ Return(1)
    BY <2>1, <2>3, ReturnAnswers
  <2>4. CASE Return(500) /\ mishap'
    BY <2>1, <2>4, ReturnAnswers
  <2> QED
    BY <1>1, <2>2, <2>3, <2>4 DEF Reject, ReturnFailed, Declined
<1>2. CASE PathFails \/ NoMemory
  <2>1. Begun
    BY <1>2 DEF AnswerInv, PathFails, NoMemory
  <2> QED
    BY <1>2, <2>1, ReturnAnswers DEF PathFails, NoMemory, ReturnFailed
<1>3. CASE NotOpened
  <2>1. Begun /\ request.file # "file"
    BY <1>3 DEF AnswerInv, NotOpened
  <2>2. OpenErrors[request.file] \in {1, 403, 404, 405, 500}
    <3>1. request.file \in {"directory", "missing", "forbidden", "error"}
      BY <2>1, RequestIs DEF AnswerInv
    <3> QED
      BY <3>1 DEF OpenErrors, Declined
  <2>3. PICK status \in {1, 403, 404, 405, 500} : status = OpenErrors[request.file]
    BY <2>2
  <2> QED
    BY <1>3, <2>1, <2>3, ReturnAnswers DEF NotOpened
<1>4. CASE BoxUnreadable
  <2>1. Begun /\ ~ SoundMovie
    BY <1>4 DEF AnswerInv, BoxUnreadable, SoundMovie
  <2> QED
    BY <1>4, <2>1, ReturnAnswers DEF BoxUnreadable
<1>5. CASE MoovRefused
  <2>1. parse = "refused"
    BY <1>5 DEF MoovRefused
  <2>2. ~ SoundMovie
    BY <2>1, MovieIsSound DEF SoundInv, ReadsOn
  <2> QED
    BY <1>5, <2>1, <2>2, ReturnAnswers DEF MoovRefused
<1>6. CASE SetOptions \/ MapPath \/ Opened \/ BoxMissing \/ BoxFound
  <2>1. /\ UNCHANGED <<treeVars, request, body>> /\ pc \in {"begin", "path", "file", "mp4"}
        /\ pc' \in {"path", "file", "mp4", "atoms", "output"}
        /\ pc = "begin" => request.method # "POST"
        /\ pc \in {"begin", "path"} => pc' \in {"path", "file"}
        /\ pc = "file" => request.file = "file"
        /\ pc' = "atoms" => request.box = "found" /\ pc = "mp4"
        /\ pc' = "output" => request.box = "missing" /\ pc = "mp4"
    BY <1>6 DEF SetOptions, MapPath, Opened, BoxMissing, BoxFound, Goes
  <2>2. UNCHANGED <<parse, at, result>>
    BY <2>1 DEF treeVars
  <2>3. Begun' /\ (pc' = "output" => MovieIs("parsed")')
    BY <2>1, <2>2 DEF AnswerInv, Begun, MovieIs
  <2>4. AnswerTrue'
    BY <2>1 DEF AnswerTrue
  <2> QED
    BY <2>1, <2>2, <2>3, <2>4 DEF AnswerInv, Steps
<1>7. CASE ReadAtoms
  <2>1. pc = "atoms" /\ TreeNext /\ UNCHANGED <<request, body, pc>>
    BY <1>7 DEF ReadAtoms
  <2>2. parse' \in {"parsed", "closed"} => result'
    <3>1. parse \in {"loop", "ended"} /\ (parse' = "parsed" => result /\ result' = result) /\ parse' # "closed"
      BY <2>1 DEF TreeNext, HeaderBroken, Unknown, OpenContainer, ReadLeaf, LeafFails, TrexTurnedAway,
             LoopEnds, ContainerFails, TrakTurnedAway, TrakIgnored, ContainerRead, MoovRead, More, End,
             Continue, Whole
    <3> QED
      BY <3>1
  <2>3. AnswerTrue'
    BY <2>1 DEF AnswerTrue
  <2> QED
    BY <2>1, <2>2, <2>3 DEF AnswerInv, Steps
<1>8. CASE MoovAccepted
  <2>1. /\ pc = "atoms" /\ pc' = "output" /\ parse = "parsed" /\ UNCHANGED <<treeVars, request, body>>
    BY <1>8 DEF MoovAccepted, Goes
  <2>2. UNCHANGED <<parse, result>>
    BY <2>1 DEF treeVars
  <2>3. MovieIs("parsed")'
    BY <2>1, <2>2 DEF AnswerInv, MovieIs
  <2>4. AnswerTrue'
    BY <2>1 DEF AnswerTrue
  <2> QED
    BY <2>1, <2>2, <2>3, <2>4 DEF AnswerInv, Steps
<1>9. CASE IndexCrashes \/ SegmentCrashes
  <2>1. /\ pc' = "crashed" /\ UNCHANGED <<treeVars, request>>
        /\ Stops # {} \/ \E t \in Traks : NoDescription(t)
    BY <1>9 DEF IndexCrashes, SegmentCrashes
  <2>2. UNCHANGED <<atoms, parse, result>>
    BY <2>1 DEF treeVars
  <2>3. ~ SoundMovie
    BY <2>1, SoundIndexed, MovieIsSound
  <2>4. AnswerTrue'
    BY <2>1, <2>2, <2>3, MovieSame DEF AnswerTrue
  <2> QED
    BY <2>1, <2>2, <2>4 DEF AnswerInv, Steps
<1>15. CASE PathCrashes
  <2>1. pc = "path" /\ pc' = "crashed" /\ ~ request.dot /\ UNCHANGED <<treeVars, request, body>>
    BY <1>15 DEF PathCrashes, Goes
  <2>2. UNCHANGED <<parse, at, result>>
    BY <2>1 DEF treeVars
  <2>3. AnswerTrue'
    BY <2>1 DEF AnswerTrue
  <2> QED
    BY <2>1, <2>2, <2>3 DEF AnswerInv, Steps
<1>10. CASE Playlist \/ PlaylistFails \/ Segment
  <2>1. /\ pc = "output" /\ pc' = "close" /\ UNCHANGED <<treeVars, request>>
        /\ \/ request.m3u8 /\ Indexed /\ body' = "playlist"
           \/ ~ request.m3u8 /\ Indexed /\ body' = "segment"
           \/ request.m3u8 /\ IndexFails /\ body' = body
    BY <1>10 DEF Playlist, PlaylistFails, Segment, Goes
  <2>2. UNCHANGED <<atoms, owner, parse, at, result>>
    BY <2>1 DEF treeVars
  <2>3. Stops' = Stops
    BY <2>2, StopsSame
  <2>4. MovieIs("parsed")' /\ (parse = "parsed" \/ parse = "loop")
    BY <2>1, <2>2 DEF AnswerInv, MovieIs, Begun
  <2>5. BodyTrue'
    <3>1. body = "nothing" /\ request.m3u8 \in BOOLEAN
      BY <2>1, RequestIs DEF AnswerInv
    <3>2. CASE Indexed
      <4>1. parse' = "parsed" /\ Stops' = {}
        BY <2>2, <2>3, <3>2 DEF Indexed
      <4>2. \/ request'.m3u8 /\ body' = "playlist"
            \/ ~ request'.m3u8 /\ body' = "segment"
            \/ request'.m3u8 /\ body' = "nothing" /\ IndexFails
        BY <2>1, <3>1
      <4>3. ~ IndexFails
        BY <3>2 DEF Indexed, IndexFails
      <4>4. request'.m3u8 \in BOOLEAN
        BY <2>1, <3>1
      <4> QED
        BY <4>1, <4>2, <4>3, <4>4 DEF BodyTrue
    <3>3. CASE ~ Indexed
      <4>1. request.m3u8 /\ IndexFails /\ body' = "nothing"
        BY <2>1, <3>1, <3>3
      <4>2. parse' \notin {"parsed", "closed"} \/ Stops' # {}
        BY <2>2, <2>3, <2>4, <4>1 DEF IndexFails
      <4> QED
        BY <2>1, <4>1, <4>2 DEF BodyTrue
    <3> QED
      BY <3>2, <3>3
  <2>6. AnswerTrue'
    BY <2>1 DEF AnswerTrue
  <2> QED
    BY <2>1, <2>2, <2>4, <2>5, <2>6 DEF AnswerInv, Steps
<1>11. CASE SegmentFails
  <2>1. /\ pc = "output" /\ mishap' = (mishap \/ Indexed) /\ Release /\ pc' = "answered"
        /\ answer' = [status |-> 500, body |-> "nothing"] /\ UNCHANGED request
    BY <1>11 DEF SegmentFails
  <2>2. /\ UNCHANGED <<atoms, owner, result, at>>
        /\ IF parse = "parsed" THEN parse' = "closed" ELSE parse' = parse
    BY <2>1 DEF Release, MoovExit, treeVars
  <2>3. MovieIs("parsed")
    BY <2>1 DEF AnswerInv
  <2>4. parse' = "closed" \/ Begun'
    BY <2>2, <2>3 DEF MovieIs, Begun
  <2>5. SoundMovie' => mishap'
    <3> SUFFICES ASSUME SoundMovie PROVE Indexed
      BY <2>1, <2>2, MovieSame
    <3>1. parse = "parsed"
      BY <2>3, MovieIsSound DEF MovieIs
    <3>2. Stops = {}
      BY MovieIsSound, SoundIndexed
    <3> QED
      BY <3>1, <3>2 DEF Indexed
  <2>6. answer'.body = "nothing" /\ answer' # [status |-> 200, body |-> "nothing"]
    BY <2>1
  <2>7. AnswerTrue'
    BY <2>1, <2>4, <2>5, <2>6 DEF AnswerTrue, Begun
  <2>8. parse' \in {"parsed", "closed"} => result'
    BY <2>2 DEF AnswerInv
  <2> QED
    BY <2>1, <2>7, <2>8 DEF AnswerInv, Steps
<1>12. CASE Close
  <2>1. pc = "close" /\ pc' = "send" /\ Release /\ UNCHANGED <<request, body>>
    BY <1>12 DEF Close, Goes
  <2>2. /\ UNCHANGED <<atoms, owner, result, at>>
        /\ IF parse = "parsed" THEN parse' = "closed" ELSE parse' = parse
    BY <2>1 DEF Release, MoovExit, treeVars
  <2>3. MovieIs("closed")'
    BY <2>1, <2>2 DEF AnswerInv, MovieIs, Begun
  <2>4. Stops' = Stops
    BY <2>2, StopsSame
  <2>5. BodyTrue'
    <3>1. parse' \in {"parsed", "closed"} <=> parse \in {"parsed", "closed"}
      BY <2>2
    <3>2. BodyTrue
      BY <2>1 DEF AnswerInv
    <3> QED
      BY <2>1, <2>4, <3>1, <3>2 DEF BodyTrue
  <2>6. AnswerTrue'
    BY <2>1 DEF AnswerTrue
  <2>7. parse' \in {"parsed", "closed"} => result'
    BY <2>2 DEF AnswerInv
  <2> QED
    BY <2>1, <2>3, <2>5, <2>6, <2>7 DEF AnswerInv, Steps
<1>13. CASE SendFails \/ Send
  <2>1. /\ pc = "send" /\ pc' = "answered" /\ UNCHANGED <<treeVars, request>>
    BY <1>13 DEF SendFails, ReturnFailed, Return, Send
  <2>2. UNCHANGED <<atoms, owner, parse, at, result>>
    BY <2>1 DEF treeVars
  <2>3. Stops' = Stops /\ SoundMovie' = SoundMovie
    BY <2>1, <2>2, StopsSame, MovieSame
  <2>4. /\ MovieIs("closed") /\ BodyTrue /\ request.file = "file" /\ request.method \in {"GET", "HEAD"}
        /\ request.m3u8 \in BOOLEAN
    BY <2>1, RequestIs DEF AnswerInv, Steps
  <2>5. parse' = "closed" \/ Begun'
    BY <2>2, <2>4 DEF MovieIs, Begun
  <2>6. CASE SendFails
    <3>1. mishap' /\ answer' = [status |-> 500, body |-> "nothing"]
      BY <2>6 DEF SendFails, ReturnFailed, Return
    <3>2. answer'.body = "nothing" /\ answer' # [status |-> 200, body |-> "nothing"]
      BY <3>1
    <3> QED
      BY <2>1, <2>2, <2>5, <3>1, <3>2 DEF AnswerInv, AnswerTrue, Begun, Steps
  <2>7. CASE Send
    <3>1. PICK sent : sent = IF request.method = "HEAD" THEN "nothing" ELSE body
      OBVIOUS
    <3>2. answer' = [status |-> 200, body |-> sent]
      BY <2>7, <3>1 DEF Send
    <3>3. answer'.status = 200 /\ answer'.body = sent
      BY <3>2
    <3>4. sent # "nothing" =>
            /\ request.method = "GET" /\ sent = body
            /\ parse = "closed" /\ result /\ Stops = {} /\ request.m3u8 = (sent = "playlist")
      <4> SUFFICES ASSUME sent # "nothing"
                   PROVE  /\ request.method = "GET" /\ sent = body
                          /\ parse = "closed" /\ result /\ Stops = {} /\ request.m3u8 = (sent = "playlist")
        OBVIOUS
      <4>1. request.method = "GET" /\ sent = body
        BY <2>4, <3>1
      <4>2. parse \in {"parsed", "closed"} /\ Stops = {} /\ request.m3u8 = (body = "playlist")
        BY <2>4, <4>1 DEF BodyTrue
      <4>3. parse = "closed"
        BY <2>2, <2>5, <4>2 DEF Begun
      <4> QED
        BY <4>1, <4>2, <4>3 DEF AnswerInv
    <3>5. sent = "nothing" =>
            request.method = "HEAD" \/ (request.m3u8 /\ (parse # "closed" \/ Stops # {}))
      BY <2>4, <3>1 DEF BodyTrue
    <3>6. SoundMovie /\ request.method = "GET" => sent = IF request.m3u8 THEN "playlist" ELSE "segment"
      <4> SUFFICES ASSUME SoundMovie, request.method = "GET"
                   PROVE  sent = IF request.m3u8 THEN "playlist" ELSE "segment"
        OBVIOUS
      <4>1. Stops = {} /\ parse = "closed"
        BY <2>4, MovieIsSound, SoundIndexed DEF MovieIs
      <4>2. sent # "nothing"
        BY <3>5, <4>1
      <4>3. sent = body /\ body \in {"playlist", "segment"} /\ request.m3u8 = (body = "playlist")
        BY <2>4, <3>4, <4>2 DEF BodyTrue
      <4> QED
        BY <2>4, <4>3
    <3>7. /\ answer'.body # "nothing" =>
               /\ answer'.status = 200 /\ request'.method = "GET" /\ request'.file = "file"
               /\ request'.m3u8 = (answer'.body = "playlist")
               /\ parse' = "closed" /\ result' /\ Stops' = {}
          /\ answer' = [status |-> 200, body |-> "nothing"] =>
               request'.method = "HEAD" \/ (request'.m3u8 /\ (parse' # "closed" \/ Stops' # {}))
      <4>1. answer' = [status |-> 200, body |-> "nothing"] => sent = "nothing"
        BY <3>2
      <4> QED
        BY <2>1, <2>2, <2>3, <2>4, <3>3, <3>4, <3>5, <4>1
    <3>8. SoundMovie' /\ request'.method = "GET" =>
            answer' = [status |-> 200, body |-> IF request'.m3u8 THEN "playlist" ELSE "segment"]
      BY <2>1, <2>3, <3>2, <3>6
    <3>9. AnswerTrue'
      BY <2>1, <2>5, <3>7, <3>8 DEF AnswerTrue, Begun
    <3> QED
      BY <2>1, <2>2, <3>9 DEF AnswerInv, Steps
  <2> QED
    BY <1>13, <2>6, <2>7
<1>14. CASE UNCHANGED vars
  <2>1. UNCHANGED <<treeVars, request, body, answer, mishap, pc>>
    BY <1>14 DEF vars
  <2>2. UNCHANGED <<atoms, owner, parse, at, result>>
    BY <2>1 DEF treeVars
  <2>3. Stops' = Stops /\ SoundMovie' = SoundMovie
    BY <2>1, <2>2, StopsSame, MovieSame
  <2>4. AnswerTrue'
    BY <2>1, <2>2, <2>3 DEF AnswerInv, AnswerTrue
  <2>5. BodyTrue' = BodyTrue /\ Begun' = Begun
        /\ MovieIs("parsed")' = MovieIs("parsed") /\ MovieIs("closed")' = MovieIs("closed")
    BY <2>1, <2>2, <2>3 DEF BodyTrue, Begun, MovieIs
  <2> QED
    BY <2>1, <2>2, <2>4, <2>5 DEF AnswerInv
<1> QED
  BY <1>1, <1>2, <1>3, <1>4, <1>5, <1>6, <1>7, <1>8, <1>9, <1>10, <1>11, <1>12, <1>13, <1>14, <1>15 DEF Next

\* So far the request.
LEMMA SoundRequest ==
    TreeInv /\ WholeInv /\ SoundInv /\ [Next]_vars => SoundInv'
<1> SUFFICES ASSUME TreeInv, WholeInv, SoundInv, [Next]_vars PROVE SoundInv'
  OBVIOUS
<1>1. CASE TreeNext
  BY <1>1, SoundSteps
<1>2. CASE parse = "parsed" /\ MoovExit
  BY <1>2, SoundStands DEF MoovExit
<1>3. CASE UNCHANGED treeVars
  BY <1>3, SoundStands DEF treeVars
<1> QED
  BY <1>1, <1>2, <1>3, TreeSteps

LEMMA AnswerBegins == Init => SoundInv /\ AnswerInv
<1> SUFFICES ASSUME Init PROVE SoundInv /\ AnswerInv
  OBVIOUS
<1>1. IsTree(request.tree) /\ TreeInit(request.tree) /\ request \in Requests /\ pc = "begin" /\ body = "nothing"
  BY RequestsAssumption DEF Init
<1>2. SoundInv
  BY <1>1, SoundBegins
<1>3. parse = "loop" /\ at = 1
  BY <1>1 DEF TreeInit
<1>4. AnswerTrue
  BY <1>1 DEF AnswerTrue
<1> QED
  BY <1>1, <1>2, <1>3, <1>4 DEF AnswerInv, Begun, Steps

\* What is answered is true, of every request and every movie: only a movie that
\* was read and indexed is played or listed, and only a GET gets a body; the
\* status 200 without one is that of a HEAD, or of a playlist without an index;
\* what the program holds is released with every answer; a movie that is sound by
\* its file, asked for by a path with a dot, is answered as asked unless something
\* else fails; and the program crashes only for a path without a dot or on a movie
\* that is not sound.
THEOREM AnsweredTruly == Spec => []AnswerTrue
<1>1. AnswerInv => AnswerTrue
  BY DEF AnswerInv
<1>2. TreeInv /\ WholeInv /\ SoundInv /\ AnswerInv /\ [Next]_vars => AnswerInv'
  BY AnswerSteps
<1> QED
  BY <1>1, <1>2, RequestBegins, RequestSteps, SoundRequest, AnswerBegins, PTL DEF Spec

-------------------------------------------------------------------------------
(* The ADTS header, without recursion: which bits of a number are 1, which     *)
(* fields they end up in, and what is read there.                              *)

\* A step of one of the three loops over bits: the next half of a number, the
\* next bit of a field, the next field of a header.
Turned(loop, arg, x, n) ==
    IF loop = "half" THEN x \div 2
    ELSE IF loop = "read"
         THEN 2 * x + (IF arg.low + arg.width - n \in arg.adts THEN 1 ELSE 0)
         ELSE {b + arg[n][1] : b \in x} \cup Bits(arg[n][2])

Turns(loop, arg, first, m, f) ==
    f = [n \in 0 .. m |-> IF n = 0 THEN first ELSE Turned(loop, arg, f[n - 1], n)]

LEMMA TurnsExist ==
    ASSUME NEW loop, NEW arg, NEW first, NEW m \in Nat
    PROVE  \E f : Turns(loop, arg, first, m, f)
<1> DEFINE none == {k \in Nat : \A f : ~ Turns(loop, arg, first, k, f)}
<1> SUFFICES ASSUME none # {} PROVE FALSE
  OBVIOUS
<1>1. PICK k \in none : \A j \in none : k <= j
  <2>1. none \in SUBSET Nat
    OBVIOUS
  <2> HIDE DEF none
  <2> QED
    BY <2>1, LeastNumber
<1>2. CASE k = 0
  <2> DEFINE one == [i \in 0 .. 0 |-> first]
             same == [i \in 0 .. 0 |-> IF i = 0 THEN first ELSE Turned(loop, arg, one[i - 1], i)]
  <2>1. \A i \in 0 .. 0 : i = 0
    OBVIOUS
  <2>2. one = same
    BY <2>1
  <2>3. Turns(loop, arg, first, 0, one)
    BY <2>2 DEF Turns
  <2> QED
    BY <1>2, <2>3
<1>3. CASE k # 0
  <2>1. k - 1 \in Nat /\ ~ (k <= k - 1)
    BY <1>3
  <2>2. PICK f : Turns(loop, arg, first, k - 1, f)
    <3>1. k - 1 \notin none
      BY <1>1, <2>1
    <3> QED
      BY <2>1, <3>1
  <2> DEFINE g == [i \in 0 .. k |-> IF i <= k - 1 THEN f[i] ELSE Turned(loop, arg, f[k - 1], k)]
             h == [i \in 0 .. k |-> IF i = 0 THEN first ELSE Turned(loop, arg, g[i - 1], i)]
  <2>3. \A i \in 0 .. k - 1 : f[i] = IF i = 0 THEN first ELSE Turned(loop, arg, f[i - 1], i)
    BY <2>2 DEF Turns
  <2>4. ASSUME NEW i \in 0 .. k
        PROVE  g[i] = IF i = 0 THEN first ELSE Turned(loop, arg, g[i - 1], i)
    <3>1. CASE i = 0
      BY <2>1, <2>3, <3>1
    <3>2. CASE i # 0 /\ i <= k - 1
      <4>1. i \in 0 .. k - 1 /\ i - 1 \in 0 .. k /\ i - 1 <= k - 1
        BY <3>2
      <4>2. g[i] = f[i] /\ g[i - 1] = f[i - 1]
        BY <3>2, <4>1
      <4> HIDE DEF g
      <4> QED
        BY <2>3, <3>2, <4>1, <4>2
    <3>3. CASE i = k
      <4>1. k - 1 \in 0 .. k /\ ~ (k <= k - 1)
        BY <2>1
      <4>2. g[k - 1] = f[k - 1] /\ g[k] = Turned(loop, arg, f[k - 1], k)
        BY <4>1
      <4> HIDE DEF g
      <4> QED
        BY <1>3, <3>3, <4>2
    <3>4. i = 0 \/ (i # 0 /\ i <= k - 1) \/ i = k
      OBVIOUS
    <3> QED
      BY <3>1, <3>2, <3>3, <3>4
  <2>5. g = h
    <3>1. \A i \in 0 .. k : g[i] = h[i]
      <4> HIDE DEF g
      <4> QED
        BY <2>4
    <3>2. g = [i \in 0 .. k |-> g[i]] /\ h = [i \in 0 .. k |-> h[i]]
      OBVIOUS
    <3> HIDE DEF g, h
    <3> QED
      BY <3>1, <3>2
  <2>6. Turns(loop, arg, first, k, g)
    BY <2>5 DEF Turns
  <2> QED
    BY <1>1, <2>6
<1> QED
  BY <1>2, <1>3

LEMMA TurnsAre ==
    ASSUME NEW loop, NEW arg, NEW first, NEW m \in Nat, NEW f, Turns(loop, arg, first, m, f)
    PROVE  f[0] = first /\ \A n \in 1 .. m : f[n] = Turned(loop, arg, f[n - 1], n)
<1>1. \A n \in 0 .. m : f[n] = IF n = 0 THEN first ELSE Turned(loop, arg, f[n - 1], n)
  BY DEF Turns
<1>2. 0 \in 0 .. m /\ \A n \in 1 .. m : n \in 0 .. m /\ n # 0
  OBVIOUS
<1> QED
  BY <1>1, <1>2

\* What each of the loops makes.
Halves(v, h) ==
    /\ h[0] = v /\ \A b \in 0 .. 30 : h[b] \in Nat
    /\ \A b \in 1 .. 30 : h[b] = h[b - 1] \div 2

LEMMA BitsAre ==
    ASSUME NEW v \in Nat
    PROVE  \E h : Halves(v, h) /\ Bits(v) = {b \in 0 .. 30 : h[b] % 2 = 1}
<1> DEFINE G(f) == f = [b \in 0 .. 30 |-> IF b = 0 THEN v ELSE f[b - 1] \div 2]
           half == CHOOSE f : G(f)
<1>1. Bits(v) = {b \in 0 .. 30 : half[b] % 2 = 1}
  BY DEF Bits
<1>0. PICK m \in Nat : m = 30
  OBVIOUS
<1>2. \A f : G(f) <=> Turns("half", v, v, m, f)
  BY <1>0 DEF Turns, Turned
<1> HIDE DEF G
<1>3. \E f : G(f)
  BY <1>2, TurnsExist
<1>4. Turns("half", v, v, m, half)
  BY <1>2, <1>3
<1> HIDE DEF half
<1>5. half[0] = v /\ \A b \in 1 .. 30 : half[b] = half[b - 1] \div 2
  <2>1. half[0] = v /\ \A b \in 1 .. m : half[b] = Turned("half", v, half[b - 1], b)
    BY <1>4, TurnsAre
  <2> QED
    BY <1>0, <2>1 DEF Turned
<1>6. \A b \in 0 .. 30 : half[b] \in Nat
  <2> DEFINE bad == {b \in 0 .. 30 : half[b] \notin Nat}
  <2> SUFFICES ASSUME bad # {} PROVE FALSE
    OBVIOUS
  <2>1. PICK b \in bad : \A j \in bad : b <= j
    <3>1. bad \in SUBSET Nat
      OBVIOUS
    <3> HIDE DEF bad
    <3> QED
      BY <3>1, LeastNumber
  <2>2. b \in 1 .. 30 /\ b - 1 \in 0 .. 30
    BY <1>5, <2>1
  <2>3. half[b - 1] \in Nat
    BY <2>1, <2>2
  <2>4. half[b - 1] \div 2 \in Nat
    BY <2>3
  <2> QED
    BY <1>5, <2>1, <2>2, <2>4
<1> QED
  BY <1>1, <1>5, <1>6 DEF Halves

BitsRead(adts, low, width, r) ==
    /\ r[0] = 0
    /\ \A n \in 1 .. width :
         r[n] = 2 * r[n - 1] + (IF low + width - n \in adts THEN 1 ELSE 0)

LEMMA FieldIs ==
    ASSUME NEW adts, NEW low \in Nat, NEW width \in Nat
    PROVE  \E r : BitsRead(adts, low, width, r) /\ Field(adts, low, width) = r[width]
<1> DEFINE G(f) == f = [n \in 0 .. width |->
                          IF n = 0 THEN 0
                          ELSE 2 * f[n - 1] + (IF low + width - n \in adts THEN 1 ELSE 0)]
           read == CHOOSE f : G(f)
<1>1. Field(adts, low, width) = read[width]
  BY DEF Field
<1>2. PICK arg : arg = [low |-> low, width |-> width, adts |-> adts]
  OBVIOUS
<1>3. \A f : G(f) <=> Turns("read", arg, 0, width, f)
  BY <1>2 DEF Turns, Turned
<1> HIDE DEF G
<1>4. \E f : G(f)
  BY <1>3, TurnsExist
<1>5. Turns("read", arg, 0, width, read)
  BY <1>3, <1>4
<1> HIDE DEF read
<1>6. read[0] = 0 /\ \A n \in 1 .. width : read[n] = Turned("read", arg, read[n - 1], n)
  BY <1>5, TurnsAre
<1>7. \A n \in 1 .. width :
        read[n] = 2 * read[n - 1] + (IF low + width - n \in adts THEN 1 ELSE 0)
  BY <1>2, <1>6 DEF Turned
<1> QED
  BY <1>1, <1>6, <1>7 DEF BitsRead

Packed(fields, f) ==
    /\ f[0] = {}
    /\ \A n \in 1 .. 15 : f[n] = {b + fields[n][1] : b \in f[n - 1]} \cup Bits(fields[n][2])

LEMMA AdtsIs ==
    ASSUME NEW entry, NEW sample_size, NEW fields,
           fields = AdtsFields(entry, sample_size), Len(fields) = 15
    PROVE  \E f : Packed(fields, f) /\ Adts(entry, sample_size) = f[15] \cap 0 .. 55
<1> DEFINE G(f) == f = [n \in 0 .. 15 |->
                          IF n = 0 THEN {}
                          ELSE {b + fields[n][1] : b \in f[n - 1]} \cup Bits(fields[n][2])]
           adts == CHOOSE f : G(f)
<1>1. Adts(entry, sample_size) = adts[15] \cap 0 .. 55
  BY DEF Adts
<1>2. \A f : G(f) <=> Turns("adts", fields, {}, 15, f)
  BY DEF Turns, Turned
<1> HIDE DEF G
<1>3. \E f : G(f)
  BY <1>2, TurnsExist
<1>4. Turns("adts", fields, {}, 15, adts)
  BY <1>2, <1>3
<1> HIDE DEF adts
<1>5. adts[0] = {} /\ \A n \in 1 .. 15 : adts[n] = Turned("adts", fields, adts[n - 1], n)
  <2>1. PICK m \in Nat : m = 15
    OBVIOUS
  <2>2. PICK none : none = {}
    OBVIOUS
  <2>3. Turns("adts", fields, none, m, adts)
    BY <1>4, <2>1, <2>2
  <2>4. adts[0] = none /\ \A n \in 1 .. m : adts[n] = Turned("adts", fields, adts[n - 1], n)
    BY <2>3, TurnsAre
  <2> QED
    BY <2>1, <2>2, <2>4
<1>6. \A n \in 1 .. 15 :
        adts[n] = {b + fields[n][1] : b \in adts[n - 1]} \cup Bits(fields[n][2])
  BY <1>5 DEF Turned
<1> QED
  BY <1>1, <1>5, <1>6 DEF Packed

\* The numbers of so many bits.
Powers == <<2, 4, 8, 16, 32, 64, 128, 256, 512, 1024, 2048, 4096, 8192>>

LEMMA PowersAre ==
    /\ Powers[1] = 2
    /\ \A n \in 1 .. 12 : Powers[n] \in Nat /\ Powers[n + 1] = 2 * Powers[n]
    /\ Powers[13] \in Nat
<1>1. /\ Powers[1] = 2 /\ Powers[2] = 4 /\ Powers[3] = 8 /\ Powers[4] = 16
      /\ Powers[5] = 32 /\ Powers[6] = 64 /\ Powers[7] = 128 /\ Powers[8] = 256
      /\ Powers[9] = 512 /\ Powers[10] = 1024 /\ Powers[11] = 2048
      /\ Powers[12] = 4096 /\ Powers[13] = 8192
  BY DEF Powers
<1>2. ASSUME NEW n \in 1 .. 12 PROVE Powers[n] \in Nat /\ Powers[n + 1] = 2 * Powers[n]
  <2>1. n \in {1, 2, 3, 4, 5, 6, 7, 8, 9, 10, 11, 12}
    OBVIOUS
  <2> QED
    BY <1>1, <2>1
<1> QED
  BY <1>1, <1>2

Fits(v, width) == v < Powers[width]

\* Of a number that fits, the bits behind the width are 0.
LEMMA HalvesFit ==
    ASSUME NEW v \in Nat, NEW width \in 1 .. 13, Fits(v, width), NEW h, Halves(v, h)
    PROVE  \A b \in width .. 30 : h[b] = 0
<1>1. /\ h[0] = v /\ \A b \in 0 .. 30 : h[b] \in Nat
      /\ \A b \in 1 .. 30 : h[b] = h[b - 1] \div 2
  BY DEF Halves
<1>2. \A n \in 1 .. 13 : Powers[n] \in Nat
  BY PowersAre
<1>3. ASSUME NEW b \in 0 .. width - 1 PROVE h[b] < Powers[width - b]
  <2> DEFINE bad == {j \in 0 .. width - 1 : ~ (h[j] < Powers[width - j])}
  <2> SUFFICES ASSUME bad # {} PROVE FALSE
    OBVIOUS
  <2>1. PICK j \in bad : \A i \in bad : j <= i
    <3>1. bad \in SUBSET Nat
      OBVIOUS
    <3> HIDE DEF bad
    <3> QED
      BY <3>1, LeastNumber
  <2>2. CASE j = 0
    BY <1>1, <2>1, <2>2 DEF Fits
  <2>3. CASE j # 0
    <3>1. /\ j \in 1 .. 30 /\ j - 1 \in 0 .. width - 1 /\ j - 1 \in 0 .. 30
          /\ width - j \in 1 .. 12 /\ width - (j - 1) = (width - j) + 1
      BY <2>1, <2>3
    <3>2. h[j - 1] < Powers[width - (j - 1)]
      BY <2>1, <3>1
    <3>3. PICK p \in Nat : p = Powers[width - j] /\ Powers[width - (j - 1)] = 2 * p
      BY <3>1, PowersAre
    <3>4. PICK x \in Nat : x = h[j - 1] /\ h[j] = x \div 2
      BY <1>1, <3>1
    <3>5. x < 2 * p
      BY <3>2, <3>3, <3>4
    <3>6. x \div 2 < p
      BY <3>5
    <3> QED
      BY <2>1, <3>3, <3>4, <3>6
  <2> QED
    BY <2>2, <2>3
<1>4. h[width] = 0
  <2>1. width - 1 \in 0 .. width - 1 /\ width - (width - 1) = 1 /\ width - 1 \in 0 .. 30
    OBVIOUS
  <2>2. h[width - 1] < Powers[width - (width - 1)]
    BY <1>3, <2>1
  <2>3. PICK x \in Nat : x = h[width - 1] /\ x < 2
    BY <1>1, <2>1, <2>2, PowersAre
  <2>4. x \div 2 = 0
    BY <2>3
  <2>5. width \in 1 .. 30
    OBVIOUS
  <2> QED
    BY <1>1, <2>3, <2>4, <2>5
<1> DEFINE bad == {j \in width .. 30 : h[j] # 0}
<1> SUFFICES ASSUME bad # {} PROVE FALSE
  OBVIOUS
<1>5. PICK j \in bad : \A i \in bad : j <= i
  <2>1. bad \in SUBSET Nat
    OBVIOUS
  <2> HIDE DEF bad
  <2> QED
    BY <2>1, LeastNumber
<1>6. j # width
  BY <1>4, <1>5
<1>7. j \in 1 .. 30 /\ j - 1 \in width .. 30
  BY <1>5, <1>6
<1>8. h[j - 1] = 0
  BY <1>5, <1>7
<1>9. h[j] = 0
  <2>1. 0 \div 2 = 0
    OBVIOUS
  <2> QED
    BY <1>1, <1>7, <1>8, <2>1
<1> QED
  BY <1>5, <1>9

LEMMA BitsFit ==
    ASSUME NEW v \in Nat, NEW width \in 1 .. 13, Fits(v, width)
    PROVE  Bits(v) \subseteq 0 .. width - 1
<1>1. PICK h : Halves(v, h) /\ Bits(v) = {b \in 0 .. 30 : h[b] % 2 = 1}
  BY BitsAre
<1>2. \A b \in width .. 30 : h[b] = 0
  BY <1>1, HalvesFit
<1>3. ASSUME NEW b \in Bits(v) PROVE b \in 0 .. width - 1
  <2>1. b \in 0 .. 30 /\ h[b] % 2 = 1
    BY <1>1
  <2>2. h[b] # 0
    <3>1. 0 % 2 = 0
      OBVIOUS
    <3> QED
      BY <2>1, <3>1
  <2>3. b \notin width .. 30
    BY <1>2, <2>2
  <2> QED
    BY <2>1, <2>3
<1> QED
  BY <1>3

\* Who reads the bits of a number finds the number.
LEMMA FieldReads ==
    ASSUME NEW v \in Nat, NEW width \in 1 .. 13, Fits(v, width), NEW low \in Nat, NEW adts,
           \A b \in 0 .. width - 1 : low + b \in adts <=> b \in Bits(v)
    PROVE  Field(adts, low, width) = v
<1>1. PICK h : Halves(v, h) /\ Bits(v) = {b \in 0 .. 30 : h[b] % 2 = 1}
  BY BitsAre
<1>2. /\ h[0] = v /\ \A b \in 0 .. 30 : h[b] \in Nat
      /\ \A b \in 1 .. 30 : h[b] = h[b - 1] \div 2
  BY <1>1 DEF Halves
<1>3. h[width] = 0
  <2>1. width \in width .. 30
    OBVIOUS
  <2> QED
    BY <1>1, <2>1, HalvesFit
<1>4. PICK r : BitsRead(adts, low, width, r) /\ Field(adts, low, width) = r[width]
  <2>1. width \in Nat
    OBVIOUS
  <2> QED
    BY <2>1, FieldIs
<1> DEFINE bad == {n \in 0 .. width : r[n] # h[width - n]}
<1>5. bad = {}
  <2> SUFFICES ASSUME bad # {} PROVE FALSE
    OBVIOUS
  <2>1. PICK n \in bad : \A i \in bad : n <= i
    <3>1. bad \in SUBSET Nat
      OBVIOUS
    <3> HIDE DEF bad
    <3> QED
      BY <3>1, LeastNumber
  <2>2. n # 0
    <3>1. width - 0 = width
      OBVIOUS
    <3> QED
      BY <1>3, <1>4, <2>1, <3>1 DEF BitsRead
  <2>3. PICK b \in 0 .. width - 1 : b = width - n /\ width - (n - 1) = b + 1
    BY <2>1, <2>2
  <2>4. /\ n \in 1 .. width /\ n - 1 \in 0 .. width /\ low + width - n = low + b
        /\ b \in 0 .. 30 /\ b + 1 \in 1 .. 30 /\ b + 1 - 1 = b
    BY <2>1, <2>2, <2>3
  <2>5. r[n - 1] = h[b + 1]
    BY <2>1, <2>3, <2>4
  <2>6. PICK x \in Nat : x = h[b] /\ h[b + 1] = x \div 2
    BY <1>2, <2>4
  <2>7. low + b \in adts <=> x % 2 = 1
    BY <1>1, <2>3, <2>4, <2>6
  <2>8. r[n] = 2 * (x \div 2) + (IF x % 2 = 1 THEN 1 ELSE 0)
    <3>1. r[n] = 2 * r[n - 1] + (IF low + b \in adts THEN 1 ELSE 0)
      BY <1>4, <2>4 DEF BitsRead
    <3> QED
      BY <2>5, <2>6, <2>7, <3>1
  <2>9. 2 * (x \div 2) + (IF x % 2 = 1 THEN 1 ELSE 0) = x
    OBVIOUS
  <2>10. r[n] = h[width - n]
    BY <2>3, <2>6, <2>8, <2>9
  <2> QED
    BY <2>1, <2>10
<1>6. r[width] = h[0]
  <2>1. width \in 0 .. width /\ width - width = 0
    OBVIOUS
  <2>2. width \notin bad
    BY <1>5
  <2> QED
    BY <2>1, <2>2
<1> QED
  BY <1>2, <1>4, <1>6

\* The lowest bit of each field of the header.
Lows == <<44, 43, 41, 40, 38, 34, 33, 30, 29, 28, 27, 26, 13, 2, 0>>
Widths == <<12, 1, 2, 1, 2, 4, 1, 3, 1, 1, 1, 1, 13, 11, 2>>

LEMMA LowsAre ==
    /\ \A n \in 1 .. 15 : Lows[n] \in Nat /\ Widths[n] \in 1 .. 13 /\ Lows[n] + Widths[n] <= 56
    /\ \A n \in 2 .. 15 : Lows[n - 1] = Lows[n] + Widths[n]
    /\ Lows[15] = 0
<1>1. /\ Lows[1] = 44 /\ Lows[2] = 43 /\ Lows[3] = 41 /\ Lows[4] = 40 /\ Lows[5] = 38
      /\ Lows[6] = 34 /\ Lows[7] = 33 /\ Lows[8] = 30 /\ Lows[9] = 29 /\ Lows[10] = 28
      /\ Lows[11] = 27 /\ Lows[12] = 26 /\ Lows[13] = 13 /\ Lows[14] = 2 /\ Lows[15] = 0
  BY DEF Lows
<1>2. /\ Widths[1] = 12 /\ Widths[2] = 1 /\ Widths[3] = 2 /\ Widths[4] = 1 /\ Widths[5] = 2
      /\ Widths[6] = 4 /\ Widths[7] = 1 /\ Widths[8] = 3 /\ Widths[9] = 1 /\ Widths[10] = 1
      /\ Widths[11] = 1 /\ Widths[12] = 1 /\ Widths[13] = 13 /\ Widths[14] = 11 /\ Widths[15] = 2
  BY DEF Widths
<1>3. ASSUME NEW n \in 1 .. 15
      PROVE  Lows[n] \in Nat /\ Widths[n] \in 1 .. 13 /\ Lows[n] + Widths[n] <= 56
  <2>1. n \in {1, 2, 3, 4, 5, 6, 7, 8, 9, 10, 11, 12, 13, 14, 15}
    OBVIOUS
  <2> QED
    BY <1>1, <1>2, <2>1
<1>4. ASSUME NEW n \in 2 .. 15 PROVE Lows[n - 1] = Lows[n] + Widths[n]
  <2>1. n - 1 \in {1, 2, 3, 4, 5, 6, 7, 8, 9, 10, 11, 12, 13, 14} /\ n = (n - 1) + 1
    OBVIOUS
  <2> QED
    BY <1>1, <1>2, <2>1
<1> QED
  BY <1>1, <1>3, <1>4

\* Fields of these widths, each with a value that fits, lie side by side.
LEMMA FieldsApart ==
    ASSUME NEW fields, NEW f, Packed(fields, f),
           \A n \in 1 .. 15 : /\ fields[n][1] = Widths[n]
                              /\ fields[n][2] \in Nat /\ Fits(fields[n][2], Widths[n]),
           NEW i \in 1 .. 15, NEW b \in 0 .. Widths[i] - 1
    PROVE  Lows[i] + b \in f[15] <=> b \in Bits(fields[i][2])
<1> DEFINE At(n) == Lows[i] - Lows[n] + b
           bad == {n \in i .. 15 : ~ (/\ Lows[i] >= Lows[n]
                                      /\ At(n) \in f[n] <=> b \in Bits(fields[i][2]))}
<1>0. /\ f[0] = {}
      /\ \A n \in 1 .. 15 : f[n] = {x + fields[n][1] : x \in f[n - 1]} \cup Bits(fields[n][2])
  BY DEF Packed
<1>1. ASSUME NEW n \in 0 .. 15 PROVE f[n] \subseteq Nat
  <2> DEFINE wrong == {m \in 0 .. 15 : ~ (f[m] \subseteq Nat)}
  <2> SUFFICES ASSUME wrong # {} PROVE FALSE
    OBVIOUS
  <2>1. PICK m \in wrong : \A j \in wrong : m <= j
    <3>1. wrong \in SUBSET Nat
      OBVIOUS
    <3> HIDE DEF wrong
    <3> QED
      BY <3>1, LeastNumber
  <2>2. m \in 1 .. 15 /\ m - 1 \in 0 .. 15
    BY <1>0, <2>1
  <2>3. f[m - 1] \subseteq Nat
    BY <2>1, <2>2
  <2>4. Bits(fields[m][2]) \subseteq Nat /\ Widths[m] \in Nat
    <3>1. Widths[m] \in 1 .. 13
      BY <2>2, LowsAre
    <3>2. Bits(fields[m][2]) \subseteq 0 .. Widths[m] - 1
      BY <2>2, <3>1, BitsFit
    <3> QED
      BY <3>1, <3>2
  <2>5. {x + fields[m][1] : x \in f[m - 1]} \subseteq Nat
    BY <2>2, <2>3, <2>4
  <2>6. f[m] \subseteq Nat
    BY <1>0, <2>2, <2>4, <2>5
  <2> QED
    BY <2>1, <2>6
<1>2. bad = {}
  <2> SUFFICES ASSUME bad # {} PROVE FALSE
    OBVIOUS
  <2>1. PICK n \in bad : \A j \in bad : n <= j
    <3>1. bad \in SUBSET Nat
      OBVIOUS
    <3> HIDE DEF bad
    <3> QED
      BY <3>1, LeastNumber
  <2>2. n \in i .. 15 /\ n \in 1 .. 15 /\ n - 1 \in 0 .. 15
    BY <2>1
  <2>3. /\ f[n] = {x + Widths[n] : x \in f[n - 1]} \cup Bits(fields[n][2])
        /\ f[n - 1] \subseteq Nat /\ Bits(fields[n][2]) \subseteq 0 .. Widths[n] - 1
        /\ Lows[n] \in Nat /\ Widths[n] \in 1 .. 13 /\ Lows[i] \in Nat
    <3>1. Widths[n] \in 1 .. 13 /\ Lows[n] \in Nat /\ Lows[i] \in Nat
      BY <2>2, LowsAre
    <3>2. Bits(fields[n][2]) \subseteq 0 .. Widths[n] - 1
      BY <2>2, <3>1, BitsFit
    <3>3. f[n] = {x + Widths[n] : x \in f[n - 1]} \cup Bits(fields[n][2])
      BY <1>0, <2>2
    <3> QED
      BY <1>1, <2>2, <3>1, <3>2, <3>3
  <2>4. CASE n = i
    <3>1. At(n) = b /\ Lows[i] >= Lows[n] /\ b < Widths[n]
      BY <2>3, <2>4
    <3>2. \A x \in f[n - 1] : x + Widths[n] # b
      BY <2>3, <3>1
    <3>3. b \in f[n] <=> b \in Bits(fields[n][2])
      BY <2>3, <3>2
    <3> QED
      BY <2>1, <2>4, <3>1, <3>3
  <2>5. CASE n # i
    <3>1. n - 1 \in i .. 15 /\ n \in 2 .. 15
      BY <2>2, <2>5
    <3>2. Lows[i] >= Lows[n - 1] /\ (At(n - 1) \in f[n - 1] <=> b \in Bits(fields[i][2]))
      <4>1. n - 1 \notin bad
        BY <2>1, <2>2
      <4> QED
        BY <3>1, <4>1
    <3>3. Lows[n - 1] = Lows[n] + Widths[n]
      BY <3>1, LowsAre
    <3>4. PICK y \in Nat : y = At(n - 1) /\ At(n) = y + Widths[n] /\ Lows[i] >= Lows[n]
      BY <2>3, <3>2, <3>3
    <3>5. y + Widths[n] \notin Bits(fields[n][2])
      BY <2>3
    <3>6. y + Widths[n] \in {x + Widths[n] : x \in f[n - 1]} <=> y \in f[n - 1]
      <4>1. \A x \in f[n - 1] : x + Widths[n] = y + Widths[n] => x = y
        BY <2>3
      <4> QED
        BY <4>1
    <3>7. At(n) \in f[n] <=> y \in f[n - 1]
      BY <2>3, <3>4, <3>5, <3>6
    <3> QED
      BY <2>1, <3>2, <3>4, <3>7
  <2> QED
    BY <2>4, <2>5
<1>3. At(15) \in f[15] <=> b \in Bits(fields[i][2])
  <2>1. 15 \in i .. 15 /\ 15 \notin bad
    BY <1>2
  <2> QED
    BY <2>1
<1>4. At(15) = Lows[i] + b
  BY LowsAre
<1> QED
  BY <1>3, <1>4

LEMMA SampleRateIs ==
    ASSUME NEW rate
    PROVE  /\ SampleRateIndex(rate) \in 0 .. 12
           /\ rate \in ToSet(aac_samplerates) => aac_samplerates[SampleRateIndex(rate) + 1] = rate
<1> DEFINE found == {i \in 0 .. 12 : aac_samplerates[i + 1] = rate}
<1>1. CASE found = {}
  <2>1. SampleRateIndex(rate) = 4
    BY <1>1 DEF SampleRateIndex
  <2>2. rate \notin ToSet(aac_samplerates)
    <3> SUFFICES ASSUME rate \in ToSet(aac_samplerates) PROVE FALSE
      OBVIOUS
    <3>1. PICK n \in 1 .. 13 : aac_samplerates[n] = rate
      BY DEF ToSet, aac_samplerates
    <3>2. n - 1 \in 0 .. 12 /\ (n - 1) + 1 = n
      OBVIOUS
    <3>3. n - 1 \in found
      BY <3>1, <3>2
    <3> QED
      BY <1>1, <3>3
  <2> QED
    BY <2>1, <2>2
<1>2. CASE found # {}
  <2>1. PICK m \in found : \A j \in found : m <= j
    <3>1. found \in SUBSET Nat
      OBVIOUS
    <3> HIDE DEF found
    <3> QED
      BY <1>2, <3>1, LeastNumber
  <2>2. SampleRateIndex(rate) = Min(found)
    BY <1>2 DEF SampleRateIndex
  <2>3. Min(found) \in found
    <3> HIDE DEF found
    <3> QED
      BY <2>1 DEF Min
  <2> QED
    BY <2>2, <2>3
<1> QED
  BY <1>1, <1>2

\* What a player reads in the header.
LEMMA HeaderIs ==
    ASSUME NEW entry, entry.channels \in 0 .. 7, NEW size \in Nat, 7 + size < 8192
    PROVE  LET header == Reading(Adts(entry, size))
           IN  /\ header.syncword = 4095 /\ header.layer = 0
               /\ header.protection_absent = 1 /\ header.raw_data_blocks = 0
               /\ header.sampling_frequency_index = SampleRateIndex(entry.rate)
               /\ header.channel_configuration = entry.channels
               /\ header.frame_length = 7 + size
<1>1. PICK rate \in 0 .. 12 : rate = SampleRateIndex(entry.rate)
  BY SampleRateIs
<1>2. PICK channels \in 0 .. 7 : channels = entry.channels
  OBVIOUS
<1>3. PICK length \in Nat : length = 7 + size /\ length < 8192
  OBVIOUS
<1>4. PICK fields : fields = AdtsFields(entry, size)
  OBVIOUS
<1>5. fields = <<<<12, 4095>>, <<1, 0>>, <<2, 0>>, <<1, 1>>, <<2, 1>>, <<4, rate>>, <<1, 0>>,
                 <<3, channels>>, <<1, 0>>, <<1, 0>>, <<1, 0>>, <<1, 0>>, <<13, length>>,
                 <<11, 2047>>, <<2, 0>>>>
  BY <1>1, <1>2, <1>3, <1>4 DEF AdtsFields
<1>6. /\ Len(fields) = 15
      /\ fields[1] = <<12, 4095>> /\ fields[2] = <<1, 0>> /\ fields[3] = <<2, 0>>
      /\ fields[4] = <<1, 1>> /\ fields[5] = <<2, 1>> /\ fields[6] = <<4, rate>>
      /\ fields[7] = <<1, 0>> /\ fields[8] = <<3, channels>> /\ fields[9] = <<1, 0>>
      /\ fields[10] = <<1, 0>> /\ fields[11] = <<1, 0>> /\ fields[12] = <<1, 0>>
      /\ fields[13] = <<13, length>> /\ fields[14] = <<11, 2047>> /\ fields[15] = <<2, 0>>
  BY <1>5
<1>7. /\ fields[1][2] = 4095 /\ fields[3][2] = 0 /\ fields[4][2] = 1 /\ fields[6][2] = rate
      /\ fields[8][2] = channels /\ fields[13][2] = length /\ fields[15][2] = 0
  BY <1>6
<1>8. ASSUME NEW n \in 1 .. 15
      PROVE  /\ fields[n][1] = Widths[n]
             /\ fields[n][2] \in Nat /\ Fits(fields[n][2], Widths[n])
  <2>1. n \in {1, 2, 3, 4, 5, 6, 7, 8, 9, 10, 11, 12, 13, 14, 15}
    OBVIOUS
  <2>2. fields[n][1] = Widths[n]
    BY <1>6, <2>1 DEF Widths
  <2>3. fields[n][2] \in Nat
    BY <1>6, <2>1
  <2>4. fields[n][2] < Powers[fields[n][1]]
    BY <1>3, <1>6, <2>1 DEF Powers
  <2> QED
    BY <2>2, <2>3, <2>4 DEF Fits
<1>9. PICK f : Packed(fields, f) /\ Adts(entry, size) = f[15] \cap 0 .. 55
  BY <1>4, <1>6, AdtsIs
<1>10. PICK adts : adts = Adts(entry, size)
  OBVIOUS
<1>11. ASSUME NEW i \in 1 .. 15 PROVE Field(adts, Lows[i], Widths[i]) = fields[i][2]
  <2>1. Lows[i] \in Nat /\ Widths[i] \in 1 .. 13 /\ Lows[i] + Widths[i] <= 56
    BY LowsAre
  <2>2. ASSUME NEW b \in 0 .. Widths[i] - 1
        PROVE  Lows[i] + b \in adts <=> b \in Bits(fields[i][2])
    <3>1. Lows[i] + b \in f[15] <=> b \in Bits(fields[i][2])
      BY <1>8, <1>9, FieldsApart
    <3>2. Lows[i] + b \in 0 .. 55
      BY <2>1
    <3> QED
      BY <1>9, <1>10, <3>1, <3>2
  <2>3. PICK v \in Nat : v = fields[i][2] /\ Fits(v, Widths[i])
    BY <1>8
  <2> QED
    BY <2>1, <2>2, <2>3, FieldReads
<1>12. /\ Lows[1] = 44 /\ Lows[3] = 41 /\ Lows[4] = 40 /\ Lows[6] = 34 /\ Lows[8] = 30
       /\ Lows[13] = 13 /\ Lows[15] = 0
  BY DEF Lows
<1>13. /\ Widths[1] = 12 /\ Widths[3] = 2 /\ Widths[4] = 1 /\ Widths[6] = 4 /\ Widths[8] = 3
       /\ Widths[13] = 13 /\ Widths[15] = 2
  BY DEF Widths
<1>14. /\ Field(adts, 44, 12) = 4095 /\ Field(adts, 41, 2) = 0 /\ Field(adts, 40, 1) = 1
       /\ Field(adts, 34, 4) = rate /\ Field(adts, 30, 3) = channels
       /\ Field(adts, 13, 13) = length /\ Field(adts, 0, 2) = 0
  BY <1>7, <1>11, <1>12, <1>13
<1> QED
  BY <1>1, <1>2, <1>3, <1>10, <1>14 DEF Reading

-------------------------------------------------------------------------------
(* What is taken from an entry of stsd that is parsed.                         *)

\* If every step that is not refused leaves the entry as it was, so does the loop.
LEMMA StepsSame ==
    ASSUME NEW read, NEW boxes, NEW entry, NEW m \in Nat, NEW f,
           BoxSteps(read, boxes, entry, m, f), f[m].ok,
           \A k \in 1 .. m : BoxStep(read, entry, boxes[k]).ok => BoxStep(read, entry, boxes[k]) = entry
    PROVE  f[m] = entry
<1> DEFINE bad == {k \in 0 .. m : f[k].ok /\ f[k] # entry}
<1> SUFFICES ASSUME bad # {} PROVE FALSE
  OBVIOUS
<1>1. PICK k \in bad : \A j \in bad : k <= j
  <2>1. bad \in SUBSET Nat
    OBVIOUS
  <2> HIDE DEF bad
  <2> QED
    BY <2>1, LeastNumber
<1>2. \A i \in 0 .. m : f[i] = IF i = 0 THEN entry ELSE BoxStep(read, f[i - 1], boxes[i])
  BY DEF BoxSteps
<1>3. k \in 0 .. m /\ f[k].ok /\ f[k] # entry
  BY <1>1
<1>4. k # 0
  BY <1>2, <1>3
<1>5. k - 1 \in 0 .. m /\ k \in 1 .. m /\ ~ (k <= k - 1)
  BY <1>3, <1>4
<1>6. f[k - 1].ok => f[k - 1] = entry
  BY <1>1, <1>5
<1>7. f[k] = BoxStep(read, f[k - 1], boxes[k])
  BY <1>2, <1>3, <1>4
<1>8. f[k - 1].ok
  BY <1>3, <1>7 DEF BoxStep
<1> QED
  BY <1>3, <1>5, <1>6, <1>7, <1>8

LEMMA RefusedIs == ~ Refused.ok
BY DEF Refused, Fresh

\* The boxes of a sound leave its entry as it is.
LEMMA WaveSame ==
    ASSUME NEW e, e.ok, NEW b, b.type = "wave" => IsList(b.boxes), Wave(e, b).ok
    PROVE  Wave(e, b) = e
<1>1. ASSUME NEW x, Esds(e, x).ok PROVE Esds(e, x) = e
  BY <1>1, RefusedIs DEF Esds
<1>2. CASE b.type # "wave"
  BY <1>1, <1>2 DEF Wave
<1>3. CASE b.type = "wave"
  <2>1. PICK boxes : boxes = b.boxes
    OBVIOUS
  <2>2. PICK m \in Nat : m = Len(boxes)
    BY <1>3, <2>1, ListIs
  <2>3. PICK f : BoxSteps("wave", boxes, e, m, f) /\ OverBoxes(boxes, e, Esds) = f[m]
    BY <2>2, LoopsAre
  <2>4. Wave(e, b) = f[m]
    BY <1>3, <2>1, <2>3 DEF Wave
  <2>5. ASSUME NEW k \in 1 .. m, BoxStep("wave", e, boxes[k]).ok PROVE BoxStep("wave", e, boxes[k]) = e
    BY <1>1, <2>5, RefusedIs DEF BoxStep, ReadBox
  <2> QED
    BY <2>3, <2>4, <2>5, StepsSame
<1> QED
  BY <1>2, <1>3

\* A sound that is parsed has the rate of its entry and the channels of it, six
\* for three.
LEMMA SounSame ==
    ASSUME NEW raw, IsEntry(raw), ParseSoun(raw).ok
    PROVE  /\ ParseSoun(raw).channels = (IF raw.channels = 3 THEN 6 ELSE raw.channels)
           /\ ParseSoun(raw).rate = raw.rate
<1>1. PICK entry : entry = [Fresh EXCEPT !.channels = IF raw.channels = 3 THEN 6 ELSE raw.channels,
                                         !.rate = raw.rate]
  OBVIOUS
<1>2. entry.ok /\ entry.rate = raw.rate
      /\ entry.channels = (IF raw.channels = 3 THEN 6 ELSE raw.channels)
  BY <1>1 DEF Fresh
<1>3. ParseSoun(raw) = IF ~ raw.fixed THEN Refused
                       ELSE IF raw.fourcc = "owma" THEN entry
                       ELSE IF raw.version > 2 \/ (raw.version > 0 /\ ~ raw.extended) THEN Refused
                       ELSE OverBoxes(raw.boxes, entry, Wave)
  BY <1>1 DEF ParseSoun
<1>4. CASE ParseSoun(raw) = entry
  BY <1>2, <1>4
<1>5. CASE ParseSoun(raw) = OverBoxes(raw.boxes, entry, Wave)
  <2>1. PICK boxes : boxes = raw.boxes
    OBVIOUS
  <2>2. IsList(boxes) /\ \A b \in ToSet(boxes) : b.type = "wave" => IsList(b.boxes)
    BY <2>1 DEF IsEntry
  <2>3. PICK m \in Nat : m = Len(boxes)
    BY <2>2, ListIs
  <2>4. \A k \in 1 .. m : boxes[k] \in ToSet(boxes)
    BY <2>2, <2>3, ListIs
  <2>5. PICK f : BoxSteps("soun", boxes, entry, m, f) /\ OverBoxes(boxes, entry, Wave) = f[m]
    BY <2>3, LoopsAre
  <2>6. ASSUME NEW k \in 1 .. m, BoxStep("soun", entry, boxes[k]).ok
        PROVE  BoxStep("soun", entry, boxes[k]) = entry
    <3>1. PICK b \in ToSet(boxes) : b = boxes[k]
      BY <2>4
    <3>2. BoxStep("soun", entry, b) = IF b.fate = "broken" THEN Refused ELSE Wave(entry, b)
      BY <1>2 DEF BoxStep, ReadBox
    <3>3. BoxStep("soun", entry, b) = Wave(entry, b) /\ Wave(entry, b).ok
      BY <2>6, <3>1, <3>2, RefusedIs
    <3> QED
      BY <1>2, <2>2, <3>1, <3>3, WaveSame
  <2>7. f[m] = entry
    BY <1>5, <2>1, <2>5, <2>6, StepsSame
  <2> QED
    BY <1>2, <1>5, <2>1, <2>5, <2>7
<1> QED
  BY <1>3, <1>4, <1>5, RefusedIs

\* A set that comes from the first k lists.
SetFrom(lists, k, set) ==
    \/ set = NoSet /\ \A j \in 1 .. k : lists[j] = <<>>
    \/ \E j \in 1 .. k : set \in ToSet(lists[j])

LEMMA SetFromNext ==
    ASSUME NEW lists, NEW k \in Nat \ {0}, NEW set, SetFrom(lists, k - 1, set), IsList(lists[k])
    PROVE  SetFrom(lists, k, LastSet(lists[k], set))
<1>1. PICK list : list = lists[k]
  OBVIOUS
<1>2. k \in 1 .. k /\ \A j \in 1 .. k - 1 : j \in 1 .. k
  OBVIOUS
<1>3. CASE list = <<>>
  <2>1. LastSet(list, set) = set
    BY <1>3 DEF LastSet
  <2>2. CASE set = NoSet /\ \A j \in 1 .. k - 1 : lists[j] = <<>>
    <3>1. \A j \in 1 .. k : lists[j] = <<>>
      <4> TAKE j \in 1 .. k
      <4>1. j = k \/ j \in 1 .. k - 1
        OBVIOUS
      <4> QED
        BY <1>1, <1>3, <2>2, <4>1
    <3> QED
      BY <1>1, <2>1, <2>2, <3>1 DEF SetFrom
  <2>3. CASE \E j \in 1 .. k - 1 : set \in ToSet(lists[j])
    BY <1>1, <1>2, <2>1, <2>3 DEF SetFrom
  <2> QED
    BY <2>2, <2>3 DEF SetFrom
<1>4. CASE list # <<>>
  <2>1. list \in Seq(ToSet(list))
    BY <1>1 DEF IsList
  <2>2. PICK S : S = ToSet(list)
    OBVIOUS
  <2>3. list \in Seq(S) /\ list # <<>>
    BY <1>4, <2>1, <2>2
  <2>4. Len(list) \in 1 .. Len(list)
    BY <2>3
  <2>5. list[Len(list)] \in S
    BY <2>3, <2>4
  <2>6. LastSet(list, set) = list[Len(list)]
    BY <1>4 DEF LastSet, Last
  <2> QED
    BY <1>1, <1>2, <2>2, <2>5, <2>6 DEF SetFrom
<1> QED
  BY <1>3, <1>4

\* The sets of a box.
SpsOf(b) == IF b.type = "avcC" THEN b.sps ELSE <<>>
PpsOf(b) == IF b.type = "avcC" THEN b.pps ELSE <<>>

Whose(e) ==
    e = [ok |-> e.ok, sps |-> e.sps, pps |-> e.pps, channels |-> e.channels, rate |-> e.rate]

LEMMA VideBoxSets ==
    ASSUME NEW e, Whose(e), e.ok, NEW b, BoxStep("vide", e, b).ok
    PROVE  LET next == BoxStep("vide", e, b)
           IN  /\ Whose(next)
               /\ next.sps = LastSet(SpsOf(b), e.sps)
               /\ next.pps = LastSet(PpsOf(b), e.pps)
<1>1. BoxStep("vide", e, b) = VideBox(e, b)
  BY RefusedIs DEF BoxStep, ReadBox
<1>2. CASE b.type = "avcC"
  <2>1. VideBox(e, b) = [e EXCEPT !.sps = LastSet(b.sps, @), !.pps = LastSet(b.pps, @)]
    BY <1>2 DEF VideBox
  <2>2. PICK s, p : s = LastSet(b.sps, e.sps) /\ p = LastSet(b.pps, e.pps)
    OBVIOUS
  <2>3. VideBox(e, b) = [e EXCEPT !.sps = s, !.pps = p]
    BY <2>1, <2>2
  <2>4. VideBox(e, b) = [ok |-> e.ok, sps |-> s, pps |-> p, channels |-> e.channels, rate |-> e.rate]
    BY <2>3 DEF Whose
  <2> QED
    BY <1>1, <1>2, <2>2, <2>4 DEF Whose, SpsOf, PpsOf
<1>3. CASE b.type # "avcC"
  <2>1. VideBox(e, b) = e
    BY <1>1, <1>3, RefusedIs DEF VideBox, Esds
  <2> QED
    BY <1>1, <1>3, <2>1 DEF SpsOf, PpsOf, LastSet
<1> QED
  BY <1>2, <1>3

LEMMA VideSteps ==
    ASSUME NEW boxes, NEW m \in Nat, NEW f, BoxSteps("vide", boxes, Fresh, m, f), f[m].ok,
           NEW sps, NEW pps,
           \A k \in 1 .. m : /\ sps[k] = SpsOf(boxes[k]) /\ IsList(sps[k])
                             /\ pps[k] = PpsOf(boxes[k]) /\ IsList(pps[k])
    PROVE  SetFrom(sps, m, f[m].sps) /\ SetFrom(pps, m, f[m].pps)
<1> DEFINE Good(k) == f[k].ok => Whose(f[k]) /\ SetFrom(sps, k, f[k].sps) /\ SetFrom(pps, k, f[k].pps)
           bad == {k \in 0 .. m : ~ Good(k)}
<1> SUFFICES ASSUME bad # {} PROVE FALSE
  OBVIOUS
<1>1. PICK k \in bad : \A j \in bad : k <= j
  <2>1. bad \in SUBSET Nat
    OBVIOUS
  <2> HIDE DEF bad
  <2> QED
    BY <2>1, LeastNumber
<1>2. \A i \in 0 .. m : f[i] = IF i = 0 THEN Fresh ELSE BoxStep("vide", f[i - 1], boxes[i])
  BY DEF BoxSteps
<1>3. k \in 0 .. m /\ ~ Good(k)
  BY <1>1
<1>4. k # 0
  <2>1. f[0] = Fresh
    BY <1>2
  <2>2. Whose(f[0])
    BY <2>1 DEF Fresh, Whose
  <2>3. f[0].sps = NoSet /\ f[0].pps = NoSet
    BY <2>1 DEF Fresh
  <2>4. SetFrom(sps, 0, NoSet) /\ SetFrom(pps, 0, NoSet)
    BY DEF SetFrom
  <2> QED
    BY <1>3, <2>2, <2>3, <2>4
<1>5. k - 1 \in 0 .. m /\ k \in 1 .. m /\ ~ (k <= k - 1) /\ k \in Nat \ {0}
  BY <1>3, <1>4
<1>6. Good(k - 1)
  BY <1>1, <1>5
<1>7. f[k] = BoxStep("vide", f[k - 1], boxes[k])
  BY <1>2, <1>3, <1>4
<1>8. f[k].ok
  BY <1>3
<1>9. f[k - 1].ok
  BY <1>7, <1>8 DEF BoxStep
<1>10. PICK e : e = f[k - 1]
  OBVIOUS
<1>11. Whose(e) /\ e.ok /\ SetFrom(sps, k - 1, e.sps) /\ SetFrom(pps, k - 1, e.pps)
  BY <1>6, <1>9, <1>10
<1>12. PICK b : b = boxes[k]
  OBVIOUS
<1>13. /\ Whose(f[k])
       /\ f[k].sps = LastSet(SpsOf(b), e.sps)
       /\ f[k].pps = LastSet(PpsOf(b), e.pps)
  BY <1>7, <1>8, <1>10, <1>11, <1>12, VideBoxSets
<1>14. SetFrom(sps, k, LastSet(sps[k], e.sps)) /\ SetFrom(pps, k, LastSet(pps[k], e.pps))
  BY <1>5, <1>11, SetFromNext
<1>15. sps[k] = SpsOf(b) /\ pps[k] = PpsOf(b)
  BY <1>5, <1>12
<1> QED
  BY <1>3, <1>13, <1>14, <1>15

\* The set taken from the lists is one of theirs, if they have any.
OneOf(set, sets) == IF sets = {} THEN set = NoSet ELSE set \in sets

LEMMA SetTaken ==
    ASSUME NEW lists, NEW m \in Nat, NEW set, SetFrom(lists, m, set),
           NEW sets, sets = UNION {ToSet(lists[j]) : j \in 1 .. m}
    PROVE  OneOf(set, sets)
<1> SUFFICES IF sets = {} THEN set = NoSet ELSE set \in sets
  BY DEF OneOf
<1>1. ToSet(<<>>) = {}
  BY DEF ToSet
<1>2. CASE set = NoSet /\ \A j \in 1 .. m : lists[j] = <<>>
  <2>1. \A j \in 1 .. m : ToSet(lists[j]) = {}
    BY <1>1, <1>2
  <2>2. sets = {}
    BY <2>1
  <2> QED
    BY <1>2, <2>2
<1>3. CASE \E j \in 1 .. m : set \in ToSet(lists[j])
  BY <1>3
<1> QED
  BY <1>2, <1>3 DEF SetFrom

\* The parameter sets of a video that is parsed.
LEMMA VideSets ==
    ASSUME NEW raw, IsEntry(raw), ParseVide(raw).ok, raw.fourcc # "ovc1",
           NEW avcC, avcC = {b \in ToSet(raw.boxes) : b.type = "avcC"},
           NEW sps, sps = UNION {ToSet(b.sps) : b \in avcC},
           NEW pps, pps = UNION {ToSet(b.pps) : b \in avcC}
    PROVE  OneOf(ParseVide(raw).sps, sps) /\ OneOf(ParseVide(raw).pps, pps)
<1>1. PICK boxes : boxes = raw.boxes
  OBVIOUS
<1>2. IsList(boxes) /\ \A b \in ToSet(boxes) : b.type = "avcC" => IsList(b.sps) /\ IsList(b.pps)
  BY <1>1 DEF IsEntry
<1>3. PICK m \in Nat : m = Len(boxes)
  BY <1>2, ListIs
<1>4. ToSet(boxes) = {boxes[k] : k \in 1 .. m}
  BY <1>2, <1>3 DEF IsList, ToSet
<1>5. PICK f : BoxSteps("vide", boxes, Fresh, m, f) /\ OverBoxes(boxes, Fresh, VideBox) = f[m]
  BY <1>3, LoopsAre
<1>6. ParseVide(raw) = f[m] /\ f[m].ok
  BY <1>1, <1>5, RefusedIs DEF ParseVide
<1> DEFINE s == [k \in 1 .. m |-> SpsOf(boxes[k])]
           p == [k \in 1 .. m |-> PpsOf(boxes[k])]
<1>7. ToSet(<<>>) = {} /\ IsList(<<>>)
  BY DEF ToSet, IsList
<1>8. ASSUME NEW b \in ToSet(boxes)
      PROVE  IsList(SpsOf(b)) /\ IsList(PpsOf(b))
  BY <1>2, <1>7 DEF SpsOf, PpsOf
<1>9. \A k \in 1 .. m : /\ s[k] = SpsOf(boxes[k]) /\ IsList(s[k])
                        /\ p[k] = PpsOf(boxes[k]) /\ IsList(p[k])
  BY <1>4, <1>8
<1>10. sps = UNION {ToSet(s[j]) : j \in 1 .. m}
  <2>1. ASSUME NEW x \in sps PROVE \E j \in 1 .. m : x \in ToSet(s[j])
    <3>1. PICK b \in avcC : x \in ToSet(b.sps)
      BY <2>1
    <3>2. PICK j \in 1 .. m : b = boxes[j] /\ b.type = "avcC"
      BY <1>1, <1>4, <3>1
    <3> QED
      BY <3>1, <3>2 DEF SpsOf
  <2>2. ASSUME NEW j \in 1 .. m, NEW x \in ToSet(s[j]) PROVE x \in sps
    <3>1. PICK b \in ToSet(boxes) : b = boxes[j] /\ s[j] = SpsOf(b)
      BY <1>4
    <3>2. b.type = "avcC" /\ x \in ToSet(b.sps)
      BY <1>7, <2>2, <3>1 DEF SpsOf
    <3> QED
      BY <1>1, <3>1, <3>2
  <2> HIDE DEF s
  <2> QED
    BY <2>1, <2>2
<1>11. pps = UNION {ToSet(p[j]) : j \in 1 .. m}
  <2>1. ASSUME NEW x \in pps PROVE \E j \in 1 .. m : x \in ToSet(p[j])
    <3>1. PICK b \in avcC : x \in ToSet(b.pps)
      BY <2>1
    <3>2. PICK j \in 1 .. m : b = boxes[j] /\ b.type = "avcC"
      BY <1>1, <1>4, <3>1
    <3> QED
      BY <3>1, <3>2 DEF PpsOf
  <2>2. ASSUME NEW j \in 1 .. m, NEW x \in ToSet(p[j]) PROVE x \in pps
    <3>1. PICK b \in ToSet(boxes) : b = boxes[j] /\ p[j] = PpsOf(b)
      BY <1>4
    <3>2. b.type = "avcC" /\ x \in ToSet(b.pps)
      BY <1>7, <2>2, <3>1 DEF PpsOf
    <3> QED
      BY <1>1, <3>1, <3>2
  <2> HIDE DEF p
  <2> QED
    BY <2>1, <2>2
<1> HIDE DEF s, p
<1>12. SetFrom(s, m, f[m].sps) /\ SetFrom(p, m, f[m].pps)
  BY <1>5, <1>6, <1>9, VideSteps
<1>13. OneOf(f[m].sps, sps)
  BY <1>10, <1>12, SetTaken
<1>14. OneOf(f[m].pps, pps)
  BY <1>11, <1>12, SetTaken
<1> QED
  BY <1>6, <1>13, <1>14

-------------------------------------------------------------------------------
(* The tracks of moov keep the descriptions that stsd_parse accepted.          *)

StsdKept == \A t \in Traks : StsdParsed(t)

Stsds(t) == Step(Step(Step(Held(t, "mdia"), "minf"), "stbl"), "stsd")

StsdsAre == \A t : Follow(t, <<"mdia", "minf", "stbl", "stsd">>) = Stsds(t)

LEMMA StsdsHold == StsdsAre
BY PathFour DEF StsdsAre, Stsds

\* Where a step changes what c holds, and nobody owns c, nothing below a track
\* that is not c is changed.
HeldBut(c) == \A x, slot : x # c /\ x # None /\ slot # "unknown" => Held(x, slot)' = Held(x, slot)

LEMMA StepStands ==
    ASSUME NEW c, HeldBut(c), owner[c] = None, NEW S, c \notin S, None \notin S,
           NEW slot, slot # "unknown"
    PROVE  /\ Step(S, slot)' = Step(S, slot)
           /\ c \notin Step(S, slot) /\ None \notin Step(S, slot)
<1>1. \A x \in S : Held(x, slot)' = Held(x, slot)
  BY DEF HeldBut
<1>2. Step(S, slot)' = Step(S, slot)
  BY <1>1 DEF Step
<1>3. \A k \in Step(S, slot) : k \in Atoms /\ owner[k] \in S
  BY DEF Step, Held
<1>4. None \notin Atoms
  BY DEF Atoms, None
<1> QED
  BY <1>2, <1>3, <1>4

LEMMA ParsedStands ==
    ASSUME NEW c, HeldBut(c), owner[c] = None, UNCHANGED atoms,
           NEW t, t # c, t # None, StsdParsed(t)
    PROVE  StsdParsed(t)'
<1>1. HandlersAre /\ HandlersAre' /\ StsdsAre /\ StsdsAre'
  BY HandlersHold, StsdsHold, PTL
<1>2. PICK M : M = Held(t, "mdia")
  OBVIOUS
<1>3. Held(t, "mdia")' = M /\ c \notin M /\ None \notin M
  <2>1. \A k \in M : k \in Atoms /\ owner[k] = t
    BY <1>2 DEF Held
  <2>2. None \notin Atoms
    BY DEF Atoms, None
  <2> QED
    BY <1>2, <2>1, <2>2 DEF HeldBut
<1>4. PICK H : H = Step(M, "hdlr")
  OBVIOUS
<1>5. Step(M, "hdlr")' = H
  BY <1>3, <1>4, StepStands
<1>6. PICK I : I = Step(M, "minf")
  OBVIOUS
<1>7. Step(M, "minf")' = I /\ c \notin I /\ None \notin I
  BY <1>3, <1>6, StepStands
<1>8. PICK S : S = Step(I, "stbl")
  OBVIOUS
<1>9. Step(I, "stbl")' = S /\ c \notin S /\ None \notin S
  BY <1>7, <1>8, StepStands
<1>10. PICK D : D = Step(S, "stsd")
  OBVIOUS
<1>11. Step(S, "stsd")' = D
  BY <1>9, <1>10, StepStands
<1>12. Stsds(t) = D
  BY <1>2, <1>6, <1>8, <1>10 DEF Stsds
<1>13. Stsds(t)' = D
  <2>1. Step(Held(t, "mdia"), "minf")' = I
    BY <1>3, <1>7 DEF Step
  <2>2. Step(Step(Held(t, "mdia"), "minf"), "stbl")' = S
    BY <1>9, <2>1 DEF Step
  <2>3. Step(Step(Step(Held(t, "mdia"), "minf"), "stbl"), "stsd")' = D
    BY <1>11, <2>2 DEF Step
  <2> QED
    BY <2>3 DEF Stsds
<1>14. Handler(t) = {atoms[h].fate : h \in H}
  BY <1>1, <1>2, <1>4 DEF HandlersAre
<1>15. Handler(t)' = {atoms'[h].fate : h \in H}
  <2>1. Step(Held(t, "mdia"), "hdlr")' = H
    BY <1>3, <1>5 DEF Step
  <2> QED
    BY <1>1, <2>1 DEF HandlersAre
<1>16. Handler(t)' = Handler(t)
  BY <1>14, <1>15
<1>17. PICK path : path = <<"mdia", "minf", "stbl", "stsd">>
  OBVIOUS
<1>18. Follow(t, path) = D /\ Follow(t, path)' = D
  BY <1>1, <1>12, <1>13, <1>17 DEF StsdsAre
<1>19. \A d \in D : \A handler \in Handler(t) : StsdAccepted(handler, atoms[d].entries)
  BY <1>17, <1>18 DEF StsdParsed
<1> SUFFICES ASSUME NEW d \in D, NEW handler \in Handler(t)
             PROVE  StsdAccepted(handler, atoms[d].entries)'
  BY <1>16, <1>17, <1>18 DEF StsdParsed
<1> QED
  BY <1>19 DEF StsdAccepted

\* What is attached to c: block k, and nothing else is held otherwise.
LEMMA AttachHeld ==
    ASSUME TreeInv, NEW c \in Atoms, NEW k \in 1 .. Len(atoms), owner[k] = None,
           owner' = Attached(c, k), UNCHANGED atoms
    PROVE  /\ HeldBut(c)
           /\ \A slot : Held(c, slot)' \subseteq Held(c, slot) \cup {k}
           /\ \A slot : k \in Held(c, slot)' => slot = Slot(c, TypeOf(k))
<1>1. c # None /\ k \in Atoms
  BY DEF TreeInv, Path, IsTree, Atoms, None
<1> DEFINE slotk == Slot(c, TypeOf(k))
           gone == IF slotk \in {"trak", "trex", "unknown"} THEN {} ELSE Held(c, slotk)
<1>2. \A j \in Atoms : owner'[j] = IF j = k THEN c ELSE IF j \in gone THEN None ELSE owner[j]
  BY AttachedIs
<1>3. \A j \in gone : owner[j] = c
  BY DEF Held
<1> HIDE DEF gone
<1>4. Atoms' = Atoms /\ \A x, type : Slot(x, type)' = Slot(x, type)
  BY TypesSame
<1>5. \A x, slot : Held(x, slot)' = {j \in Atoms : owner'[j] = x /\ Slot(x, TypeOf(j)) = slot}
  BY <1>4, TypesSame DEF Held
<1>6. ASSUME NEW x, NEW slot, x # c, x # None PROVE Held(x, slot)' = Held(x, slot)
  <2>1. \A j \in Atoms : owner'[j] = x <=> owner[j] = x
    BY <1>2, <1>3, <1>6
  <2> QED
    BY <1>5, <2>1 DEF Held
<1>7. ASSUME NEW slot, NEW j \in Held(c, slot)', j # k PROVE j \in Held(c, slot)
  <2>1. j \in Atoms /\ owner'[j] = c /\ Slot(c, TypeOf(j)) = slot
    BY <1>5
  <2>2. owner[j] = c
    BY <1>1, <1>2, <1>7, <2>1
  <2> QED
    BY <2>1, <2>2 DEF Held
<1>8. \A slot : k \in Held(c, slot)' => slot = Slot(c, TypeOf(k))
  BY <1>5
<1> QED
  BY <1>6, <1>7, <1>8 DEF HeldBut

LEMMA AttachKeeps ==
    ASSUME TreeInv, StsdKept, NEW c \in Atoms, NEW k \in 1 .. Len(atoms), k # c,
           owner[c] = None, owner[k] = None, owner' = Attached(c, k), UNCHANGED atoms,
           Slot(c, TypeOf(k)) = "trak" => StsdParsed(k)
    PROVE  StsdKept'
<1>1. /\ HeldBut(c)
      /\ \A slot : Held(c, slot)' \subseteq Held(c, slot) \cup {k}
      /\ \A slot : k \in Held(c, slot)' => slot = Slot(c, TypeOf(k))
  BY AttachHeld
<1> SUFFICES ASSUME NEW t \in Held(0, "trak")' PROVE StsdParsed(t)'
  BY DEF StsdKept, Traks
<1>2. None \notin Atoms /\ None # 0
  BY DEF Atoms, None
<1>3. t \in Atoms
  BY TypesSame DEF Held
<1>4. CASE t \in Held(0, "trak")
  <2>1. t # c
    BY <1>2, <1>4 DEF Held
  <2>2. StsdParsed(t)
    BY <1>4 DEF StsdKept, Traks
  <2> QED
    BY <1>1, <1>2, <1>3, <2>1, <2>2, ParsedStands
<1>5. CASE t \notin Held(0, "trak")
  <2>1. c = 0
    BY <1>1, <1>2, <1>5 DEF HeldBut
  <2>2. t = k
    BY <1>1, <1>5, <2>1
  <2>3. Slot(c, TypeOf(k)) = "trak"
    BY <1>1, <2>1, <2>2
  <2> QED
    BY <1>1, <1>2, <1>3, <2>2, <2>3, ParsedStands
<1> QED
  BY <1>4, <1>5

\* Without a step of an owner.
LEMMA StsdStands == ASSUME StsdKept, UNCHANGED <<atoms, owner>> PROVE StsdKept'
<1>1. \A x, slot : Held(x, slot)' = Held(x, slot)
  BY TypesSame DEF Held
<1>2. Traks' = Traks
  BY <1>1 DEF Traks
<1> SUFFICES ASSUME NEW t \in Traks PROVE StsdParsed(t)'
  BY <1>2 DEF StsdKept
<1>3. PICK c : c = "none"
  OBVIOUS
<1>4. HandlersAre /\ HandlersAre' /\ StsdsAre /\ StsdsAre'
  BY HandlersHold, StsdsHold, PTL
<1>5. Stsds(t)' = Stsds(t)
  BY <1>1 DEF Stsds, Step
<1>6. PICK H : H = Step(Held(t, "mdia"), "hdlr")
  OBVIOUS
<1>7. Step(Held(t, "mdia"), "hdlr")' = H
  BY <1>1, <1>6 DEF Step
<1>8. Handler(t)' = Handler(t)
  <2>1. Handler(t) = {atoms[h].fate : h \in H} /\ Handler(t)' = {atoms'[h].fate : h \in H}
    BY <1>4, <1>6, <1>7 DEF HandlersAre
  <2> QED
    BY <2>1
<1>9. PICK path : path = <<"mdia", "minf", "stbl", "stsd">>
  OBVIOUS
<1>10. Follow(t, path)' = Follow(t, path)
  BY <1>4, <1>5, <1>9 DEF StsdsAre
<1>11. \A d \in Follow(t, path) : \A handler \in Handler(t) : StsdAccepted(handler, atoms[d].entries)
  BY <1>9 DEF StsdKept, StsdParsed
<1> QED
  BY <1>8, <1>9, <1>10, <1>11 DEF StsdParsed, StsdAccepted

LEMMA StsdSteps == ASSUME TreeInv, WholeInv, StsdKept, TreeNext PROVE StsdKept'
<1>0. UNCHANGED atoms
  BY DEF TreeNext, HeaderBroken, Unknown, OpenContainer, ReadLeaf, LeafFails, TrexTurnedAway, LoopEnds,
         ContainerFails, TrakTurnedAway, TrakIgnored, ContainerRead, MoovRead
<1>1. CASE UNCHANGED owner
  BY <1>0, <1>1, StsdStands
<1>2. CASE ReadLeaf \/ Unknown
  <2>1. /\ open # <<>> /\ at \in 1 .. Len(atoms) /\ cur < at /\ owner[at] = None /\ TypeOf(at) = atoms[at].type
        /\ at \in Nat
    BY <1>2, MoreIs DEF ReadLeaf, Unknown, TypeOf, Atoms
  <2>2. PICK c \in Atoms : c = cur /\ owner[c] = None
    BY <2>1, CurIs DEF TreeInv
  <2>3. PICK k \in 1 .. Len(atoms) : k = at /\ k # c
    <3>1. at # cur
      BY <2>1, CurIs DEF TreeInv
    <3> QED
      BY <2>1, <2>2, <3>1
  <2>4. CASE Unknown /\ Fate = "large"
    <3>1. owner' = [j \in Atoms |-> IF j \in Held(c, "unknown") THEN None ELSE owner[j]]
      BY <2>2, <2>4 DEF Unknown
    <3>2. /\ Traks' = Traks
          /\ \A x, slot : slot # "unknown" /\ x # None => Held(x, slot)' = Held(x, slot)
      BY <1>0, <2>2, <3>1, LargeWhole DEF WholeInv
    <3>3. HeldBut(c)
      BY <3>2 DEF HeldBut
    <3>4. ASSUME NEW t \in Traks PROVE t # c /\ t # None
      BY <2>2 DEF Traks, Held, Atoms, None
    <3>5. ASSUME NEW t \in Traks PROVE StsdParsed(t)'
      BY <1>0, <2>2, <3>3, <3>4, ParsedStands DEF StsdKept
    <3> QED
      BY <3>2, <3>5 DEF StsdKept
  <2>5. CASE ReadLeaf \/ (Unknown /\ Fate # "large")
    <3>1. owner' = Attached(c, k)
      BY <2>2, <2>3, <2>5 DEF ReadLeaf, Unknown
    <3>2. Slot(c, TypeOf(k)) # "trak"
      <4>1. ReadLeaf => TypeOf(k) # "trak"
        BY <2>3 DEF ReadLeaf, IsContainer, Containers, Reads
      <4>2. Unknown => Slot(c, TypeOf(k)) = "unknown"
        BY <2>1, <2>2, <2>3 DEF Unknown, Known, Slot
      <4> QED
        BY <1>2, <4>1, <4>2, SlotIs
    <3> QED
      BY <1>0, <2>2, <2>3, <2>1, <3>1, <3>2, AttachKeeps
  <2> QED
    BY <1>2, <2>4, <2>5
<1>3. CASE ContainerRead
  <2>1. parse = "ended" /\ cur # 0 /\ owner' = Attached(atoms[cur].up, cur) /\ Whole(cur)
    BY <1>3 DEF ContainerRead
  <2>2. PICK c : c = atoms[cur].up
    OBVIOUS
  <2>3. open # <<>> /\ c < cur
    BY <2>1, <2>2, AroundIs
  <2>4. PICK k \in 1 .. Len(atoms) : k = cur /\ owner[k] = None
    BY <2>1, <2>3, CurIs DEF TreeInv
  <2>5. c \in Atoms /\ owner[c] = None
    <3>1. PICK n \in 1 .. Len(open) : c = open[n]
      BY <2>1, <2>2, <2>3, CurIs DEF TreeInv
    <3> QED
      BY <3>1 DEF TreeInv, Path
  <2>6. k # c
    BY <2>3, <2>4, <2>5 DEF Atoms
  <2>7. Slot(c, TypeOf(k)) = "trak" => StsdParsed(k)
    BY <2>1, <2>4, SlotIs DEF Whole
  <2>8. owner' = Attached(c, k)
    BY <2>1, <2>2, <2>4
  <2> QED
    BY <1>0, <2>4, <2>5, <2>6, <2>7, <2>8, AttachKeeps
<1> QED
  BY <1>1, <1>2, <1>3 DEF TreeNext, HeaderBroken, OpenContainer, LeafFails, TrexTurnedAway, LoopEnds,
         ContainerFails, TrakTurnedAway, TrakIgnored, MoovRead

LEMMA StsdRequest == TreeInv /\ WholeInv /\ StsdKept /\ [Next]_vars => StsdKept'
<1> SUFFICES ASSUME TreeInv, WholeInv, StsdKept, [Next]_vars PROVE StsdKept'
  OBVIOUS
<1>1. CASE TreeNext
  BY <1>1, StsdSteps
<1>2. CASE parse = "parsed" /\ MoovExit
  BY <1>2, StsdStands DEF MoovExit
<1>3. CASE UNCHANGED treeVars
  BY <1>3, StsdStands DEF treeVars
<1> QED
  BY <1>1, <1>2, <1>3, TreeSteps

LEMMA StsdBegins == Init => StsdKept
<1> SUFFICES ASSUME Init PROVE StsdKept
  OBVIOUS
<1>1. TreeInit(request.tree)
  BY DEF Init
<1>2. \A k \in Atoms : owner[k] = None
  BY <1>1 DEF TreeInit
<1>3. Traks = {}
  BY <1>2 DEF Traks, Held, None
<1> QED
  BY <1>3 DEF StsdKept

-------------------------------------------------------------------------------
(* What the streams are announced with.                                        *)

\* StreamsDescribed, of one description and the handler of its track.
VideDescribed(raw) ==
    LET avcC == {b \in ToSet(raw.boxes) : b.type = "avcC"}
        sps == UNION {ToSet(b.sps) : b \in avcC}
        pps == UNION {ToSet(b.pps) : b \in avcC}
        entry == ParseVide(raw)
    IN  raw.fourcc # "ovc1" => OneOf(entry.sps, sps) /\ OneOf(entry.pps, pps)

SounDescribed(raw, size) ==
    7 + size < 8192 /\ raw.channels < 8 =>
        LET header == Reading(Adts(ParseSoun(raw), size))
        IN  /\ header.syncword = 4095 /\ header.layer = 0
            /\ header.protection_absent = 1 /\ header.raw_data_blocks = 0
            /\ header.frame_length = 7 + size
            /\ header.channel_configuration = IF raw.channels = 3 THEN 6 ELSE raw.channels
            /\ raw.rate \in ToSet(aac_samplerates) =>
                   aac_samplerates[header.sampling_frequency_index + 1] = raw.rate

LEMMA DescribedIs ==
    ASSUME pc = "output" /\ Indexed =>
               \A t \in Traks : \A d \in Table(t, "stsd") : atoms[d].entries # <<>> =>
                   IF Handler(t) = {"vide"} THEN VideDescribed(atoms[d].entries[1])
                   ELSE \A size \in SampleSizes : SounDescribed(atoms[d].entries[1], size)
    PROVE  StreamsDescribed
BY DEF StreamsDescribed, VideDescribed, SounDescribed, OneOf

LEMMA VideIs ==
    ASSUME NEW raw, IsEntry(raw), ParseVide(raw).ok PROVE VideDescribed(raw)
<1>1. PICK avcC : avcC = {b \in ToSet(raw.boxes) : b.type = "avcC"}
  OBVIOUS
<1>2. PICK sps : sps = UNION {ToSet(b.sps) : b \in avcC}
  OBVIOUS
<1>3. PICK pps : pps = UNION {ToSet(b.pps) : b \in avcC}
  OBVIOUS
<1>4. raw.fourcc # "ovc1" => OneOf(ParseVide(raw).sps, sps) /\ OneOf(ParseVide(raw).pps, pps)
  BY <1>1, <1>2, <1>3, VideSets
<1> QED
  BY <1>1, <1>2, <1>3, <1>4 DEF VideDescribed

LEMMA SounIs ==
    ASSUME NEW raw, IsEntry(raw), ParseSoun(raw).ok, NEW size \in Nat PROVE SounDescribed(raw, size)
<1> SUFFICES ASSUME 7 + size < 8192, raw.channels < 8
             PROVE  LET header == Reading(Adts(ParseSoun(raw), size))
                    IN  /\ header.syncword = 4095 /\ header.layer = 0
                        /\ header.protection_absent = 1 /\ header.raw_data_blocks = 0
                        /\ header.frame_length = 7 + size
                        /\ header.channel_configuration = IF raw.channels = 3 THEN 6 ELSE raw.channels
                        /\ raw.rate \in ToSet(aac_samplerates) =>
                               aac_samplerates[header.sampling_frequency_index + 1] = raw.rate
  BY DEF SounDescribed
<1>1. PICK entry : entry = ParseSoun(raw)
  OBVIOUS
<1>2. PICK channels \in Nat : channels = raw.channels /\ channels < 8
  BY DEF IsEntry
<1>3. entry.channels = (IF channels = 3 THEN 6 ELSE channels) /\ entry.rate = raw.rate
  BY <1>1, <1>2, SounSame
<1>4. entry.channels \in 0 .. 7
  BY <1>2, <1>3
<1>5. PICK header : header = Reading(Adts(entry, size))
  OBVIOUS
<1>6. /\ header.syncword = 4095 /\ header.layer = 0
      /\ header.protection_absent = 1 /\ header.raw_data_blocks = 0
      /\ header.sampling_frequency_index = SampleRateIndex(entry.rate)
      /\ header.channel_configuration = entry.channels
      /\ header.frame_length = 7 + size
  BY <1>4, <1>5, HeaderIs
<1>7. PICK rate : rate = entry.rate
  OBVIOUS
<1>8. rate \in ToSet(aac_samplerates) => aac_samplerates[SampleRateIndex(rate) + 1] = rate
  BY SampleRateIs
<1> QED
  BY <1>1, <1>2, <1>3, <1>5, <1>6, <1>7, <1>8

LEMMA KeptDescribed ==
    ASSUME TreeInv, WholeInv, StsdKept PROVE StreamsDescribed
<1> SUFFICES ASSUME NEW t \in Traks, NEW d \in Table(t, "stsd"), atoms[d].entries # <<>>
             PROVE  IF Handler(t) = {"vide"} THEN VideDescribed(atoms[d].entries[1])
                    ELSE \A size \in SampleSizes : SounDescribed(atoms[d].entries[1], size)
  BY DescribedIs
<1>1. Handler(t) \in {{"vide"}, {"soun"}}
  BY TrackWhole DEF WholeInv
<1>2. PICK entries : entries = atoms[d].entries
  OBVIOUS
<1>3. PICK handler \in {"vide", "soun"} : Handler(t) = {handler}
  BY <1>1
<1>4. StsdAccepted(handler, entries)
  BY <1>2, <1>3 DEF StsdKept, StsdParsed, Table
<1>5. IsList(entries) /\ \A e \in ToSet(entries) : IsEntry(e)
  <2>1. PICK s : d \in Held(s, "stsd")
    BY PathFour DEF Step, Table
  <2>2. d \in Atoms /\ TypeOf(d) = "stsd"
    BY <2>1, SlotIs DEF Held
  <2>3. IsTree(atoms) /\ Len(atoms) \in Nat
    BY DEF TreeInv, Path, IsTree
  <2>4. d \in 1 .. Len(atoms) /\ atoms[d].type = "stsd"
    BY <2>2, <2>3 DEF TypeOf, Atoms
  <2> QED
    BY <1>2, <2>3, <2>4 DEF IsTree
<1>6. PICK raw : raw = entries[1]
  OBVIOUS
<1>7. 1 \in 1 .. Len(entries)
  <2>1. PICK S : S = ToSet(entries)
    OBVIOUS
  <2>2. entries \in Seq(S) /\ entries # <<>>
    BY <1>2, <1>5, <2>1 DEF IsList
  <2>3. Len(entries) \in Nat \ {0}
    BY <2>2
  <2> QED
    BY <2>3
<1>8. IsEntry(raw)
  BY <1>5, <1>6, <1>7, ListIs
<1>9. Parsed(handler, raw).ok
  BY <1>3, <1>4, <1>6, <1>7 DEF StsdAccepted
<1>10. CASE handler = "vide"
  <2>1. ParseVide(raw).ok
    BY <1>9, <1>10 DEF Parsed
  <2>2. VideDescribed(raw)
    BY <1>8, <2>1, VideIs
  <2> QED
    BY <1>2, <1>3, <1>6, <1>10, <2>2
<1>11. CASE handler = "soun"
  <2>1. ParseSoun(raw).ok
    BY <1>9, <1>11 DEF Parsed
  <2>2. \A size \in SampleSizes : SounDescribed(raw, size)
    BY <1>8, <2>1, SounIs, RequestsAssumption
  <2>3. Handler(t) # {"vide"}
    BY <1>3, <1>11
  <2> QED
    BY <1>2, <1>6, <2>2, <2>3
<1> QED
  BY <1>3, <1>10, <1>11

\* In every movie that is read and indexed, what the streams are announced with is
\* what the file says of them: the parameter sets are those of its avcC, if it
\* has any; and whatever the size of an audio frame, as long as it fits its field,
\* a player reads in the header the end of the frame, the channels and the rate.
THEOREM StreamsKnown == Spec => []StreamsDescribed
<1>1. TreeInv /\ WholeInv /\ StsdKept => StreamsDescribed
  BY KeptDescribed
<1> QED
  BY <1>1, RequestBegins, RequestSteps, StsdBegins, StsdRequest, PTL DEF Spec

===============================================================================
