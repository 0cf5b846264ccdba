---------------------------- MODULE DirTree_proofs ----------------------------
(***************************************************************************)
(* What the system calls preserve of the exported directory, for any       *)
(* names, any depth and any nodes: used for the handlers of the server     *)
(* (ServerFs_proofs) and the file contexts (MountHandles_proofs).          *)
(***************************************************************************)
EXTENDS DirTree, FiniteSetTheorems, SequenceTheorems, TLAPS

-----------------------------------------------------------------------------
(* Induction.                                                              *)

\* Induction over the natural numbers, with a set in the place of a property: if
\* m were missing, n |-> n + 1 would take those of 0..m that are in the set, one
\* to one, to those of them that are not 0.
LEMMA SetInduction ==
  ASSUME NEW T, 0 \in T, \A n \in Nat : n \in T => n + 1 \in T
  PROVE  Nat \subseteq T
<1> SUFFICES ASSUME NEW m \in Nat, m \notin T PROVE FALSE
  OBVIOUS
<1> DEFINE S == {n \in 0..m : n \in T}
           f == [n \in S |-> n + 1]
<1>1. IsFiniteSet(S)
  <2>1. IsFiniteSet(0..m)
    BY FS_Interval
  <2> QED BY <2>1, FS_Subset
<1>2. IsFiniteSet(S \ {0}) /\ Cardinality(S \ {0}) < Cardinality(S)
  <2>1. 0 \in S
    OBVIOUS
  <2> HIDE DEF S
  <2>2. Cardinality(S) \in Nat
    BY <1>1, FS_CardinalityType
  <2>3. IsFiniteSet(S \ {0}) /\ Cardinality(S \ {0}) = Cardinality(S) - 1
    BY <1>1, <2>1, FS_RemoveElement
  <2> QED BY <2>2, <2>3
<1>3. f \in [S -> S \ {0}]
  OBVIOUS
<1>4. \E x, y \in S : x # y /\ f[x] = f[y]
  <2> HIDE DEF S, f
  <2> QED BY <1>1, <1>2, <1>3, FS_PigeonHole
<1> QED BY <1>4

-----------------------------------------------------------------------------
(* Paths.                                                                  *)

\* Paths are the short sequences of names.
LEMMA PathTyped ==
  ASSUME NEW p
  PROVE  p \in Paths <=> p \in Seq(Names) /\ Len(p) <= MaxDepth
<1> USE PathBoundsAssumption
<1>1. ASSUME p \in Paths
      PROVE  p \in Seq(Names) /\ Len(p) <= MaxDepth
  <2>1. PICK m \in 0..MaxDepth : p \in [1..m -> Names]
    BY <1>1 DEF Paths, BoundedSeq, SeqOf
  <2> QED BY <2>1
<1>2. ASSUME p \in Seq(Names), Len(p) <= MaxDepth
      PROVE  p \in Paths
  <2>1. p \in [1..Len(p) -> Names] /\ Len(p) \in 0..MaxDepth
    BY <1>2, LenProperties
  <2> QED BY <2>1 DEF Paths, BoundedSeq, SeqOf
<1> QED BY <1>1, <1>2

\* The empty path leads to the exported directory.
LEMMA EmptyPath == <<>> \in Paths /\ <<>> # Nowhere /\ Nowhere \notin Paths
<1>1. <<>> \in Seq(Names) /\ Len(<<>>) = 0
  BY EmptySeq
<1>2. Len(<<>>) <= MaxDepth
  BY <1>1, PathBoundsAssumption
<1>3. <<>> \in Paths
  BY <1>1, <1>2, PathTyped
<1> QED BY <1>3, NowhereAssumption

\* A prefix has the names with which the other path begins.
LEMMA PrefixNames ==
  ASSUME NEW p \in Seq(Names), NEW r \in Seq(Names)
  PROVE  IsPrefix(p, r) <=> Len(p) <= Len(r) /\ \A i \in 1..Len(p) : p[i] = r[i]
<1>1. Len(p) \in Nat /\ Len(r) \in Nat
  OBVIOUS
<1>2. SubSeq(p, 1, Len(p)) = p
  BY SubSeqFull
<1>3. ASSUME Len(p) <= Len(r)
      PROVE  /\ SubSeq(r, 1, Len(p)) \in Seq(Names) /\ Len(SubSeq(r, 1, Len(p))) = Len(p)
             /\ \A i \in 1..Len(p) : SubSeq(r, 1, Len(p))[i] = r[i]
  BY <1>1, <1>3, SubSeqProperties
<1>4. ASSUME Len(p) <= Len(r), \A i \in 1..Len(p) : p[i] = r[i]
      PROVE  p = SubSeq(r, 1, Len(p))
  BY <1>3, <1>4, SeqEqual
<1> QED BY <1>2, <1>3, <1>4 DEF IsPrefix

\* The first names of a path.
LEMMA FirstNames ==
  ASSUME NEW r \in Seq(Names), NEW n \in 0..Len(r)
  PROVE  /\ SubSeq(r, 1, n) \in Seq(Names) /\ Len(SubSeq(r, 1, n)) = n
         /\ \A i \in 1..n : SubSeq(r, 1, n)[i] = r[i]
BY SubSeqProperties

\* The path of the directory that an entry is in.
LEMMA FrontNames ==
  ASSUME NEW r \in Seq(Names), r # <<>>
  PROVE  /\ Front(r) \in Seq(Names) /\ Len(Front(r)) = Len(r) - 1
         /\ \A i \in 1..(Len(r) - 1) : Front(r)[i] = r[i]
<1>1. Len(r) - 1 \in 0..Len(r)
  BY EmptySeq
<1> QED BY <1>1, FirstNames DEF Front

\* What a path below p becomes when p becomes q.
Place(p, q, r) == q \o SubSeq(r, Len(p) + 1, Len(r))

LEMMA PlaceNames ==
  ASSUME NEW p \in Seq(Names), NEW q \in Seq(Names), NEW r \in Seq(Names), IsPrefix(p, r)
  PROVE  /\ Place(p, q, r) \in Seq(Names) /\ Len(Place(p, q, r)) = Len(q) + Len(r) - Len(p)
         /\ \A i \in 1..Len(q) : Place(p, q, r)[i] = q[i]
         /\ \A i \in (Len(p) + 1)..Len(r) : Place(p, q, r)[i - Len(p) + Len(q)] = r[i]
<1> DEFINE t == SubSeq(r, Len(p) + 1, Len(r))
           s == q \o t
<1>1. Len(p) \in Nat /\ Len(q) \in Nat /\ Len(r) \in Nat /\ Len(p) <= Len(r)
  BY PrefixNames
<1>2. /\ t \in Seq(Names) /\ Len(t) = Len(r) - Len(p)
      /\ \A i \in 1..(Len(r) - Len(p)) : t[i] = r[Len(p) + i]
  BY <1>1, SubSeqProperties
<1> HIDE DEF t
<1>3. /\ s \in Seq(Names) /\ Len(s) = Len(q) + Len(t)
      /\ \A i \in 1..(Len(q) + Len(t)) : s[i] = IF i <= Len(q) THEN q[i] ELSE t[i - Len(q)]
  BY <1>2, ConcatProperties
<1>4. \A i \in (Len(p) + 1)..Len(r) : s[i - Len(p) + Len(q)] = r[i]
  <2> TAKE i \in (Len(p) + 1)..Len(r)
  <2>1. i - Len(p) + Len(q) \in 1..(Len(q) + Len(t)) /\ ~(i - Len(p) + Len(q) <= Len(q))
    BY <1>1, <1>2
  <2>2. s[i - Len(p) + Len(q)] = t[i - Len(p)]
    BY <1>1, <1>3, <2>1
  <2>3. i - Len(p) \in 1..(Len(r) - Len(p)) /\ Len(p) + (i - Len(p)) = i
    BY <1>1
  <2> QED BY <1>2, <2>2, <2>3
<1>5. \A i \in 1..Len(q) : s[i] = q[i]
  BY <1>1, <1>2, <1>3
<1>6. s = Place(p, q, r)
  BY DEF t, Place
<1> HIDE DEF s
<1> QED BY <1>1, <1>2, <1>3, <1>4, <1>5, <1>6

\* Different paths below p become different paths.
LEMMA PlaceApart ==
  ASSUME NEW p \in Seq(Names), NEW q \in Seq(Names), NEW r \in Seq(Names), NEW s \in Seq(Names),
         IsPrefix(p, r), IsPrefix(p, s), Place(p, q, r) = Place(p, q, s)
  PROVE  r = s
<1>1. /\ Len(p) \in Nat /\ Len(q) \in Nat /\ Len(r) \in Nat /\ Len(s) \in Nat
      /\ Len(p) <= Len(r) /\ Len(p) <= Len(s)
      /\ \A i \in 1..Len(p) : p[i] = r[i] /\ p[i] = s[i]
  BY PrefixNames
<1> DEFINE t == Place(p, q, r)
<1>2. /\ Len(t) = Len(q) + Len(r) - Len(p)
      /\ \A i \in (Len(p) + 1)..Len(r) : t[i - Len(p) + Len(q)] = r[i]
  BY PlaceNames
<1>3. /\ Len(Place(p, q, s)) = Len(q) + Len(s) - Len(p)
      /\ \A i \in (Len(p) + 1)..Len(s) : Place(p, q, s)[i - Len(p) + Len(q)] = s[i]
  BY PlaceNames
<1>4. Place(p, q, s) = t
  OBVIOUS
<1> HIDE DEF t
<1>5. Len(r) = Len(s)
  BY <1>1, <1>2, <1>3, <1>4
<1>6. ASSUME NEW i \in 1..Len(r)
      PROVE  r[i] = s[i]
  <2>1. CASE i \in 1..Len(p)
    BY <1>1, <2>1
  <2>2. CASE i \notin 1..Len(p)
    <3>1. i \in (Len(p) + 1)..Len(r) /\ i \in (Len(p) + 1)..Len(s)
      BY <1>1, <1>5, <2>2
    <3> QED BY <1>2, <1>3, <1>4, <3>1
  <2> QED BY <2>1, <2>2
<1> QED BY <1>5, <1>6, SeqEqual

\* A path has the path of the directory that it is in as a prefix, with all its
\* prefixes but itself.
LEMMA FrontPrefix ==
  ASSUME NEW p \in Seq(Names), NEW r \in Seq(Names), r # <<>>
  PROVE  /\ IsPrefix(p, Front(r)) => IsPrefix(p, r)
         /\ IsPrefix(p, r) /\ p # r => IsPrefix(p, Front(r))
<1>1. /\ Front(r) \in Seq(Names) /\ Len(Front(r)) = Len(r) - 1
      /\ \A i \in 1..(Len(r) - 1) : Front(r)[i] = r[i]
  BY FrontNames
<1>2. Len(p) \in Nat /\ Len(r) \in Nat
  OBVIOUS
<1>3. ASSUME IsPrefix(p, Front(r))
      PROVE  IsPrefix(p, r)
  <2>1. Len(p) <= Len(r) - 1 /\ \A i \in 1..Len(p) : p[i] = Front(r)[i]
    BY <1>1, <1>3, PrefixNames
  <2>2. \A i \in 1..Len(p) : i \in 1..(Len(r) - 1)
    BY <1>2, <2>1
  <2> QED BY <1>1, <1>2, <2>1, <2>2, PrefixNames
<1>4. ASSUME IsPrefix(p, r), p # r
      PROVE  IsPrefix(p, Front(r))
  <2>1. Len(p) <= Len(r) /\ \A i \in 1..Len(p) : p[i] = r[i]
    BY <1>4, PrefixNames
  <2>2. Len(p) # Len(r)
    BY <1>4, <2>1, SeqEqual
  <2>3. Len(p) <= Len(r) - 1 /\ \A i \in 1..Len(p) : i \in 1..(Len(r) - 1)
    BY <1>2, <2>1, <2>2
  <2> QED BY <1>1, <2>1, <2>3, PrefixNames
<1> QED BY <1>3, <1>4

\* Of two prefixes of a path, one is a prefix of the other.
LEMMA PrefixesMeet ==
  ASSUME NEW p \in Seq(Names), NEW q \in Seq(Names), NEW r \in Seq(Names),
         IsPrefix(p, r), IsPrefix(q, r)
  PROVE  IsPrefix(p, q) \/ IsPrefix(q, p)
<1>1. /\ Len(p) \in Nat /\ Len(q) \in Nat
      /\ \A i \in 1..Len(p) : p[i] = r[i]
      /\ \A i \in 1..Len(q) : q[i] = r[i]
  BY PrefixNames
<1>2. CASE Len(p) <= Len(q)
  <2>1. \A i \in 1..Len(p) : i \in 1..Len(q)
    BY <1>1, <1>2
  <2> QED BY <1>1, <1>2, <2>1, PrefixNames
<1>3. CASE Len(q) <= Len(p)
  <2>1. \A i \in 1..Len(q) : i \in 1..Len(p)
    BY <1>1, <1>3
  <2> QED BY <1>1, <1>3, <2>1, PrefixNames
<1> QED BY <1>1, <1>2, <1>3

\* The directory that a moved path is in: that of q for p itself, and the moved
\* one for what is below p.
LEMMA PlaceFront ==
  ASSUME NEW p \in Seq(Names), NEW q \in Seq(Names), NEW r \in Seq(Names), q # <<>>,
         IsPrefix(p, r)
  PROVE  /\ Place(p, q, r) # <<>> /\ IsPrefix(q, Place(p, q, r))
         /\ Place(p, q, p) = q
         /\ r # p /\ r # <<>> => Front(Place(p, q, r)) = Place(p, q, Front(r))
<1>1. /\ Len(p) \in Nat /\ Len(q) \in Nat /\ Len(r) \in Nat /\ Len(p) <= Len(r) /\ Len(q) # 0
  BY PrefixNames, EmptySeq
<1>2. /\ Place(p, q, r) \in Seq(Names) /\ Len(Place(p, q, r)) = Len(q) + Len(r) - Len(p)
      /\ \A i \in 1..Len(q) : Place(p, q, r)[i] = q[i]
      /\ \A i \in (Len(p) + 1)..Len(r) : Place(p, q, r)[i - Len(p) + Len(q)] = r[i]
  BY PlaceNames
<1>3. Len(Place(p, q, r)) \in Nat \ {0} /\ Len(q) <= Len(Place(p, q, r))
  BY <1>1, <1>2
<1>4. Place(p, q, r) # <<>> /\ IsPrefix(q, Place(p, q, r))
  BY <1>2, <1>3, PrefixNames, EmptySeq
<1>5. Place(p, q, p) = q
  <2>1. IsPrefix(p, p)
    BY <1>1, PrefixNames
  <2>2. /\ Place(p, q, p) \in Seq(Names) /\ Len(Place(p, q, p)) = Len(q) + Len(p) - Len(p)
        /\ \A i \in 1..Len(q) : Place(p, q, p)[i] = q[i]
    BY <2>1, PlaceNames
  <2>3. Len(q) + Len(p) - Len(p) = Len(q)
    BY <1>1
  <2> QED BY <2>2, <2>3, SeqEqual
<1>6. ASSUME r # p, r # <<>>
      PROVE  Front(Place(p, q, r)) = Place(p, q, Front(r))
  <2> DEFINE s == Place(p, q, r)
             f == Front(r)
             t == Place(p, q, Front(r))
  <2>1. f \in Seq(Names) /\ Len(f) = Len(r) - 1 /\ \A i \in 1..(Len(r) - 1) : f[i] = r[i]
    BY <1>6, FrontNames
  <2>2. IsPrefix(p, f)
    BY <1>6, FrontPrefix
  <2>3. /\ t \in Seq(Names) /\ Len(t) = Len(q) + (Len(r) - 1) - Len(p)
        /\ \A i \in 1..Len(q) : t[i] = q[i]
        /\ \A i \in (Len(p) + 1)..(Len(r) - 1) : t[i - Len(p) + Len(q)] = f[i]
    <3> HIDE DEF f
    <3>1. /\ Place(p, q, f) \in Seq(Names) /\ Len(Place(p, q, f)) = Len(q) + Len(f) - Len(p)
          /\ \A i \in 1..Len(q) : Place(p, q, f)[i] = q[i]
          /\ \A i \in (Len(p) + 1)..Len(f) : Place(p, q, f)[i - Len(p) + Len(q)] = f[i]
      BY <2>1, <2>2, PlaceNames
    <3> QED BY <2>1, <3>1 DEF f
  <2>4. /\ Front(s) \in Seq(Names) /\ Len(Front(s)) = Len(s) - 1
        /\ \A i \in 1..(Len(s) - 1) : Front(s)[i] = s[i]
    BY <1>2, <1>4, FrontNames
  <2> HIDE DEF f, s, t
  <2>5. Len(Front(s)) = Len(t) /\ Len(s) - 1 = Len(t) /\ Len(t) = Len(q) + (Len(r) - 1) - Len(p)
    BY <1>1, <1>2, <2>3, <2>4 DEF s
  <2>6. ASSUME NEW i \in 1..Len(t)
        PROVE  s[i] = t[i]
    <3>1. CASE i \in 1..Len(q)
      BY <1>2, <2>3, <3>1 DEF s
    <3>2. CASE i \notin 1..Len(q)
      <4> DEFINE j == i - Len(q) + Len(p)
      <4>1. /\ j \in (Len(p) + 1)..(Len(r) - 1) /\ j \in (Len(p) + 1)..Len(r)
            /\ j \in 1..(Len(r) - 1) /\ j - Len(p) + Len(q) = i
        BY <1>1, <2>5, <3>2
      <4> HIDE DEF j
      <4>2. s[j - Len(p) + Len(q)] = r[j]
        BY <1>2, <4>1 DEF s
      <4>3. t[j - Len(p) + Len(q)] = f[j] /\ f[j] = r[j]
        BY <2>1, <2>3, <4>1
      <4> QED BY <4>1, <4>2, <4>3
    <3> QED BY <3>1, <3>2
  <2>7. Front(s) = t
    BY <2>3, <2>4, <2>5, <2>6, SeqEqual
  <2> QED BY <2>7 DEF s, t
<1> QED BY <1>4, <1>5, <1>6

-----------------------------------------------------------------------------
(* Who is above and below whom.                                            *)

\* A node that exists has a path.
LEMMA PlaceTyped ==
  ASSUME TreeOK, NEW n \in Nodes, inode[n].at # Nowhere
  PROVE  inode[n].at \in Paths /\ inode[n].at \in Seq(Names) /\ Len(inode[n].at) \in 0..MaxDepth
<1>1. inode[n].at \in Paths
  BY DEF TreeOK, Inode, Paths
<1> QED BY <1>1, PathTyped, LenProperties, PathBoundsAssumption

\* There is one node at a path.
LEMMA NodeAtPath ==
  ASSUME TreeOK, NEW p \in Paths, Present(p)
  PROVE  /\ NodeAt(p) \in Nodes /\ inode[NodeAt(p)].at = p
         /\ \A n \in Nodes : inode[n].at = p => n = NodeAt(p)
<1>1. NodeAt(p) \in Nodes /\ inode[NodeAt(p)].at = p
  BY DEF Present, NodeAt
<1> QED BY <1>1, NowhereAssumption DEF TreeOK

\* The root is at the empty path and at no other.
LEMMA RootPlace ==
  ASSUME TreeOK
  PROVE  /\ Root \in Nodes /\ inode[Root].at = <<>> /\ inode[Root].kind = "dir"
         /\ \A n \in Nodes : inode[n].at = <<>> => n = Root
BY NodesAssumption, EmptyPath DEF TreeOK

\* All that a node's path leads through are directories.
LEMMA Ancestors ==
  ASSUME TreeOK, NEW n \in Nodes, inode[n].at # Nowhere, NEW i \in 0..(Len(inode[n].at) - 1)
  PROVE  \E d \in Nodes : inode[d].at = SubSeq(inode[n].at, 1, i) /\ inode[d].kind = "dir"
<1> DEFINE r == inode[n].at
           Above(k) == \E d \in Nodes : inode[d].at = SubSeq(r, 1, k) /\ inode[d].kind = "dir"
           T == {j \in Nat : j < Len(r) => Above(Len(r) - 1 - j)}
<1>1. r \in Seq(Names) /\ Len(r) \in Nat /\ Len(r) <= MaxDepth /\ MaxDepth \in Nat
  BY PlaceTyped, PathBoundsAssumption
<1>2. n # Root
  BY <1>1, RootPlace, EmptySeq
<1>3. 0 \in T
  <2>1. Above(Len(r) - 1)
    BY <1>2 DEF TreeOK, Front
  <2> QED BY <1>1, <2>1
<1>4. ASSUME NEW j \in Nat, j \in T, j + 1 < Len(r)
      PROVE  Above(Len(r) - 1 - (j + 1))
  <2> DEFINE k == Len(r) - 1 - j
  <2>1. k \in 1..Len(r) /\ k - 1 = Len(r) - 1 - (j + 1)
    <3> HIDE DEF r, T
    <3> QED BY <1>1, <1>4
  <2> HIDE DEF k
  <2>2. PICK d \in Nodes : inode[d].at = SubSeq(r, 1, k) /\ inode[d].kind = "dir"
    BY <1>1, <1>4 DEF k
  <2>3. /\ SubSeq(r, 1, k) \in Seq(Names) /\ Len(SubSeq(r, 1, k)) = k
        /\ \A x \in 1..k : SubSeq(r, 1, k)[x] = r[x]
    BY <1>1, <2>1, FirstNames
  <2>4. SubSeq(r, 1, k) # <<>> /\ SubSeq(r, 1, k) # Nowhere
    <3>1. Len(SubSeq(r, 1, k)) # 0
      BY <2>1, <2>3
    <3>2. k <= MaxDepth
      <4> HIDE DEF r
      <4> QED BY <1>1, <2>1
    <3>3. SubSeq(r, 1, k) \in Paths
      BY <2>3, <3>2, PathTyped
    <3> QED BY <3>1, <3>3, EmptySeq, EmptyPath
  <2>5. Front(SubSeq(r, 1, k)) = SubSeq(r, 1, k - 1)
    <3>1. /\ Front(SubSeq(r, 1, k)) \in Seq(Names) /\ Len(Front(SubSeq(r, 1, k))) = k - 1
          /\ \A x \in 1..(k - 1) : Front(SubSeq(r, 1, k))[x] = r[x]
      <4> DEFINE f == SubSeq(r, 1, k)
      <4>1. f \in Seq(Names) /\ Len(f) = k /\ f # <<>> /\ \A x \in 1..k : f[x] = r[x]
        BY <2>3, <2>4
      <4> HIDE DEF f
      <4>2. /\ Front(f) \in Seq(Names) /\ Len(Front(f)) = k - 1
            /\ \A x \in 1..(k - 1) : Front(f)[x] = f[x]
        BY <4>1, FrontNames
      <4>3. \A x \in 1..(k - 1) : x \in 1..k
        BY <2>1
      <4> QED BY <4>1, <4>2, <4>3 DEF f
    <3>2. /\ SubSeq(r, 1, k - 1) \in Seq(Names) /\ Len(SubSeq(r, 1, k - 1)) = k - 1
          /\ \A x \in 1..(k - 1) : SubSeq(r, 1, k - 1)[x] = r[x]
      BY <1>1, <2>1, FirstNames
    <3> QED BY <3>1, <3>2, SeqEqual
  <2>6. d # Root
    BY <2>2, <2>4, RootPlace
  <2> QED BY <2>1, <2>2, <2>4, <2>5, <2>6 DEF TreeOK
<1>5. Nat \subseteq T
  <2> HIDE DEF Above
  <2>1. \A j \in Nat : j \in T => j + 1 \in T
    BY <1>4
  <2> HIDE DEF T
  <2> QED BY <1>3, <2>1, SetInduction
<1>6. Len(r) - 1 - i \in Nat /\ Len(r) - 1 - i < Len(r) /\ Len(r) - 1 - (Len(r) - 1 - i) = i
  BY <1>1
<1>7. Len(r) - 1 - i \in T
  BY <1>5, <1>6
<1> QED BY <1>6, <1>7

\* What is under a path is at it, or goes through a directory at it.
LEMMA UnderThrough ==
  ASSUME TreeOK, NEW q \in Paths, NEW n \in Under(q)
  PROVE  inode[n].at = q \/ IsDir(q)
<1>1. /\ n \in Nodes /\ inode[n].at # Nowhere /\ IsPrefix(q, inode[n].at)
      /\ q \in Seq(Names) /\ Len(q) \in Nat
  BY PathTyped, LenProperties DEF Under
<1>2. inode[n].at \in Seq(Names) /\ Len(inode[n].at) \in Nat
  BY <1>1, PlaceTyped
<1>3. Len(q) <= Len(inode[n].at) /\ q = SubSeq(inode[n].at, 1, Len(q))
  BY <1>1, SubSeqFull DEF IsPrefix
<1>4. CASE Len(q) = Len(inode[n].at)
  BY <1>2, <1>3, <1>4, SubSeqFull
<1>5. CASE Len(q) # Len(inode[n].at)
  <2>1. Len(q) \in 0..(Len(inode[n].at) - 1)
    BY <1>1, <1>2, <1>3, <1>5
  <2>2. PICK d \in Nodes : inode[d].at = q /\ inode[d].kind = "dir"
    BY <1>1, <1>3, <2>1, Ancestors
  <2> QED BY <2>2, NodeAtPath DEF IsDir, Present
<1> QED BY <1>4, <1>5

\* So there is nothing but the file under the path of a file, nothing under that
\* of nothing, and never the root under that of an entry.
LEMMA UnderLeaf ==
  ASSUME TreeOK, NEW q \in Entries
  PROVE  /\ IsFile(q) => Under(q) = {NodeAt(q)}
         /\ ~Present(q) => Under(q) = {}
         /\ Root \notin Under(q)
         /\ Present(q) => NodeAt(q) \in Under(q) /\ NodeAt(q) # Root
<1>1. q \in Paths /\ q # <<>> /\ q \in Seq(Names) /\ Len(q) \in Nat \ {0} /\ q # Nowhere
  BY PathTyped, EmptySeq, EmptyPath DEF Entries
<1>2. IsPrefix(q, q)
  BY <1>1 DEF IsPrefix
<1>3. Present(q) => NodeAt(q) \in Under(q) /\ NodeAt(q) # Root
  BY <1>1, <1>2, NodeAtPath, RootPlace DEF Under
<1>4. IsFile(q) => Under(q) = {NodeAt(q)}
  BY <1>1, <1>3, UnderThrough, NodeAtPath DEF IsFile, IsDir, Under
<1>5. ~Present(q) => Under(q) = {}
  BY <1>1, UnderThrough DEF IsDir, Present, Under
<1>6. Root \notin Under(q)
  BY <1>1, RootPlace, EmptySeq DEF Under, IsPrefix
<1> QED BY <1>3, <1>4, <1>5, <1>6

\* What is below a node's directory is below that too; a node other than the root
\* has one.
LEMMA ParentPlace ==
  ASSUME TreeOK, NEW n \in Nodes, n # Root, inode[n].at # Nowhere
  PROVE  /\ inode[n].at \in Entries /\ inode[n].at \in Seq(Names) /\ inode[n].at # <<>>
         /\ Front(inode[n].at) \in Paths /\ Front(inode[n].at) # Nowhere
         /\ \E d \in Nodes : inode[d].at = Front(inode[n].at) /\ inode[d].kind = "dir"
<1>1. inode[n].at \in Paths /\ inode[n].at \in Seq(Names) /\ Len(inode[n].at) \in 0..MaxDepth
  BY PlaceTyped
<1>2. inode[n].at # <<>>
  BY RootPlace
<1>3. /\ Front(inode[n].at) \in Seq(Names) /\ Len(Front(inode[n].at)) = Len(inode[n].at) - 1
  BY <1>1, <1>2, FrontNames
<1>4. Len(Front(inode[n].at)) <= MaxDepth
  BY <1>1, <1>3, PathBoundsAssumption
<1>5. Front(inode[n].at) \in Paths
  BY <1>3, <1>4, PathTyped
<1> QED BY <1>1, <1>2, <1>5, EmptyPath DEF Entries, TreeOK

\* The path of the directory that an entry is in is a path.
LEMMA EntryTyped ==
  ASSUME NEW p \in Entries
  PROVE  /\ p \in Paths /\ p \in Seq(Names) /\ p # <<>> /\ p # Nowhere
         /\ Len(p) \in 1..MaxDepth
         /\ Parent(p) \in Paths /\ Parent(p) # Nowhere /\ Parent(p) \in Seq(Names)
<1>1. p \in Paths /\ p \in Seq(Names) /\ p # <<>> /\ p # Nowhere /\ Len(p) <= MaxDepth
  BY PathTyped, EmptyPath DEF Entries
<1>2. Len(p) \in 1..MaxDepth
  BY <1>1, EmptySeq, PathBoundsAssumption
<1>3. Front(p) \in Seq(Names) /\ Len(Front(p)) = Len(p) - 1
  BY <1>1, FrontNames
<1>4. Len(Front(p)) <= MaxDepth
  BY <1>2, <1>3, PathBoundsAssumption
<1>5. Front(p) \in Paths
  BY <1>3, <1>4, PathTyped
<1> QED BY <1>1, <1>2, <1>3, <1>5, EmptyPath DEF Parent

-----------------------------------------------------------------------------
(* What the system calls keep: TreeOK.                                     *)

\* Records of nodes.
LEMMA NodeTyped ==
  /\ NoInode \in Inode
  /\ \A p \in Paths, k \in {"file", "dir"} : NewInode(p, k) \in Inode
<1>1. 0 \in 0..MaxSize
  BY PathBoundsAssumption
<1> QED BY <1>1 DEF NoInode, NewInode, Inode, Paths

\* The tree of the exported directory alone.
LEMMA EmptyTyped == EmptyTree => TreeOK
<1> SUFFICES ASSUME EmptyTree PROVE TreeOK
  OBVIOUS
<1>1. inode \in [Nodes -> Inode]
  BY NodeTyped, EmptyPath DEF EmptyTree
<1>2. inode[Root].at = <<>> /\ inode[Root].kind = "dir"
  BY NodesAssumption DEF EmptyTree, NewInode
<1>3. \A n \in Nodes \ {Root} : inode[n].at = Nowhere
  BY DEF EmptyTree, NoInode
<1> QED BY <1>1, <1>2, <1>3 DEF TreeOK

\* Adding a file or a directory where the system allows it.
LEMMA AddTree ==
  ASSUME TreeOK, NEW p \in Entries, NEW k \in {"file", "dir"}, NEW n \in Nodes,
         CreateError(p) = "ok", inode[n].at = Nowhere,
         inode' = [inode EXCEPT ![n] = NewInode(p, k)]
  PROVE  TreeOK'
<1>1. /\ Present(Parent(p)) /\ inode[NodeAt(Parent(p))].kind # "file" /\ ~Present(p)
  BY DEF CreateError, LookupError, IsFile
<1>2. p \in Paths /\ p # Nowhere /\ Parent(p) \in Paths /\ Parent(p) # Nowhere
  BY EntryTyped
<1>3. inode \in [Nodes -> Inode] /\ inode[Root].at # Nowhere
  BY RootPlace, EmptyPath DEF TreeOK
<1>4. /\ inode'[n] = NewInode(p, k) /\ inode'[n].at = p /\ inode'[n] \in Inode
      /\ \A m \in Nodes \ {n} : inode'[m] = inode[m]
  BY <1>2, <1>3, NodeTyped DEF NewInode
<1>5. inode' \in [Nodes -> Inode]
  BY <1>3, <1>4
<1>6. inode'[Root].at = <<>> /\ inode'[Root].kind = "dir"
  BY <1>3, <1>4, RootPlace
<1>7. ASSUME NEW m \in Nodes, NEW l \in Nodes, inode'[m].at = inode'[l].at, m # l
      PROVE  inode'[m].at = Nowhere
  BY <1>1, <1>4, <1>7 DEF Present, TreeOK
<1>8. ASSUME NEW m \in Nodes \ {Root}, inode'[m].at # Nowhere
      PROVE  \E d \in Nodes : inode'[d].at = Front(inode'[m].at) /\ inode'[d].kind = "dir"
  <2>1. CASE m = n
    <3>1. NodeAt(Parent(p)) \in Nodes /\ inode[NodeAt(Parent(p))].at = Parent(p)
      BY <1>1, <1>2, NodeAtPath
    <3>2. inode[NodeAt(Parent(p))].kind = "dir"
      BY <1>1, <1>3, <3>1 DEF Inode
    <3> QED BY <1>2, <1>4, <2>1, <3>1, <3>2 DEF Parent
  <2>2. CASE m # n
    BY <1>4, <1>8, <2>2, ParentPlace
  <2> QED BY <2>1, <2>2
<1> QED BY <1>5, <1>6, <1>7, <1>8 DEF TreeOK

\* Removing nodes with all that is below them.
LEMMA WithoutTree ==
  ASSUME TreeOK, NEW gone \in SUBSET (Nodes \ {Root}), inode' = Without(gone),
         \A n \in gone : inode[n].at # Nowhere /\ Under(inode[n].at) \subseteq gone
  PROVE  TreeOK'
<1>1. inode \in [Nodes -> Inode]
  BY DEF TreeOK
<1>2. \A n \in Nodes : inode'[n] = IF n \in gone THEN NoInode ELSE inode[n]
  BY DEF Without
<1>3. inode' \in [Nodes -> Inode]
  BY <1>1, NodeTyped DEF Without
<1>4. inode'[Root].at = <<>> /\ inode'[Root].kind = "dir"
  BY <1>2, RootPlace
<1>5. ASSUME NEW m \in Nodes, NEW l \in Nodes, inode'[m].at = inode'[l].at, m # l
      PROVE  inode'[m].at = Nowhere
  BY <1>2, <1>5 DEF TreeOK, NoInode
<1>6. ASSUME NEW m \in Nodes \ {Root}, inode'[m].at # Nowhere
      PROVE  \E d \in Nodes : inode'[d].at = Front(inode'[m].at) /\ inode'[d].kind = "dir"
  <2>1. m \notin gone /\ inode'[m] = inode[m]
    BY <1>2, <1>6 DEF NoInode
  <2>2. PICK d \in Nodes : inode[d].at = Front(inode[m].at) /\ inode[d].kind = "dir"
    BY <1>6, <2>1, ParentPlace
  <2>3. d \notin gone
    <3> SUFFICES ASSUME d \in gone PROVE FALSE
      OBVIOUS
    <3>1. inode[d].at \in Seq(Names) /\ inode[d].at # Nowhere
      BY <1>6, <2>1, <2>2, ParentPlace, PlaceTyped
    <3>2. IsPrefix(inode[d].at, Front(inode[m].at))
      BY <2>2, <3>1, PrefixNames
    <3>3. IsPrefix(inode[d].at, inode[m].at)
      BY <1>6, <2>1, <3>1, <3>2, ParentPlace, FrontPrefix
    <3> QED BY <1>6, <2>1, <3>3 DEF Under
  <2> QED BY <1>2, <2>1, <2>2, <2>3
<1> QED BY <1>3, <1>4, <1>5, <1>6 DEF TreeOK

\* Removing a single one, that has nothing below it.
LEMMA RemovedTree ==
  ASSUME TreeOK, NEW n \in Nodes \ {Root}, inode[n].at # Nowhere,
         Under(inode[n].at) \subseteq {n}, inode' = Without({n})
  PROVE  TreeOK'
BY WithoutTree

\* Removing what unlink or rmdir agrees to remove.
LEMMA UnlinkedTree ==
  ASSUME TreeOK, NEW p \in Entries, UnlinkError(p) = "ok" \/ RmdirError(p) = "ok"
  PROVE  /\ Present(p) /\ NodeAt(p) \in Nodes \ {Root} /\ inode[NodeAt(p)].at = p
         /\ Under(p) = {NodeAt(p)}
         /\ inode' = Without({NodeAt(p)}) => TreeOK'
<1>1. Present(p)
  BY DEF UnlinkError, RmdirError, LookupError
<1>2. NodeAt(p) \in Nodes \ {Root} /\ inode[NodeAt(p)].at = p /\ p # Nowhere
  BY <1>1, NodeAtPath, EntryTyped, UnderLeaf
<1>3. Under(p) = {NodeAt(p)}
  <2>1. CASE UnlinkError(p) = "ok"
    <3>1. ~IsDir(p)
      BY <2>1 DEF UnlinkError, LookupError
    <3>2. inode[NodeAt(p)].kind \in {"file", "dir"}
      BY <1>2 DEF TreeOK, Inode
    <3>3. IsFile(p)
      BY <1>1, <3>1, <3>2 DEF IsFile, IsDir
    <3> QED BY <3>3, UnderLeaf
  <2>2. CASE RmdirError(p) = "ok"
    BY <1>1, <2>2 DEF RmdirError
  <2> QED BY <2>1, <2>2
<1> QED BY <1>1, <1>2, <1>3, RemovedTree

\* Changing the length or the permission of a node.
LEMMA ChangedTree ==
  ASSUME TreeOK, NEW m \in Nodes, NEW v,
         \/ v \in 0..MaxSize /\ inode' = [inode EXCEPT ![m].size = v]
         \/ v \in BOOLEAN /\ inode' = [inode EXCEPT ![m].ro = v]
  PROVE  /\ TreeOK'
         /\ \A n \in Nodes : inode'[n].at = inode[n].at /\ inode'[n].kind = inode[n].kind
<1>1. inode \in [Nodes -> Inode]
  BY DEF TreeOK
<1>2. CASE v \in 0..MaxSize /\ inode' = [inode EXCEPT ![m].size = v]
  <2>1. inode'[m] = [inode[m] EXCEPT !.size = v] /\ \A n \in Nodes \ {m} : inode'[n] = inode[n]
    BY <1>1, <1>2
  <2>2. inode'[m] \in Inode /\ inode'[m].at = inode[m].at /\ inode'[m].kind = inode[m].kind
    BY <1>1, <1>2, <2>1 DEF Inode
  <2>3. inode' \in [Nodes -> Inode]
    BY <1>1, <1>2, <2>1, <2>2
  <2>4. \A n \in Nodes : inode'[n].at = inode[n].at /\ inode'[n].kind = inode[n].kind
    BY <2>1, <2>2
  <2> QED BY <2>3, <2>4, NodesAssumption DEF TreeOK
<1>3. CASE v \in BOOLEAN /\ inode' = [inode EXCEPT ![m].ro = v]
  <2>1. inode'[m] = [inode[m] EXCEPT !.ro = v] /\ \A n \in Nodes \ {m} : inode'[n] = inode[n]
    BY <1>1, <1>3
  <2>2. inode'[m] \in Inode /\ inode'[m].at = inode[m].at /\ inode'[m].kind = inode[m].kind
    BY <1>1, <1>3, <2>1 DEF Inode
  <2>3. inode' \in [Nodes -> Inode]
    BY <1>1, <1>3, <2>1, <2>2
  <2>4. \A n \in Nodes : inode'[n].at = inode[n].at /\ inode'[n].kind = inode[n].kind
    BY <2>1, <2>2
  <2> QED BY <2>3, <2>4, NodesAssumption DEF TreeOK
<1> QED BY <1>2, <1>3

\* The nodes once p has taken the place of q and of all that was below q.
Replaced(p, q) == [n \in Nodes |-> IF n \in Under(q) THEN NoInode ELSE Moved(p, q)[n]]

\* What becomes of each node when it has.
LEMMA ReplacedNodes ==
  ASSUME TreeOK, NEW p \in Entries, NEW q \in Entries, ~IsPrefix(p, q), ~IsPrefix(q, p),
         Fits(p, q), inode' = Replaced(p, q)
  PROVE  /\ Under(p) \cap Under(q) = {}
         /\ \A n \in Under(q) : n \in Nodes /\ inode'[n] = NoInode
         /\ \A n \in Under(p) :
              /\ n \in Nodes /\ inode[n].at \in Seq(Names) /\ IsPrefix(p, inode[n].at)
              /\ inode'[n].at = Place(p, q, inode[n].at) /\ inode'[n].at \in Paths
              /\ inode'[n].kind = inode[n].kind
         /\ \A n \in Under(p) :
              inode'[n] \in Inode /\ inode'[n] = [inode[n] EXCEPT !.at = Place(p, q, inode[n].at)]
         /\ \A n \in Nodes \ (Under(p) \cup Under(q)) : inode'[n] = inode[n] /\ inode[n].at # q
<1>1. p \in Seq(Names) /\ q \in Seq(Names) /\ q # Nowhere /\ IsPrefix(q, q)
  BY EntryTyped, PrefixNames
<1>2. Under(p) \cap Under(q) = {}
  <2> SUFFICES ASSUME NEW n \in Under(p), n \in Under(q) PROVE FALSE
    OBVIOUS
  <2>1. n \in Nodes /\ inode[n].at # Nowhere /\ IsPrefix(p, inode[n].at) /\ IsPrefix(q, inode[n].at)
    BY DEF Under
  <2>2. inode[n].at \in Seq(Names)
    BY <2>1, PlaceTyped
  <2> QED BY <1>1, <2>1, <2>2, PrefixesMeet
<1>3. \A n \in Under(q) : n \in Nodes /\ inode'[n] = NoInode
  BY DEF Replaced, Under
<1>4. ASSUME NEW n \in Under(p)
      PROVE  /\ n \in Nodes /\ inode[n].at \in Seq(Names) /\ IsPrefix(p, inode[n].at)
             /\ inode'[n] = [inode[n] EXCEPT !.at = Place(p, q, inode[n].at)]
             /\ inode'[n].at = Place(p, q, inode[n].at) /\ inode'[n].at \in Paths
             /\ inode'[n].kind = inode[n].kind /\ inode'[n] \in Inode
  <2>1. n \in Nodes /\ inode[n].at # Nowhere /\ IsPrefix(p, inode[n].at) /\ n \notin Under(q)
    BY <1>2 DEF Under
  <2>2. inode[n].at \in Seq(Names) /\ inode[n] \in Inode
    BY <2>1, PlaceTyped DEF TreeOK
  <2>3. inode'[n] = Moved(p, q)[n]
    BY <2>1 DEF Replaced
  <2>4. Moved(p, q)[n] = [inode[n] EXCEPT !.at = q \o SubSeq(@, Len(p) + 1, Len(@))]
    BY <2>1 DEF Moved
  <2>5. inode'[n] = [inode[n] EXCEPT !.at = Place(p, q, inode[n].at)]
    BY <2>3, <2>4 DEF Place
  <2>6. /\ Place(p, q, inode[n].at) \in Seq(Names)
        /\ Len(Place(p, q, inode[n].at)) = Len(q) + Len(inode[n].at) - Len(p)
    BY <1>1, <2>1, <2>2, PlaceNames
  <2>7. Len(Place(p, q, inode[n].at)) <= MaxDepth
    <3>1. Len(p) \in Nat /\ Len(q) \in Nat /\ Len(inode[n].at) \in Nat
      BY <1>1, <2>2
    <3>2. Len(inode[n].at) - Len(p) + Len(q) <= MaxDepth
      BY DEF Fits
    <3>3. Len(q) + Len(inode[n].at) - Len(p) = Len(inode[n].at) - Len(p) + Len(q)
      BY <3>1
    <3> QED BY <2>6, <3>2, <3>3
  <2>8. Place(p, q, inode[n].at) \in Paths
    BY <2>6, <2>7, PathTyped
  <2>9. /\ inode'[n].at = Place(p, q, inode[n].at) /\ inode'[n].kind = inode[n].kind
        /\ inode'[n] \in Inode
    BY <2>2, <2>5, <2>8 DEF Inode, Paths
  <2> QED BY <2>1, <2>2, <2>5, <2>8, <2>9
<1>5. ASSUME NEW n \in Nodes, n \notin Under(p), n \notin Under(q)
      PROVE  inode'[n] = inode[n] /\ inode[n].at # q
  <2>1. inode[n].at # q
    BY <1>1, <1>5 DEF Under
  <2>2. Moved(p, q)[n] = inode[n]
    BY <1>5, <2>1 DEF Moved
  <2> QED BY <1>5, <2>1, <2>2 DEF Replaced
<1> QED BY <1>2, <1>3, <1>4, <1>5

\* A rename to a directory that exists, in place of all there was at the new path.
LEMMA ReplacedTree ==
  ASSUME TreeOK, NEW p \in Entries, NEW q \in Entries, ~IsPrefix(p, q), ~IsPrefix(q, p),
         Fits(p, q), IsDir(Parent(q)), inode' = Replaced(p, q)
  PROVE  TreeOK'
<1>1. /\ p \in Seq(Names) /\ q \in Seq(Names) /\ q # Nowhere /\ q # <<>>
      /\ Parent(q) \in Paths /\ Parent(q) # Nowhere
  BY EntryTyped
<1>2. \A n \in Under(p) :
        /\ n \in Nodes /\ inode[n].at \in Seq(Names) /\ IsPrefix(p, inode[n].at)
        /\ inode'[n].at = Place(p, q, inode[n].at) /\ inode'[n].at \in Paths
        /\ inode'[n].kind = inode[n].kind
  BY ReplacedNodes
<1>3. /\ \A n \in Under(q) : inode'[n] = NoInode
      /\ \A n \in Nodes \ (Under(p) \cup Under(q)) : inode'[n] = inode[n] /\ inode[n].at # q
  BY ReplacedNodes
<1>4. Root \in Nodes \ (Under(p) \cup Under(q))
  BY UnderLeaf, NodesAssumption
<1>5. inode \in [Nodes -> Inode]
  BY DEF TreeOK
<1>6. inode' \in [Nodes -> Inode]
  <2>1. \A n \in Nodes : inode'[n] \in Inode
    BY <1>5, ReplacedNodes, NodeTyped
  <2> QED BY <2>1 DEF Replaced
<1>7. inode'[Root].at = <<>> /\ inode'[Root].kind = "dir"
  BY <1>2, <1>3, <1>4, RootPlace
<1>8. ASSUME NEW n \in Under(p), NEW m \in Nodes, inode'[m].at = inode'[n].at, m # n
      PROVE  FALSE
  <2>1. /\ n \in Nodes /\ inode'[n].at = Place(p, q, inode[n].at) /\ inode'[n].at # Nowhere
        /\ inode[n].at \in Seq(Names) /\ IsPrefix(p, inode[n].at)
        /\ IsPrefix(q, Place(p, q, inode[n].at)) /\ inode[n].at # Nowhere
    BY <1>1, <1>2, <1>3, PlaceFront, NowhereAssumption DEF Under
  <2>2. CASE m \in Under(p)
    <3>1. /\ inode'[m].at = Place(p, q, inode[m].at)
          /\ inode[m].at \in Seq(Names) /\ IsPrefix(p, inode[m].at)
      BY <1>2, <1>3, <2>2
    <3>2. inode[m].at = inode[n].at
      BY <1>1, <1>8, <2>1, <3>1, PlaceApart
    <3> QED BY <1>8, <2>1, <3>2 DEF TreeOK
  <2>3. CASE m \in Under(q)
    BY <1>2, <1>3, <1>8, <2>1, <2>3 DEF NoInode
  <2>4. CASE m \notin Under(p) /\ m \notin Under(q)
    BY <1>2, <1>3, <1>8, <2>1, <2>4 DEF Under
  <2> QED BY <2>2, <2>3, <2>4
<1>9. ASSUME NEW m \in Nodes, NEW n \in Nodes, inode'[m].at = inode'[n].at, m # n
      PROVE  inode'[m].at = Nowhere
  <2>1. m \notin Under(p) /\ n \notin Under(p)
    BY <1>8, <1>9
  <2>2. CASE m \in Under(q) \/ n \in Under(q)
    BY <1>2, <1>3, <1>9, <2>2 DEF NoInode
  <2>3. CASE m \notin Under(q) /\ n \notin Under(q)
    BY <1>2, <1>3, <1>9, <2>1, <2>3 DEF TreeOK
  <2> QED BY <2>2, <2>3
<1>10. ASSUME NEW n \in Nodes \ {Root}, inode'[n].at # Nowhere
      PROVE  \E d \in Nodes : inode'[d].at = Front(inode'[n].at) /\ inode'[d].kind = "dir"
  <2>1. n \notin Under(q) /\ inode[n].at # Nowhere
    BY <1>2, <1>3, <1>10 DEF NoInode, Under
  <2>2. /\ inode[n].at \in Seq(Names) /\ inode[n].at # <<>>
        /\ Front(inode[n].at) # Nowhere /\ Front(inode[n].at) \in Paths
    BY <2>1, ParentPlace
  <2>3. PICK d \in Nodes : inode[d].at = Front(inode[n].at) /\ inode[d].kind = "dir"
    BY <2>1, ParentPlace
  <2>4. d \notin Under(q)
    BY <1>1, <2>1, <2>2, <2>3, FrontPrefix DEF Under
  <2>5. CASE n \notin Under(p)
    <3>1. d \notin Under(p)
      BY <1>1, <2>1, <2>2, <2>3, <2>5, FrontPrefix DEF Under
    <3> QED BY <1>2, <1>3, <2>1, <2>3, <2>4, <2>5, <3>1
  <2>6. CASE n \in Under(p) /\ inode[n].at = p
    <3>1. inode'[n].at = q
      BY <1>1, <1>2, <1>3, <2>6, PlaceFront
    <3>2. NodeAt(Parent(q)) \in Nodes /\ inode[NodeAt(Parent(q))].at = Parent(q)
      BY <1>1, NodeAtPath DEF IsDir
    <3>3. NodeAt(Parent(q)) \notin Under(p)
      BY <1>1, <3>2, FrontPrefix DEF Under, Parent
    <3>4. NodeAt(Parent(q)) \notin Under(q)
      <4>1. /\ Len(Front(q)) = Len(q) - 1 /\ Len(q) \in Nat /\ Front(q) \in Seq(Names)
        BY <1>1, FrontNames
      <4>2. ~IsPrefix(q, Front(q))
        BY <1>1, <4>1, PrefixNames
      <4> QED BY <3>2, <4>2 DEF Under, Parent
    <3> QED BY <1>2, <1>3, <3>1, <3>2, <3>3, <3>4 DEF IsDir, Parent
  <2>7. CASE n \in Under(p) /\ inode[n].at # p
    <3>1. /\ inode'[n].at = Place(p, q, inode[n].at)
          /\ IsPrefix(p, inode[n].at)
      BY <1>2, <1>3, <2>7
    <3>2. Front(inode'[n].at) = Place(p, q, Front(inode[n].at))
      BY <1>1, <2>2, <2>7, <3>1, PlaceFront
    <3>3. d \in Under(p)
      BY <1>1, <2>2, <2>3, <2>7, <3>1, FrontPrefix DEF Under
    <3> QED BY <1>2, <1>3, <2>3, <3>2, <3>3
  <2> QED BY <2>5, <2>6, <2>7
<1> QED BY <1>6, <1>7, <1>9, <1>10 DEF TreeOK

\* Where the system allows a rename there is at most an empty directory, or a
\* file, at the new path.
LEMMA MovedTree ==
  ASSUME TreeOK, NEW p \in Entries, NEW q \in Entries, p # q, MoveError(p, q) = "ok"
  PROVE  /\ Present(p) /\ ~IsPrefix(p, q) /\ ~IsPrefix(q, p) /\ IsDir(Parent(q))
         /\ Under(q) = {n \in Nodes : inode[n].at = q}
         /\ Moved(p, q) = Replaced(p, q)
         /\ Fits(p, q) /\ inode' = Moved(p, q) => TreeOK'
<1>1. /\ Present(p) /\ Present(Parent(q)) /\ ~IsFile(Parent(q))
      /\ ~IsStrictPrefix(p, q) /\ ~IsStrictPrefix(q, p)
      /\ IsDir(q) => Under(q) = {NodeAt(q)}
  BY DEF MoveError, LookupError
<1>2. ~IsPrefix(p, q) /\ ~IsPrefix(q, p)
  BY <1>1 DEF IsStrictPrefix
<1>3. IsDir(Parent(q))
  <2>1. NodeAt(Parent(q)) \in Nodes /\ inode[NodeAt(Parent(q))].at = Parent(q)
    BY <1>1, EntryTyped, NodeAtPath
  <2>2. inode[NodeAt(Parent(q))].kind \in {"file", "dir"}
    BY <2>1 DEF TreeOK, Inode
  <2> QED BY <1>1, <2>2 DEF IsDir, IsFile
<1>4. Under(q) = {n \in Nodes : inode[n].at = q}
  <2>1. CASE ~Present(q)
    BY <2>1, UnderLeaf DEF Present
  <2>2. CASE Present(q)
    <3>1. /\ NodeAt(q) \in Nodes /\ inode[NodeAt(q)].at = q
          /\ \A n \in Nodes : inode[n].at = q => n = NodeAt(q)
      BY <2>2, EntryTyped, NodeAtPath
    <3>2. inode[NodeAt(q)].kind \in {"file", "dir"}
      BY <3>1 DEF TreeOK, Inode
    <3>3. Under(q) = {NodeAt(q)}
      BY <1>1, <2>2, <3>2, UnderLeaf DEF IsDir, IsFile
    <3> QED BY <3>1, <3>3
  <2> QED BY <2>1, <2>2
<1>5. Moved(p, q) = Replaced(p, q)
  <2>1. Under(p) \cap Under(q) = {}
    <3>1. ASSUME NEW n \in Under(p), inode[n].at = q
          PROVE  FALSE
      BY <1>2, <3>1 DEF Under
    <3> QED BY <1>4, <3>1 DEF Under
  <2>2. ASSUME NEW n \in Nodes
        PROVE  Moved(p, q)[n] = Replaced(p, q)[n]
    <3>1. CASE n \in Under(q)
      BY <1>4, <2>1, <3>1 DEF Moved, Replaced
    <3>2. CASE n \notin Under(q)
      BY <3>2 DEF Replaced
    <3> QED BY <3>1, <3>2
  <2>3. Moved(p, q) = [n \in Nodes |-> Moved(p, q)[n]]
    BY DEF Moved
  <2>4. Replaced(p, q) = [n \in Nodes |-> Replaced(p, q)[n]]
    BY DEF Replaced
  <2> QED BY <2>2, <2>3, <2>4
<1>6. ASSUME Fits(p, q), inode' = Moved(p, q)
      PROVE  TreeOK'
  BY <1>2, <1>3, <1>5, <1>6, ReplacedTree
<1> QED BY <1>1, <1>2, <1>3, <1>4, <1>5, <1>6

\* Whatever other processes do.
LEMMA ElsewhereTree ==
  ASSUME TreeOK, Elsewhere
  PROVE  TreeOK'
<1>1. CASE \E p \in Entries, k \in {"file", "dir"} : CreateError(p) = "ok" /\ Add(p, k)
  BY <1>1, AddTree DEF Add
<1>2. CASE \E p \in Entries : /\ UnlinkError(p) = "ok" \/ RmdirError(p) = "ok"
                              /\ inode' = Without({NodeAt(p)})
  BY <1>2, UnlinkedTree
<1>3. CASE \E p, q \in Entries : /\ p # q /\ MoveError(p, q) = "ok" /\ Fits(p, q)
                                 /\ inode' = Moved(p, q)
  BY <1>3, MovedTree
<1> QED BY <1>1, <1>2, <1>3 DEF Elsewhere

-----------------------------------------------------------------------------
(* What the system calls keep: files remain files, directories directories. *)

KindsStay ==
  \A n \in Nodes : inode[n].at # Nowhere /\ inode'[n].at # Nowhere =>
    inode'[n].kind = inode[n].kind

\* A node that is added did not exist.
LEMMA AddKinds ==
  ASSUME TreeOK, NEW n \in Nodes, inode[n].at = Nowhere, NEW v,
         inode' = [inode EXCEPT ![n] = v]
  PROVE  KindsStay /\ \A m \in Nodes : inode[m].at # Nowhere => inode'[m] = inode[m]
BY DEF TreeOK, KindsStay

\* Nodes that are removed do not exist any more.
LEMMA WithoutKinds ==
  ASSUME NEW gone, inode' = Without(gone)
  PROVE  KindsStay
BY DEF Without, KindsStay, NoInode

\* Nodes move as what they are.
LEMMA ReplacedKinds ==
  ASSUME TreeOK, NEW p \in Entries, NEW q \in Entries, ~IsPrefix(p, q), ~IsPrefix(q, p),
         Fits(p, q), inode' = Replaced(p, q)
  PROVE  KindsStay
<1>1. /\ \A n \in Under(q) : inode'[n] = NoInode
      /\ \A n \in Under(p) : inode'[n].kind = inode[n].kind
      /\ \A n \in Nodes \ (Under(p) \cup Under(q)) : inode'[n] = inode[n]
  BY ReplacedNodes
<1> QED BY <1>1 DEF KindsStay, NoInode

LEMMA ElsewhereKinds ==
  ASSUME TreeOK, Elsewhere
  PROVE  KindsStay
<1>1. CASE \E p \in Entries, k \in {"file", "dir"} : CreateError(p) = "ok" /\ Add(p, k)
  BY <1>1, AddKinds DEF Add
<1>2. CASE \E p \in Entries : /\ UnlinkError(p) = "ok" \/ RmdirError(p) = "ok"
                              /\ inode' = Without({NodeAt(p)})
  BY <1>2, WithoutKinds
<1>3. CASE \E p, q \in Entries : /\ p # q /\ MoveError(p, q) = "ok" /\ Fits(p, q)
                                 /\ inode' = Moved(p, q)
  BY <1>3, MovedTree, ReplacedKinds
<1> QED BY <1>1, <1>2, <1>3 DEF Elsewhere
=============================================================================
