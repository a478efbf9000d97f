----------------------------- MODULE ProgramProofs -----------------------------
(***************************************************************************)
(* The command line program, for every list of arguments, every            *)
(* environment and every configuration file.  First the operators on JSON  *)
(* trees, which are recursive functions: that they exist, and what they    *)
(* give one key at a time.  Then what deep_merge and the environment make  *)
(* of a setting, and what this lets a command do.                          *)
(*                                                                         *)
(* The second part is about what an adviser is shown and says, whatever     *)
(* the market, the feeds, the evidence file and a model answer.            *)
(***************************************************************************)
EXTENDS Program, Observation, SequenceTheorems, FiniteSetTheorems, WellFoundedInduction, TLAPS

(* Every nonempty set of natural numbers has a least one: what the proofs  *)
(* of this module use in the place of induction.                           *)
LEMMA LeastNumber ==
    ASSUME NEW T, T \subseteq Nat, T # {}
    PROVE  \E n \in T : \A m \in T : n <= m
<1> DEFINE R == OpToRel(<, Nat)
<1>1. IsWellFoundedOn(R, Nat)
  BY NatLessThanWellFounded
<1>2. \A x, y \in Nat : <<x, y>> \in R <=> x < y
  BY DEF OpToRel
<1> HIDE DEF R
<1>3. PICK n \in T : \A m \in T : <<m, n>> \notin R
  BY <1>1, WFMin
<1>4. ASSUME NEW m \in T PROVE n <= m
  <2>1. m \in Nat /\ n \in Nat
    OBVIOUS
  <2>2. ~(m < n)
    BY <1>2, <1>3, <2>1
  <2> QED BY <2>1, <2>2
<1> QED BY <1>4

(* Sequences of at most three elements, element by element.                *)
LEMMA AppendOne ==
    ASSUME NEW a
    PROVE  Append(<<>>, a) = <<a>>
<1> DEFINE s == Append(<<>>, a)
<1>1. s \in Seq({a}) /\ Len(s) = 1 /\ s[1] = a
  BY AppendProperties
<1>2. \A i \in 1 .. 1 : i = 1
  OBVIOUS
<1> HIDE DEF s
<1>3. <<a>> \in Seq({a}) /\ Len(<<a>>) = 1 /\ \A i \in 1 .. 1 : s[i] = <<a>>[i]
  BY <1>1, <1>2
<1>4. s = <<a>>
  BY <1>1, <1>3, SeqEqual
<1> QED BY <1>4 DEF s

LEMMA AppendTwo ==
    ASSUME NEW a, NEW b
    PROVE  Append(<<a>>, b) = <<a, b>>
<1> DEFINE s == Append(<<a>>, b)
<1>1. s \in Seq({a, b}) /\ Len(s) = 2 /\ s[1] = a /\ s[2] = b
  OBVIOUS
<1>2. \A i \in 1 .. 2 : i = 1 \/ i = 2
  OBVIOUS
<1> HIDE DEF s
<1>3. <<a, b>> \in Seq({a, b}) /\ Len(<<a, b>>) = 2 /\ \A i \in 1 .. 2 : s[i] = <<a, b>>[i]
  BY <1>1, <1>2
<1>4. s = <<a, b>>
  BY <1>1, <1>3, SeqEqual
<1> QED BY <1>4 DEF s

LEMMA AppendThree ==
    ASSUME NEW a, NEW b, NEW c
    PROVE  Append(<<a, b>>, c) = <<a, b, c>>
<1> DEFINE s == Append(<<a, b>>, c)
<1>1. s \in Seq({a, b, c}) /\ Len(s) = 3 /\ s[1] = a /\ s[2] = b /\ s[3] = c
  OBVIOUS
<1>2. \A i \in 1 .. 3 : i = 1 \/ i = 2 \/ i = 3
  OBVIOUS
<1> HIDE DEF s
<1>3. <<a, b, c>> \in Seq({a, b, c}) /\ Len(<<a, b, c>>) = 3
      /\ \A i \in 1 .. 3 : s[i] = <<a, b, c>>[i]
  BY <1>1, <1>2
<1>4. s = <<a, b, c>>
  BY <1>1, <1>3, SeqEqual
<1> QED BY <1>4 DEF s

LEMMA PrefixesOfTwo ==
    ASSUME NEW a, NEW b
    PROVE  SubSeq(<<a, b>>, 1, 0) = <<>> /\ SubSeq(<<a, b>>, 1, 1) = <<a>>
<1> DEFINE s == SubSeq(<<a, b>>, 1, 1)
<1>1. s \in Seq({a, b}) /\ Len(s) = 1 /\ s[1] = a
  OBVIOUS
<1>2. \A i \in 1 .. 1 : i = 1
  OBVIOUS
<1> HIDE DEF s
<1>3. <<a>> \in Seq({a, b}) /\ Len(<<a>>) = 1 /\ \A i \in 1 .. 1 : s[i] = <<a>>[i]
  BY <1>1, <1>2
<1>4. s = <<a>>
  BY <1>1, <1>3, SeqEqual
<1> QED BY <1>4 DEF s

-----------------------------------------------------------------------------
(* The nodes At passes through on its way down a path.                     *)
Node(v, path) ==
    CHOOSE node : node = [n \in 0 .. Len(path) |->
                             IF n = 0 THEN v ELSE Child(node[n - 1], path[n])]

LEMMA AtIsNode ==
    ASSUME NEW v, NEW path
    PROVE  At(v, path) = Node(v, path)[Len(path)]
  BY DEF At, Node

(* They are defined, however long the path is.                             *)
LEMMA NodeIsDefined ==
    ASSUME NEW v, NEW S, NEW path \in Seq(S)
    PROVE  \A n \in 0 .. Len(path) :
               Node(v, path)[n] = IF n = 0 THEN v ELSE Child(Node(v, path)[n - 1], path[n])
<1> DEFINE Defined(k) == \E node : node = [n \in 0 .. k |->
                                              IF n = 0 THEN v ELSE Child(node[n - 1], path[n])]
           Missing == {k \in Nat : ~Defined(k)}
<1>1. Defined(0)
  <2> WITNESS [n \in 0 .. 0 |-> v]
  <2> QED OBVIOUS
<1>2. ASSUME NEW k \in Nat, Defined(k)
      PROVE  Defined(k + 1)
  <2>1. PICK node : node = [n \in 0 .. k |-> IF n = 0 THEN v ELSE Child(node[n - 1], path[n])]
    BY <1>2
  <2> DEFINE longer == [n \in 0 .. k + 1 |-> IF n <= k THEN node[n] ELSE Child(node[k], path[k + 1])]
  <2>2. ASSUME NEW n \in 0 .. k + 1
        PROVE  longer[n] = IF n = 0 THEN v ELSE Child(longer[n - 1], path[n])
    <3>1. CASE n <= k
      <4>1. n \in 0 .. k /\ node[n] = IF n = 0 THEN v ELSE Child(node[n - 1], path[n])
        BY <2>1, <3>1
      <4>2. n # 0 => longer[n - 1] = node[n - 1]
        BY <3>1
      <4> QED BY <3>1, <4>1, <4>2
    <3>2. CASE n = k + 1
      BY <3>2
    <3> QED BY <3>1, <3>2
  <2>3. longer = [n \in 0 .. k + 1 |-> IF n = 0 THEN v ELSE Child(longer[n - 1], path[n])]
    BY <2>2
  <2> HIDE DEF longer
  <2> QED BY <2>3
<1>3. Missing = {}
  <2> SUFFICES ASSUME Missing # {} PROVE FALSE
    OBVIOUS
  <2>1. PICK least \in Missing : \A m \in Missing : least <= m
    BY LeastNumber
  <2> HIDE DEF Defined
  <2>2. least # 0 /\ least - 1 \in Nat
    BY <1>1
  <2>3. Defined(least - 1)
    BY <2>1, <2>2
  <2> QED BY <1>2, <2>2, <2>3
<1>4. Defined(Len(path))
  BY <1>3
<1>5. Node(v, path) = [n \in 0 .. Len(path) |->
                          IF n = 0 THEN v ELSE Child(Node(v, path)[n - 1], path[n])]
  BY <1>4 DEF Node
<1> QED BY ONLY <1>5

(* At the empty path stands the value itself, and one key further its      *)
(* child.                                                                  *)
LEMMA AtNothing ==
    ASSUME NEW v
    PROVE  At(v, <<>>) = v
<1>1. <<>> \in Seq({}) /\ 0 \in 0 .. Len(<<>>)
  OBVIOUS
<1>2. Node(v, <<>>)[0] = v
  BY <1>1, NodeIsDefined
<1> QED BY <1>2, AtIsNode

LEMMA AtChild ==
    ASSUME NEW v, NEW S, NEW path \in Seq(S), NEW key \in S
    PROVE  At(v, Append(path, key)) = Child(At(v, path), key)
<1> DEFINE long == Append(path, key)
           Differing == {n \in Nat : n <= Len(path) /\ Node(v, long)[n] # Node(v, path)[n]}
<1>1. long \in Seq(S) /\ Len(long) = Len(path) + 1 /\ long[Len(path) + 1] = key
  OBVIOUS
<1>2. \A n \in 1 .. Len(path) : long[n] = path[n]
  OBVIOUS
<1>3. \A n \in 0 .. Len(path) :
          Node(v, path)[n] = IF n = 0 THEN v ELSE Child(Node(v, path)[n - 1], path[n])
  BY NodeIsDefined
<1>4. \A n \in 0 .. Len(long) :
          Node(v, long)[n] = IF n = 0 THEN v ELSE Child(Node(v, long)[n - 1], long[n])
  <2> HIDE DEF long
  <2> QED BY <1>1, NodeIsDefined
<1> HIDE DEF long
<1>5. Differing = {}
  <2> SUFFICES ASSUME Differing # {} PROVE FALSE
    OBVIOUS
  <2>1. PICK n \in Differing : \A m \in Differing : n <= m
    BY LeastNumber
  <2>2. n # 0
    BY <1>1, <1>3, <1>4
  <2>3. n - 1 \notin Differing /\ n - 1 \in Nat /\ n - 1 <= Len(path)
    BY <2>1, <2>2
  <2> QED BY <1>1, <1>2, <1>3, <1>4, <2>2, <2>3
<1>6. Node(v, long)[Len(path)] = Node(v, path)[Len(path)]
  BY <1>5
<1>7. At(v, long) = Child(Node(v, long)[Len(path)], key)
  BY <1>1, <1>4, AtIsNode
<1> QED BY <1>6, <1>7, AtIsNode DEF long

(* What a layer says and blocks, one key further.                          *)
LEMMA PrefixesOfLonger ==
    ASSUME NEW S, NEW path \in Seq(S), NEW key \in S
    PROVE  /\ Len(Append(path, key)) = Len(path) + 1
           /\ Append(path, key)[Len(path) + 1] = key
           /\ SubSeq(path, 1, Len(path)) = path
           /\ \A n \in 0 .. Len(path) :
                  SubSeq(Append(path, key), 1, n) = SubSeq(path, 1, n)
           /\ \A n \in 1 .. Len(path) : Append(path, key)[n] = path[n]
  OBVIOUS

LEMMA SaysChild ==
    ASSUME NEW v, NEW S, NEW path \in Seq(S), NEW key \in S
    PROVE  Says(v, Append(path, key)) <=> Says(v, path) /\ Has(At(v, path), key)
<1> DEFINE long == Append(path, key)
           Step(p, n) == Has(At(v, SubSeq(p, 1, n)), p[n + 1])
<1>1. Says(v, long) <=> \A n \in 0 .. Len(path) : Step(long, n)
  BY PrefixesOfLonger DEF Says
<1>2. ASSUME NEW n \in 0 .. Len(path) - 1
      PROVE  Step(long, n) <=> Step(path, n)
  <2>1. SubSeq(long, 1, n) = SubSeq(path, 1, n) /\ long[n + 1] = path[n + 1]
    BY PrefixesOfLonger
  <2> QED BY ONLY <2>1
<1>3. Step(long, Len(path)) <=> Has(At(v, path), key)
  <2>1. SubSeq(long, 1, Len(path)) = path /\ long[Len(path) + 1] = key
    BY PrefixesOfLonger
  <2> QED BY ONLY <2>1
<1>4. Says(v, path) <=> \A n \in 0 .. Len(path) - 1 : Step(path, n)
  BY DEF Says
<1> HIDE DEF Step
<1>5. Len(path) \in Nat
  OBVIOUS
<1> QED BY <1>1, <1>2, <1>3, <1>4, <1>5

LEMMA BlocksChild ==
    ASSUME NEW v, NEW S, NEW path \in Seq(S), NEW key \in S
    PROVE  Blocks(v, Append(path, key)) <=>
               \/ Blocks(v, path)
               \/ path # <<>> /\ Says(v, path) /\ ~IsObject(At(v, path))
<1> DEFINE long == Append(path, key)
           Stops(p, n) == Says(v, SubSeq(p, 1, n)) /\ ~IsObject(At(v, SubSeq(p, 1, n)))
<1>1. Blocks(v, long) <=> \E n \in 1 .. Len(path) : Stops(long, n)
  BY PrefixesOfLonger DEF Blocks
<1>2. ASSUME NEW n \in 1 .. Len(path)
      PROVE  Stops(long, n) <=> Stops(path, n)
  <2>1. SubSeq(long, 1, n) = SubSeq(path, 1, n)
    BY PrefixesOfLonger
  <2> QED BY ONLY <2>1
<1>3. Stops(path, Len(path)) <=> Says(v, path) /\ ~IsObject(At(v, path))
  <2>1. SubSeq(path, 1, Len(path)) = path
    BY PrefixesOfLonger
  <2> QED BY ONLY <2>1
<1>4. Blocks(v, path) <=> \E n \in 1 .. Len(path) - 1 : Stops(path, n)
  BY DEF Blocks
<1> HIDE DEF Stops
<1>5. Len(path) \in Nat /\ (path # <<>> <=> Len(path) \in 1 .. Len(path))
  OBVIOUS
<1> QED BY <1>1, <1>2, <1>3, <1>4, <1>5

-----------------------------------------------------------------------------
(* The merged tree's nodes at every path, and one of them, made of those   *)
(* below it.                                                               *)
MergedNode(base, over, merge, path) ==
    LET b == At(base, path)
        o == At(over, path)
        Merges(key) == /\ Append(path, key) \in Paths /\ Has(b, key)
                       /\ IsObject(b.object[key]) /\ IsObject(o.object[key])
    IN  IF ~IsObject(o) THEN b
        ELSE IF ~IsObject(b) THEN o
        ELSE Object([key \in DOMAIN b.object \cup DOMAIN o.object |->
                IF ~Has(o, key) THEN b.object[key]
                ELSE IF Merges(key) THEN merge[Append(path, key)]
                ELSE o.object[key]])

Merged(base, over) ==
    CHOOSE merge : merge = [path \in Paths |-> MergedNode(base, over, merge, path)]

LEMMA MergeIsMerged ==
    ASSUME NEW base, NEW over
    PROVE  deep_merge(base, over) = Merged(base, over)[<<>>]
  BY DEF deep_merge, Merged, MergedNode

(* A node depends on nodes at longer paths only.                           *)
LEMMA MergedNodeLooksDown ==
    ASSUME NEW base, NEW over, NEW f, NEW g, NEW path,
           \A key : Append(path, key) \in Paths => f[Append(path, key)] = g[Append(path, key)]
    PROVE  MergedNode(base, over, f, path) = MergedNode(base, over, g, path)
  BY DEF MergedNode

(* The merged tree is defined, however deep the two trees are.             *)
LEMMA MergedIsDefined ==
    ASSUME NEW base, NEW over
    PROVE  \A path \in Paths :
               Merged(base, over)[path] = MergedNode(base, over, Merged(base, over), path)
<1> DEFINE From(k) == {path \in Paths : Len(path) + k >= MaxNesting}
           Right(merge, k) == \A path \in From(k) : merge[path] = MergedNode(base, over, merge, path)
           Defined(k) == \E merge : Right(merge, k)
           Missing == {k \in Nat : ~Defined(k)}
<1>1. MaxNesting \in Nat /\ \A path \in Paths : Len(path) \in Nat /\ Len(path) <= MaxNesting
  BY NestingAssumption DEF Paths
<1>2. \A path, key : path \in Paths /\ Append(path, key) \in Paths =>
          Len(Append(path, key)) = Len(path) + 1
  <2> SUFFICES ASSUME NEW path \in Paths, NEW key, Append(path, key) \in Paths
               PROVE  Len(Append(path, key)) = Len(path) + 1
    OBVIOUS
  <2> QED BY DEF Paths
<1>3. ASSUME NEW k \in Nat, NEW f, NEW g, NEW path \in From(k + 1),
             \A p \in From(k) : f[p] = g[p]
      PROVE  MergedNode(base, over, f, path) = MergedNode(base, over, g, path)
  <2>1. ASSUME NEW key, Append(path, key) \in Paths
        PROVE  f[Append(path, key)] = g[Append(path, key)]
    <3>1. Append(path, key) \in From(k)
      BY <1>1, <1>2, <2>1
    <3> QED BY <1>3, <3>1
  <2> QED BY <2>1, MergedNodeLooksDown
<1>4. Defined(0)
  <2> DEFINE leaves == [path \in Paths |-> MergedNode(base, over, <<>>, path)]
  <2>1. ASSUME NEW path \in From(0), NEW key
        PROVE  Append(path, key) \notin Paths
    <3> SUFFICES ASSUME Append(path, key) \in Paths PROVE FALSE
      OBVIOUS
    <3>1. Len(Append(path, key)) = Len(path) + 1
      BY <1>2
    <3>2. Len(Append(path, key)) <= MaxNesting
      BY <1>1
    <3>3. Len(path) \in Nat /\ Len(path) >= MaxNesting
      BY <1>1
    <3> QED BY <1>1, <3>1, <3>2, <3>3
  <2>2. ASSUME NEW path \in From(0)
        PROVE  leaves[path] = MergedNode(base, over, leaves, path)
    <3>1. leaves[path] = MergedNode(base, over, <<>>, path)
      OBVIOUS
    <3> HIDE DEF leaves
    <3> QED BY <2>1, <3>1, MergedNodeLooksDown
  <2> HIDE DEF leaves
  <2> QED BY <2>2
<1>5. ASSUME NEW k \in Nat, Defined(k)
      PROVE  Defined(k + 1)
  <2>1. PICK below : Right(below, k)
    BY <1>5
  <2> DEFINE here == [path \in Paths |-> IF path \in From(k) THEN below[path]
                                         ELSE MergedNode(base, over, below, path)]
  <2>2. \A path \in From(k) : here[path] = below[path]
    OBVIOUS
  <2>3. ASSUME NEW path \in From(k + 1)
        PROVE  here[path] = MergedNode(base, over, here, path)
    <3>1. here[path] = MergedNode(base, over, below, path)
      BY <2>1
    <3> HIDE DEF here
    <3>2. MergedNode(base, over, below, path) = MergedNode(base, over, here, path)
      BY <1>3, <2>2
    <3> QED BY <3>1, <3>2
  <2> HIDE DEF here
  <2> QED BY <2>3
<1>6. Missing = {}
  <2> SUFFICES ASSUME Missing # {} PROVE FALSE
    OBVIOUS
  <2>1. PICK least \in Missing : \A m \in Missing : least <= m
    BY LeastNumber
  <2> HIDE DEF Defined
  <2>2. least # 0 /\ least - 1 \in Nat
    BY <1>4
  <2>3. Defined(least - 1)
    BY <2>1, <2>2
  <2> QED BY <1>5, <2>2, <2>3
<1>7. PICK all : Right(all, MaxNesting)
  BY <1>1, <1>6
<1>8. From(MaxNesting) = Paths
  BY <1>1
<1> DEFINE merge == [path \in Paths |-> all[path]]
<1>9. ASSUME NEW path \in Paths
      PROVE  merge[path] = MergedNode(base, over, merge, path)
  <2>1. merge[path] = MergedNode(base, over, all, path)
    BY <1>7, <1>8
  <2>2. \A p \in Paths : merge[p] = all[p]
    OBVIOUS
  <2> HIDE DEF merge
  <2>3. MergedNode(base, over, all, path) = MergedNode(base, over, merge, path)
    BY <2>2, MergedNodeLooksDown
  <2> QED BY <2>1, <2>3
<1>10. merge = [path \in Paths |-> MergedNode(base, over, merge, path)]
  BY <1>9
<1> HIDE DEF merge
<1>11. Merged(base, over) = [path \in Paths |-> MergedNode(base, over, Merged(base, over), path)]
  BY <1>10 DEF Merged
<1> QED BY ONLY <1>11

-----------------------------------------------------------------------------
(* Which of two layers a merged tree follows at a path: both, where it     *)
(* goes on merging, else one of them, or neither, below a plain value.     *)
FollowsBoth(base, over, tree, path) ==
    /\ Says(over, path) /\ ~Blocks(over, path) /\ path \in Paths
    /\ IsObject(At(base, path)) /\ IsObject(At(over, path))
    /\ At(tree, path) = Merged(base, over)[path]

FollowsOver(base, over, tree, path) ==
    /\ Says(over, path) /\ ~Blocks(over, path)
    /\ IsObject(At(over, path)) => \A key : ~Has(At(base, path), key)
    /\ At(tree, path) = At(over, path)

FollowsBase(base, over, tree, path) ==
    /\ ~Says(over, path) /\ ~Blocks(over, path)
    /\ At(tree, path) = At(base, path)

FollowsNone(over, tree, path) ==
    ~Says(over, path) /\ Blocks(over, path) /\ At(tree, path) = Empty

Follows(base, over, tree, path) ==
    \/ FollowsBoth(base, over, tree, path) \/ FollowsOver(base, over, tree, path)
    \/ FollowsBase(base, over, tree, path) \/ FollowsNone(over, tree, path)

LEMMA FollowsAtRoot ==
    ASSUME NEW base, NEW over, IsObject(over)
    PROVE  Follows(base, over, deep_merge(base, over), <<>>)
<1> DEFINE tree == deep_merge(base, over)
<1>1. At(tree, <<>>) = tree /\ At(base, <<>>) = base /\ At(over, <<>>) = over
  BY AtNothing
<1>2. Says(over, <<>>) /\ ~Blocks(over, <<>>)
  BY DEF Says, Blocks
<1>3. <<>> \in Paths
  BY NestingAssumption DEF Paths
<1>4. tree = Merged(base, over)[<<>>]
  BY MergeIsMerged
<1> SUFFICES Follows(base, over, tree, <<>>)
  OBVIOUS
<1> HIDE DEF tree
<1>5. CASE IsObject(base)
  BY <1>1, <1>2, <1>3, <1>4, <1>5 DEF Follows, FollowsBoth
<1>6. CASE ~IsObject(base)
  <2>1. tree = over
    <3>1. tree = MergedNode(base, over, Merged(base, over), <<>>)
      BY <1>3, <1>4, MergedIsDefined
    <3> QED BY <1>1, <1>6, <3>1 DEF MergedNode
  <2> QED BY <1>1, <1>2, <1>6, <2>1 DEF Follows, FollowsOver, Has
<1> QED BY <1>5, <1>6

(* A child of a node where both layers are followed.                       *)
LEMMA ChildOfMerged ==
    ASSUME NEW base, NEW over, NEW path \in Paths, NEW key \in STRING,
           IsObject(At(base, path)), IsObject(At(over, path))
    PROVE  LET b == At(base, path)
               o == At(over, path)
               child == Child(Merged(base, over)[path], key)
           IN  /\ ~Has(o, key) => child = Child(b, key)
               /\ Has(o, key) =>
                     \/ /\ Append(path, key) \in Paths /\ Has(b, key)
                        /\ IsObject(b.object[key]) /\ IsObject(o.object[key])
                        /\ Has(Merged(base, over)[path], key)
                        /\ child = Merged(base, over)[Append(path, key)]
                     \/ /\ ~( /\ Append(path, key) \in Paths /\ Has(b, key)
                             /\ IsObject(b.object[key]) /\ IsObject(o.object[key]))
                        /\ child = o.object[key]
<1> DEFINE b == At(base, path)
           o == At(over, path)
           Merges(k) == /\ Append(path, k) \in Paths /\ Has(b, k)
                        /\ IsObject(b.object[k]) /\ IsObject(o.object[k])
           fields == [k \in DOMAIN b.object \cup DOMAIN o.object |->
                        IF ~Has(o, k) THEN b.object[k]
                        ELSE IF Merges(k) THEN Merged(base, over)[Append(path, k)]
                        ELSE o.object[k]]
<1>1. Merged(base, over)[path] = Object(fields)
  <2>1. Merged(base, over)[path] = MergedNode(base, over, Merged(base, over), path)
    BY MergedIsDefined
  <2> QED BY ONLY <2>1, IsObject(b), IsObject(o) DEF MergedNode
<1>2. \A k : Has(Object(fields), k) <=> Has(b, k) \/ Has(o, k)
  BY DEF Has, Object, IsObject
<1>3. \A k : Has(Object(fields), k) => Child(Object(fields), k) = fields[k]
  BY DEF Child, Object
<1>4. Has(b, key) \/ Has(o, key) =>
          fields[key] = IF ~Has(o, key) THEN b.object[key]
                        ELSE IF Merges(key) THEN Merged(base, over)[Append(path, key)]
                        ELSE o.object[key]
  BY DEF Has
<1> HIDE DEF fields
<1>5. Child(b, key) = IF Has(b, key) THEN b.object[key] ELSE Empty
  BY DEF Child
<1>6. ~Has(Object(fields), key) => Child(Object(fields), key) = Empty
  BY DEF Child
<1> QED BY <1>1, <1>2, <1>3, <1>4, <1>5, <1>6

(* And what is followed one key further.                                   *)
LEMMA FollowsAtChild ==
    ASSUME NEW base, NEW over, NEW tree, IsObject(over),
           NEW path \in Paths, NEW key \in STRING, Append(path, key) \in Paths,
           Follows(base, over, tree, path)
    PROVE  /\ Follows(base, over, tree, Append(path, key))
           /\ FollowsBoth(base, over, tree, Append(path, key)) =>
                 FollowsOver(base, over, tree, Append(path, key)) \/ Has(At(tree, path), key)
<1> DEFINE long == Append(path, key)
           b == At(base, path)
           o == At(over, path)
           t == At(tree, path)
<1>1. path \in Seq(STRING)
  BY DEF Paths
<1>2. /\ At(base, long) = Child(b, key)
      /\ At(over, long) = Child(o, key)
      /\ At(tree, long) = Child(t, key)
  BY <1>1, AtChild
<1>3. Says(over, long) <=> Says(over, path) /\ Has(o, key)
  BY <1>1, SaysChild
<1>4. Blocks(over, long) <=>
          Blocks(over, path) \/ (path # <<>> /\ Says(over, path) /\ ~IsObject(o))
  BY <1>1, BlocksChild
<1>5. path = <<>> => IsObject(o)
  BY AtNothing
<1>6. /\ \A v : Has(v, key) => Child(v, key) = v.object[key] /\ IsObject(v)
      /\ \A v : ~Has(v, key) => Child(v, key) = Empty
      /\ \A k : ~Has(Empty, k)
  BY DEF Has, Child, Empty, Object
<1>7. CASE FollowsNone(over, tree, path)
  <2>1. FollowsNone(over, tree, long)
    BY <1>2, <1>3, <1>4, <1>6, <1>7 DEF FollowsNone
  <2> QED BY <2>1 DEF Follows, FollowsNone, FollowsBoth
<1>8. CASE FollowsBase(base, over, tree, path)
  <2>1. FollowsBase(base, over, tree, long)
    BY <1>2, <1>3, <1>4, <1>6, <1>8 DEF FollowsBase
  <2> QED BY <2>1 DEF Follows, FollowsBase, FollowsBoth
<1>9. CASE FollowsOver(base, over, tree, path)
  <2>1. CASE Has(o, key)
    <3>1. FollowsOver(base, over, tree, long)
      BY <1>2, <1>3, <1>4, <1>6, <1>9, <2>1 DEF FollowsOver
    <3> QED BY <3>1 DEF Follows
  <2>2. CASE ~Has(o, key) /\ IsObject(o)
    <3>1. FollowsBase(base, over, tree, long)
      BY <1>2, <1>3, <1>4, <1>6, <1>9, <2>2 DEF FollowsOver, FollowsBase
    <3> QED BY <3>1 DEF Follows, FollowsBase, FollowsBoth
  <2>3. CASE ~IsObject(o)
    <3>1. FollowsNone(over, tree, long)
      BY <1>2, <1>3, <1>4, <1>5, <1>6, <1>9, <2>3 DEF FollowsOver, FollowsNone
    <3> QED BY <3>1 DEF Follows, FollowsNone, FollowsBoth
  <2> QED BY <1>6, <2>1, <2>2, <2>3
<1>10. CASE FollowsBoth(base, over, tree, path)
  <2>1. IsObject(b) /\ IsObject(o) /\ t = Merged(base, over)[path]
    BY <1>10 DEF FollowsBoth
  <2>2. CASE ~Has(o, key)
    <3>1. Child(t, key) = Child(b, key)
      BY <2>1, <2>2, ChildOfMerged
    <3>2. FollowsBase(base, over, tree, long)
      BY <1>2, <1>3, <1>4, <1>10, <2>1, <2>2, <3>1 DEF FollowsBoth, FollowsBase
    <3> QED BY <3>2 DEF Follows, FollowsBase, FollowsBoth
  <2>3. CASE Has(o, key) /\ Has(b, key) /\ IsObject(b.object[key]) /\ IsObject(o.object[key])
    <3>1. Child(t, key) = Merged(base, over)[long] /\ Has(t, key)
      BY <2>1, <2>3, ChildOfMerged
    <3>2. FollowsBoth(base, over, tree, long)
      BY <1>2, <1>3, <1>4, <1>6, <1>10, <2>1, <2>3, <3>1 DEF FollowsBoth
    <3> QED BY <3>1, <3>2 DEF Follows
  <2>4. CASE Has(o, key) /\ ~(Has(b, key) /\ IsObject(b.object[key]) /\ IsObject(o.object[key]))
    <3>1. Child(t, key) = o.object[key]
      BY <2>1, <2>4, ChildOfMerged
    <3>2. ~Has(b, key) => Child(b, key) = Empty
      BY <1>6
    <3>3. Has(b, key) /\ ~IsObject(b.object[key]) => \A k : ~Has(Child(b, key), k)
      BY <1>6 DEF Has
    <3>4. FollowsOver(base, over, tree, long)
      BY <1>2, <1>3, <1>4, <1>6, <1>10, <2>1, <2>4, <3>1, <3>2, <3>3 DEF FollowsBoth, FollowsOver
    <3> QED BY <3>4 DEF Follows
  <2> QED BY <2>2, <2>3, <2>4
<1> QED BY <1>7, <1>8, <1>9, <1>10 DEF Follows

(* At the end of the way: what the merged tree has at a path is what the   *)
(* topmost layer has there, unless both layers have an object there.       *)
Layer(base, over, path) ==
    IF Says(over, path) THEN At(over, path)
    ELSE IF Blocks(over, path) THEN Empty ELSE At(base, path)

LEMMA FollowsLayer ==
    ASSUME NEW base, NEW over, NEW tree, NEW path, Follows(base, over, tree, path)
    PROVE  \/ At(tree, path) = Layer(base, over, path)
           \/ FollowsBoth(base, over, tree, path)
  BY DEF Follows, FollowsOver, FollowsBase, FollowsNone, Layer

LEMMA MergedHasOnlyFields ==
    ASSUME NEW base, NEW over, NEW tree, NEW path, FollowsBoth(base, over, tree, path)
    PROVE  DOMAIN At(tree, path) = {"object"}
<1>1. At(tree, path) = MergedNode(base, over, Merged(base, over), path)
  BY MergedIsDefined DEF FollowsBoth
<1>2. IsObject(At(base, path)) /\ IsObject(At(over, path))
  BY DEF FollowsBoth
<1>3. PICK fields : At(tree, path) = Object(fields)
  BY <1>1, <1>2 DEF MergedNode
<1> QED BY <1>3 DEF Object

(* deep_merge, at the paths of one, two and three keys the program reads.  *)
LEMMA ShortTuples ==
    /\ \A S : \A a, b, c \in S : <<a>> \in Seq(S) /\ <<a, b>> \in Seq(S) /\ <<a, b, c>> \in Seq(S)
    /\ \A a, b, c : Len(<<a>>) = 1 /\ Len(<<a, b>>) = 2 /\ Len(<<a, b, c>>) = 3
  OBVIOUS

LEMMA ShortPaths ==
    ASSUME NEW a \in STRING, NEW b \in STRING, NEW c \in STRING
    PROVE  /\ <<>> \in Paths /\ <<a>> \in Paths /\ <<a, b>> \in Paths /\ <<a, b, c>> \in Paths
           /\ Append(<<>>, a) = <<a>>
           /\ Append(<<a>>, b) = <<a, b>>
           /\ Append(<<a, b>>, c) = <<a, b, c>>
<1>1. 0 <= MaxNesting /\ 1 <= MaxNesting /\ 2 <= MaxNesting /\ 3 <= MaxNesting
  BY NestingAssumption
<1>2. /\ <<>> \in Seq(STRING) /\ <<a>> \in Seq(STRING)
      /\ <<a, b>> \in Seq(STRING) /\ <<a, b, c>> \in Seq(STRING)
  BY ShortTuples, EmptySeq, Zenon
<1>3. Len(<<>>) = 0 /\ Len(<<a>>) = 1 /\ Len(<<a, b>>) = 2 /\ Len(<<a, b, c>>) = 3
  BY ShortTuples, EmptySeq, Zenon
<1>4. <<>> \in Paths /\ <<a>> \in Paths /\ <<a, b>> \in Paths /\ <<a, b, c>> \in Paths
  BY <1>1, <1>2, <1>3, Zenon DEF Paths
<1> QED BY <1>4, AppendOne, AppendTwo, AppendThree, Zenon

LEMMA MergeOne ==
    ASSUME NEW base, NEW over, IsObject(over), NEW a \in STRING
    PROVE  Follows(base, over, deep_merge(base, over), <<a>>)
<1>1. <<>> \in Paths /\ Append(<<>>, a) = <<a>> /\ <<a>> \in Paths
  BY ShortPaths, Zenon
<1> QED BY <1>1, FollowsAtRoot, FollowsAtChild

LEMMA MergeTwo ==
    ASSUME NEW base, NEW over, IsObject(over), NEW a \in STRING, NEW b \in STRING
    PROVE  Follows(base, over, deep_merge(base, over), <<a, b>>)
<1>1. <<a>> \in Paths /\ Append(<<a>>, b) = <<a, b>> /\ <<a, b>> \in Paths
  BY ShortPaths, Zenon
<1> QED BY <1>1, MergeOne, FollowsAtChild

LEMMA MergeThree ==
    ASSUME NEW base, NEW over, IsObject(over),
           NEW a \in STRING, NEW b \in STRING, NEW c \in STRING
    PROVE  LET tree == deep_merge(base, over)
           IN  /\ Follows(base, over, tree, <<a, b, c>>)
               /\ FollowsBoth(base, over, tree, <<a, b, c>>) =>
                     FollowsOver(base, over, tree, <<a, b, c>>) \/ Has(At(tree, <<a, b>>), c)
<1>1. <<a, b>> \in Paths /\ Append(<<a, b>>, c) = <<a, b, c>> /\ <<a, b, c>> \in Paths
  BY ShortPaths, Zenon
<1> QED BY <1>1, MergeTwo, FollowsAtChild

-----------------------------------------------------------------------------
(* Short paths, written out.                                               *)
LEMMA AtOne ==
    ASSUME NEW v, NEW a
    PROVE  At(v, <<a>>) = Child(v, a)
<1> DEFINE S == {a}
           none == <<>>
<1>1. a \in S /\ none \in Seq(S)
  OBVIOUS
<1>2. Append(none, a) = <<a>>
  BY AppendOne
<1>3. At(v, none) = v
  BY AtNothing
<1> HIDE DEF S, none
<1>4. At(v, Append(none, a)) = Child(At(v, none), a)
  BY <1>1, AtChild
<1> QED BY <1>2, <1>3, <1>4

LEMMA AtTwo ==
    ASSUME NEW v, NEW a, NEW b
    PROVE  At(v, <<a, b>>) = Child(Child(v, a), b)
<1> DEFINE S == {a, b}
           one == <<a>>
<1>1. b \in S /\ one \in Seq(S)
  OBVIOUS
<1>2. Append(one, b) = <<a, b>>
  BY AppendTwo
<1>3. At(v, one) = Child(v, a)
  BY AtOne
<1> HIDE DEF S, one
<1>4. At(v, Append(one, b)) = Child(At(v, one), b)
  BY <1>1, AtChild
<1> QED BY <1>2, <1>3, <1>4

LEMMA AtThree ==
    ASSUME NEW v, NEW a, NEW b, NEW c
    PROVE  At(v, <<a, b, c>>) = Child(Child(Child(v, a), b), c)
<1> DEFINE S == {a, b, c}
           two == <<a, b>>
<1>1. c \in S /\ two \in Seq(S)
  OBVIOUS
<1>2. Append(two, c) = <<a, b, c>>
  BY AppendThree
<1>3. At(v, two) = Child(Child(v, a), b)
  BY AtTwo
<1> HIDE DEF S, two
<1>4. At(v, Append(two, c)) = Child(At(v, two), c)
  BY <1>1, AtChild
<1> QED BY <1>2, <1>3, <1>4

(* set_nested_string at a path of two keys: it stands there, and what      *)
(* stands elsewhere stays.                                                 *)
Put(root, a, b, text) ==
    LET top == IF IsObject(root) THEN root.object ELSE Empty.object
        section == IF IsObject(Child(root, a)) THEN Child(root, a).object ELSE Empty.object
    IN  Object(Inserted(top, a, Object(Inserted(section, b, [text |-> text]))))

LEMMA SetIsPut ==
    ASSUME NEW root, NEW a, NEW b, NEW text
    PROVE  set_nested_string(root, <<a, b>>, text) = Put(root, a, b, text)
<1> DEFINE path == <<a, b>>
           Level(put, n) ==
               LET node == At(root, SubSeq(path, 1, n))
                   rest == IF IsObject(node) THEN node.object ELSE Empty.object
               IN  IF n = Len(path) THEN [text |-> text]
                   ELSE Object(Inserted(rest, path[n + 1], put[n + 1]))
           set == CHOOSE put : put = [n \in 0 .. Len(path) |-> Level(put, n)]
           section == IF IsObject(Child(root, a)) THEN Child(root, a).object ELSE Empty.object
           inner == Object(Inserted(section, b, [text |-> text]))
           levels == [n \in 0 .. 2 |-> IF n = 0 THEN Put(root, a, b, text)
                                       ELSE IF n = 1 THEN inner ELSE [text |-> text]]
<1>1. Len(path) = 2 /\ path[1] = a /\ path[2] = b
      /\ SubSeq(path, 1, 0) = <<>> /\ SubSeq(path, 1, 1) = <<a>>
  BY PrefixesOfTwo
<1>2. At(root, SubSeq(path, 1, 0)) = root /\ At(root, SubSeq(path, 1, 1)) = Child(root, a)
  <2>1. At(root, <<>>) = root /\ At(root, <<a>>) = Child(root, a)
    BY AtNothing, AtOne, Zenon
  <2> QED BY ONLY <1>1, <2>1
<1>3. set_nested_string(root, path, text) = set[0]
  BY DEF set_nested_string
<1> HIDE DEF path
<1>4. \A put : /\ Level(put, 0) = 
                    Object(Inserted(IF IsObject(root) THEN root.object ELSE Empty.object, a, put[1]))
             /\ Level(put, 1) = Object(Inserted(section, b, put[2]))
             /\ Level(put, 2) = [text |-> text]
  BY <1>1, <1>2
<1> HIDE DEF Level, section
<1>5. levels = [n \in 0 .. Len(path) |-> Level(levels, n)]
  <2>1. levels[1] = inner /\ levels[2] = [text |-> text] /\ levels[0] = Put(root, a, b, text)
    OBVIOUS
  <2>2. Level(levels, 0) = levels[0]
    BY <1>4, <2>1 DEF Put, section
  <2>3. Level(levels, 1) = levels[1] /\ Level(levels, 2) = levels[2]
    BY <1>4, <2>1
  <2>4. levels = [n \in 0 .. 2 |-> levels[n]] /\ \A n \in 0 .. 2 : n \in {0, 1, 2}
    OBVIOUS
  <2> HIDE DEF levels
  <2> QED BY <1>1, <2>2, <2>3, <2>4
<1> HIDE DEF levels
<1>6. set = [n \in 0 .. 2 |-> Level(set, n)]
  BY <1>1, <1>5
<1> HIDE DEF set
<1>7. set[2] = [text |-> text]
  BY <1>4, <1>6
<1>8. set[1] = inner
  BY <1>4, <1>6, <1>7
<1>9. set[0] = Put(root, a, b, text)
  BY <1>4, <1>6, <1>8 DEF Put, section
<1> QED BY <1>3, <1>9 DEF path

LEMMA InsertedField ==
    ASSUME NEW fields, NEW key, NEW value, NEW c
    PROVE  LET put == Object(Inserted(fields, key, value))
           IN  /\ Has(put, key) /\ put.object[key] = value
               /\ c # key => (Has(put, c) <=> c \in DOMAIN fields)
               /\ c # key /\ Has(put, c) => put.object[c] = fields[c]
<1> DEFINE all == Inserted(fields, key, value)
<1>1. /\ DOMAIN all = {key} \cup DOMAIN fields
      /\ all[key] = value
      /\ \A k \in DOMAIN fields : k # key => all[k] = fields[k]
  BY DEF Inserted
<1> HIDE DEF all
<1>2. IsObject(Object(all)) /\ Object(all).object = all
  BY DEF IsObject, Object
<1>3. \A k : Has(Object(all), k) <=> k \in DOMAIN all
  BY <1>2 DEF Has
<1>4. /\ Has(Object(all), key) /\ Object(all).object[key] = value
      /\ c # key => (Has(Object(all), c) <=> c \in DOMAIN fields)
      /\ c # key /\ Has(Object(all), c) => Object(all).object[c] = fields[c]
  BY <1>1, <1>2, <1>3
<1> QED BY <1>4 DEF all

LEMMA InsertedChild ==
    ASSUME NEW root, NEW key, NEW value, NEW c
    PROVE  LET fields == IF IsObject(root) THEN root.object ELSE Empty.object
               put == Object(Inserted(fields, key, value))
           IN  Child(put, key) = value /\ (c # key => Child(put, c) = Child(root, c))
<1> DEFINE fields == IF IsObject(root) THEN root.object ELSE Empty.object
           put == Object(Inserted(fields, key, value))
<1>1. /\ Has(put, key) /\ put.object[key] = value
      /\ c # key => (Has(put, c) <=> c \in DOMAIN fields)
      /\ c # key /\ Has(put, c) => put.object[c] = fields[c]
  BY InsertedField
<1>2. c \in DOMAIN fields <=> Has(root, c)
  BY DEF Has, Empty, Object
<1>3. Has(root, c) => fields = root.object
  BY DEF Has
<1> HIDE DEF fields, put
<1>4. Child(put, key) = value /\ (c # key => Child(put, c) = Child(root, c))
  BY <1>1, <1>2, <1>3 DEF Child
<1> QED BY <1>4 DEF fields, put

(* What one variable of the environment makes of the tree.                 *)
Overridden(tree, env, variable) ==
    IF variable \in DOMAIN env
    THEN set_nested_string(tree, Settings[variable], env[variable]) ELSE tree

OnlySets(over, tree, env, variable, a, b) ==
    /\ \A c : c # a => Child(over, c) = Child(tree, c)
    /\ \A c : c # b => Child(Child(over, a), c) = Child(Child(tree, a), c)
    /\ Child(Child(over, a), b) = IF variable \in DOMAIN env THEN [text |-> env[variable]]
                                  ELSE Child(Child(tree, a), b)

LEMMA OverriddenChildren ==
    ASSUME NEW tree, NEW env, NEW variable, NEW a, NEW b, Settings[variable] = <<a, b>>
    PROVE  OnlySets(Overridden(tree, env, variable), tree, env, variable, a, b)
<1> DEFINE over == Overridden(tree, env, variable)
           text == env[variable]
           section == Child(tree, a)
           fields == IF IsObject(section) THEN section.object ELSE Empty.object
           inner == Object(Inserted(fields, b, [text |-> text]))
<1>1. CASE variable \in DOMAIN env
  <2>1. over = Put(tree, a, b, text)
    BY <1>1, SetIsPut DEF Overridden
  <2>2. Child(inner, b) = [text |-> text] /\ \A c : c # b => Child(inner, c) = Child(section, c)
    BY InsertedChild
  <2>3. over = Object(Inserted(IF IsObject(tree) THEN tree.object ELSE Empty.object, a, inner))
    BY <2>1 DEF Put
  <2> HIDE DEF over, inner
  <2>4. Child(over, a) = inner /\ \A c : c # a => Child(over, c) = Child(tree, c)
    BY <2>3, InsertedChild
  <2>5. /\ \A c : c # a => Child(over, c) = Child(tree, c)
        /\ \A c : c # b => Child(Child(over, a), c) = Child(Child(tree, a), c)
        /\ Child(Child(over, a), b) = [text |-> env[variable]]
    BY <2>2, <2>4
  <2> QED BY <1>1, <2>5 DEF over, OnlySets
<1>2. CASE variable \notin DOMAIN env
  BY <1>2 DEF Overridden, OnlySets
<1> QED BY <1>1, <1>2

(* What the whole environment makes of it.                                 *)
LEMMA OverriddenByAll ==
    ASSUME NEW config, NEW env
    PROVE  LET tree == apply_env_overrides(config, env)
               Kept(a, b) == Child(Child(tree, a), b) = Child(Child(config, a), b)
               Set(a, b, variable) ==
                   IF variable \in DOMAIN env
                   THEN Child(Child(tree, a), b) = [text |-> env[variable]] ELSE Kept(a, b)
           IN  /\ \A c : c \notin {"provider", "model", "core", "storage"} =>
                         Child(tree, c) = Child(config, c)
               /\ Kept("provider", "evidence_file")
               /\ Set("provider", "kind", "SMART_HEDGE_PROVIDER")
               /\ Set("model", "kind", "SMART_HEDGE_MODEL_KIND")
               /\ Set("model", "name", "OPENAI_MODEL")
               /\ Set("core", "binary", "SMART_HEDGE_CORE")
               /\ Set("storage", "sqlite_path", "SMART_HEDGE_DB")
<1> DEFINE t1 == Overridden(config, env, "SMART_HEDGE_PROVIDER")
           t2 == Overridden(t1, env, "SMART_HEDGE_MODEL_KIND")
           t3 == Overridden(t2, env, "OPENAI_MODEL")
           t4 == Overridden(t3, env, "SMART_HEDGE_CORE")
           t5 == Overridden(t4, env, "SMART_HEDGE_DB")
<1>1. apply_env_overrides(config, env) = t5
  BY DEF apply_env_overrides, Overridden
<1>2. /\ Settings["SMART_HEDGE_PROVIDER"] = <<"provider", "kind">>
      /\ Settings["SMART_HEDGE_MODEL_KIND"] = <<"model", "kind">>
      /\ Settings["OPENAI_MODEL"] = <<"model", "name">>
      /\ Settings["SMART_HEDGE_CORE"] = <<"core", "binary">>
      /\ Settings["SMART_HEDGE_DB"] = <<"storage", "sqlite_path">>
  BY DEF Settings
<1>3. OnlySets(t1, config, env, "SMART_HEDGE_PROVIDER", "provider", "kind")
  BY <1>2, OverriddenChildren
<1> HIDE DEF t1
<1>4. OnlySets(t2, t1, env, "SMART_HEDGE_MODEL_KIND", "model", "kind")
  BY <1>2, OverriddenChildren
<1> HIDE DEF t2
<1>5. OnlySets(t3, t2, env, "OPENAI_MODEL", "model", "name")
  BY <1>2, OverriddenChildren
<1> HIDE DEF t3
<1>6. OnlySets(t4, t3, env, "SMART_HEDGE_CORE", "core", "binary")
  BY <1>2, OverriddenChildren
<1> HIDE DEF t4
<1>7. OnlySets(t5, t4, env, "SMART_HEDGE_DB", "storage", "sqlite_path")
  BY <1>2, OverriddenChildren
<1> HIDE DEF t5
<1>8. \A c : c \notin {"provider", "model", "core", "storage"} => Child(t5, c) = Child(config, c)
  BY <1>3, <1>4, <1>5, <1>6, <1>7 DEF OnlySets
<1>9. /\ Child(t5, "provider") = Child(t1, "provider")
      /\ Child(t5, "model") = Child(t3, "model") /\ Child(t1, "model") = Child(config, "model")
      /\ Child(t5, "core") = Child(t4, "core") /\ Child(t3, "core") = Child(config, "core")
      /\ Child(t4, "storage") = Child(config, "storage")
  BY <1>3, <1>4, <1>5, <1>6, <1>7 DEF OnlySets
<1> QED BY <1>1, <1>3, <1>4, <1>5, <1>6, <1>7, <1>8, <1>9 DEF OnlySets

-----------------------------------------------------------------------------
(* The settings the environment makes, and the ones it does not.           *)
LEMMA SettingsOf ==
    /\ DOMAIN Settings = {"SMART_HEDGE_PROVIDER", "SMART_HEDGE_MODEL_KIND", "OPENAI_MODEL",
                          "SMART_HEDGE_CORE", "SMART_HEDGE_DB"}
    /\ Settings["SMART_HEDGE_PROVIDER"] = <<"provider", "kind">>
    /\ Settings["SMART_HEDGE_MODEL_KIND"] = <<"model", "kind">>
    /\ Settings["OPENAI_MODEL"] = <<"model", "name">>
    /\ Settings["SMART_HEDGE_CORE"] = <<"core", "binary">>
    /\ Settings["SMART_HEDGE_DB"] = <<"storage", "sqlite_path">>
  BY DEF Settings

LEMMA PathsDiffer ==
    ASSUME NEW a, NEW b, NEW c, NEW d, NEW e
    PROVE  /\ <<a, b>> = <<c, d>> => a = c /\ b = d
           /\ <<a>> # <<c, d>>
           /\ <<a, b, e>> # <<c, d>>
<1>1. Len(<<a>>) = 1 /\ Len(<<c, d>>) = 2 /\ Len(<<a, b, e>>) = 3
  BY ShortTuples, Zenon
<1>2. 1 # 2 /\ 3 # 2
  OBVIOUS
<1>3. <<a, b>> = <<c, d>> => a = c /\ b = d
  OBVIOUS
<1> QED BY ONLY <1>1, <1>2, <1>3, Zenon

(* What the file, over the defaults, says at a path.                       *)
Under(named, path) ==
    IF Given(named) THEN Layer(Defaults, FileText[Value(named)], path) ELSE At(Defaults, path)

LEMMA LayeredUnset ==
    ASSUME NEW named, NEW env, NEW path,
           \A e \in DOMAIN Settings : Settings[e] = path => e \notin DOMAIN env
    PROVE  Layered(named, env, path) = Under(named, path)
<1>1. {e \in DOMAIN env \cap DOMAIN Settings : Settings[e] = path} = {}
  OBVIOUS
<1> QED BY <1>1 DEF Layered, Under, Layer

LEMMA LayeredSet ==
    ASSUME NEW named, NEW env, NEW path, NEW variable \in DOMAIN Settings,
           variable \in DOMAIN env, Settings[variable] = path,
           \A e \in DOMAIN Settings : Settings[e] = path => e = variable
    PROVE  Layered(named, env, path) = [text |-> env[variable]]
<1>1. {e \in DOMAIN env \cap DOMAIN Settings : Settings[e] = path} = {variable}
  OBVIOUS
<1> QED BY <1>1 DEF Layered

-----------------------------------------------------------------------------
(* A setting that is a text, a flag or a number is the topmost layer's.    *)
Readable(value, setting) == value = setting \/ DOMAIN value = {"object"}

MergedTree(named) ==
    IF Given(named) THEN deep_merge(Defaults, FileText[Value(named)]) ELSE Defaults

FileIsObject(named) ==
    Given(named) => Value(named) \in DOMAIN FileText /\ IsObject(FileText[Value(named)])

LEMMA MergedIsUnder ==
    ASSUME NEW named, FileIsObject(named), NEW a \in STRING, NEW b \in STRING
    PROVE  /\ Readable(At(MergedTree(named), <<a>>), Under(named, <<a>>))
           /\ Readable(At(MergedTree(named), <<a, b>>), Under(named, <<a, b>>))
<1> DEFINE over == FileText[Value(named)]
           tree == deep_merge(Defaults, over)
           one == <<a>>
           two == <<a, b>>
<1>1. CASE Given(named)
  <2>1. IsObject(over)
    BY <1>1 DEF FileIsObject
  <2>2. Follows(Defaults, over, tree, one) /\ Follows(Defaults, over, tree, two)
    BY <2>1, MergeOne, MergeTwo
  <2> HIDE DEF over, tree, one, two
  <2>3. \A path : Follows(Defaults, over, tree, path) =>
            Readable(At(tree, path), Layer(Defaults, over, path))
    BY FollowsLayer, MergedHasOnlyFields DEF Readable
  <2>4. MergedTree(named) = tree /\ \A path : Under(named, path) = Layer(Defaults, over, path)
    BY <1>1 DEF MergedTree, Under, tree, over
  <2> QED BY <2>2, <2>3, <2>4 DEF one, two
<1>2. CASE ~Given(named)
  BY <1>2 DEF MergedTree, Under, Readable
<1> QED BY <1>1, <1>2

LEMMA SetReadable ==
    ASSUME NEW named, NEW env, FileIsObject(named), NEW tree,
           NEW a \in STRING, NEW b \in STRING, NEW variable \in DOMAIN Settings,
           Settings[variable] = <<a, b>>,
           \A e \in DOMAIN Settings : Settings[e] = <<a, b>> => e = variable,
           Child(Child(tree, a), b) =
               IF variable \in DOMAIN env THEN [text |-> env[variable]]
               ELSE Child(Child(MergedTree(named), a), b)
    PROVE  Readable(At(tree, <<a, b>>), Layered(named, env, <<a, b>>))
<1> DEFINE path == <<a, b>>
<1>1. /\ At(tree, path) = Child(Child(tree, a), b)
      /\ At(MergedTree(named), path) = Child(Child(MergedTree(named), a), b)
      /\ Readable(At(MergedTree(named), path), Under(named, path))
  <2>1. /\ At(tree, path) = Child(Child(tree, a), b)
        /\ At(MergedTree(named), path) = Child(Child(MergedTree(named), a), b)
    BY AtTwo
  <2>2. Readable(At(MergedTree(named), path), Under(named, path))
    BY MergedIsUnder, Zenon
  <2> QED BY <2>1, <2>2
<1> HIDE DEF path
<1>2. CASE variable \in DOMAIN env
  <2>1. Layered(named, env, path) = [text |-> env[variable]]
    BY <1>2, LayeredSet DEF path
  <2>2. At(tree, path) = [text |-> env[variable]]
    BY <1>1, <1>2
  <2> QED BY <2>1, <2>2 DEF Readable, path
<1>3. CASE variable \notin DOMAIN env
  <2>1. Layered(named, env, path) = Under(named, path)
    BY <1>3, LayeredUnset DEF path
  <2>2. At(tree, path) = At(MergedTree(named), path)
    BY <1>1, <1>3
  <2> QED BY <1>1, <2>1, <2>2 DEF path
<1> QED BY <1>2, <1>3

LEMMA SettingIsReadable ==
    ASSUME NEW named, NEW env, FileIsObject(named),
           NEW path \in Texts \cup {<<"policy", "paper_only">>}
    PROVE  Readable(At(apply_env_overrides(MergedTree(named), env), path), Layered(named, env, path))
<1> DEFINE tree == apply_env_overrides(MergedTree(named), env)
           M == MergedTree(named)
<1>1. /\ \A c : c \notin {"provider", "model", "core", "storage"} => Child(tree, c) = Child(M, c)
      /\ Child(Child(tree, "provider"), "evidence_file") = Child(Child(M, "provider"), "evidence_file")
      /\ Child(Child(tree, "provider"), "kind") =
            IF "SMART_HEDGE_PROVIDER" \in DOMAIN env THEN [text |-> env["SMART_HEDGE_PROVIDER"]]
            ELSE Child(Child(M, "provider"), "kind")
      /\ Child(Child(tree, "model"), "kind") =
            IF "SMART_HEDGE_MODEL_KIND" \in DOMAIN env THEN [text |-> env["SMART_HEDGE_MODEL_KIND"]]
            ELSE Child(Child(M, "model"), "kind")
      /\ Child(Child(tree, "model"), "name") =
            IF "OPENAI_MODEL" \in DOMAIN env THEN [text |-> env["OPENAI_MODEL"]]
            ELSE Child(Child(M, "model"), "name")
      /\ Child(Child(tree, "core"), "binary") =
            IF "SMART_HEDGE_CORE" \in DOMAIN env THEN [text |-> env["SMART_HEDGE_CORE"]]
            ELSE Child(Child(M, "core"), "binary")
      /\ Child(Child(tree, "storage"), "sqlite_path") =
            IF "SMART_HEDGE_DB" \in DOMAIN env THEN [text |-> env["SMART_HEDGE_DB"]]
            ELSE Child(Child(M, "storage"), "sqlite_path")
  BY OverriddenByAll
<1> SUFFICES Readable(At(tree, path), Layered(named, env, path))
  OBVIOUS
<1> HIDE DEF tree
<1>2. CASE path = <<"provider", "kind">>
  <2>1. \A e \in DOMAIN Settings : Settings[e] = <<"provider", "kind">> => e = "SMART_HEDGE_PROVIDER"
    BY SettingsOf
  <2>2. "SMART_HEDGE_PROVIDER" \in DOMAIN Settings /\ Settings["SMART_HEDGE_PROVIDER"] = <<"provider", "kind">>
    BY SettingsOf
  <2>3. "provider" \in STRING /\ "kind" \in STRING
    BY KeyAssumption
  <2>4. Child(Child(tree, "provider"), "kind") =
            IF "SMART_HEDGE_PROVIDER" \in DOMAIN env THEN [text |-> env["SMART_HEDGE_PROVIDER"]]
            ELSE Child(Child(M, "provider"), "kind")
    BY <1>1
  <2>5. Readable(At(tree, <<"provider", "kind">>), Layered(named, env, <<"provider", "kind">>))
    BY <2>1, <2>2, <2>3, <2>4, SetReadable, Zenon
  <2> QED BY ONLY path = <<"provider", "kind">>, <2>5, Zenon
<1>3. CASE path = <<"model", "kind">>
  <2>1. \A e \in DOMAIN Settings : Settings[e] = <<"model", "kind">> => e = "SMART_HEDGE_MODEL_KIND"
    BY SettingsOf
  <2>2. "SMART_HEDGE_MODEL_KIND" \in DOMAIN Settings /\ Settings["SMART_HEDGE_MODEL_KIND"] = <<"model", "kind">>
    BY SettingsOf
  <2>3. "model" \in STRING /\ "kind" \in STRING
    BY KeyAssumption
  <2>4. Child(Child(tree, "model"), "kind") =
            IF "SMART_HEDGE_MODEL_KIND" \in DOMAIN env THEN [text |-> env["SMART_HEDGE_MODEL_KIND"]]
            ELSE Child(Child(M, "model"), "kind")
    BY <1>1
  <2>5. Readable(At(tree, <<"model", "kind">>), Layered(named, env, <<"model", "kind">>))
    BY <2>1, <2>2, <2>3, <2>4, SetReadable, Zenon
  <2> QED BY ONLY path = <<"model", "kind">>, <2>5, Zenon
<1>4. CASE path = <<"model", "name">>
  <2>1. \A e \in DOMAIN Settings : Settings[e] = <<"model", "name">> => e = "OPENAI_MODEL"
    BY SettingsOf
  <2>2. "OPENAI_MODEL" \in DOMAIN Settings /\ Settings["OPENAI_MODEL"] = <<"model", "name">>
    BY SettingsOf
  <2>3. "model" \in STRING /\ "name" \in STRING
    BY KeyAssumption
  <2>4. Child(Child(tree, "model"), "name") =
            IF "OPENAI_MODEL" \in DOMAIN env THEN [text |-> env["OPENAI_MODEL"]]
            ELSE Child(Child(M, "model"), "name")
    BY <1>1
  <2>5. Readable(At(tree, <<"model", "name">>), Layered(named, env, <<"model", "name">>))
    BY <2>1, <2>2, <2>3, <2>4, SetReadable, Zenon
  <2> QED BY ONLY path = <<"model", "name">>, <2>5, Zenon
<1>5. CASE path = <<"core", "binary">>
  <2>1. \A e \in DOMAIN Settings : Settings[e] = <<"core", "binary">> => e = "SMART_HEDGE_CORE"
    BY SettingsOf
  <2>2. "SMART_HEDGE_CORE" \in DOMAIN Settings /\ Settings["SMART_HEDGE_CORE"] = <<"core", "binary">>
    BY SettingsOf
  <2>3. "core" \in STRING /\ "binary" \in STRING
    BY KeyAssumption
  <2>4. Child(Child(tree, "core"), "binary") =
            IF "SMART_HEDGE_CORE" \in DOMAIN env THEN [text |-> env["SMART_HEDGE_CORE"]]
            ELSE Child(Child(M, "core"), "binary")
    BY <1>1
  <2>5. Readable(At(tree, <<"core", "binary">>), Layered(named, env, <<"core", "binary">>))
    BY <2>1, <2>2, <2>3, <2>4, SetReadable, Zenon
  <2> QED BY ONLY path = <<"core", "binary">>, <2>5, Zenon
<1>6. CASE path = <<"storage", "sqlite_path">>
  <2>1. \A e \in DOMAIN Settings : Settings[e] = <<"storage", "sqlite_path">> => e = "SMART_HEDGE_DB"
    BY SettingsOf
  <2>2. "SMART_HEDGE_DB" \in DOMAIN Settings /\ Settings["SMART_HEDGE_DB"] = <<"storage", "sqlite_path">>
    BY SettingsOf
  <2>3. "storage" \in STRING /\ "sqlite_path" \in STRING
    BY KeyAssumption
  <2>4. Child(Child(tree, "storage"), "sqlite_path") =
            IF "SMART_HEDGE_DB" \in DOMAIN env THEN [text |-> env["SMART_HEDGE_DB"]]
            ELSE Child(Child(M, "storage"), "sqlite_path")
    BY <1>1
  <2>5. Readable(At(tree, <<"storage", "sqlite_path">>), Layered(named, env, <<"storage", "sqlite_path">>))
    BY <2>1, <2>2, <2>3, <2>4, SetReadable, Zenon
  <2> QED BY ONLY path = <<"storage", "sqlite_path">>, <2>5, Zenon
<1>7. CASE path = <<"mode">>
  <2>1. \A e \in DOMAIN Settings : Settings[e] # path
    BY <1>7, SettingsOf, PathsDiffer
  <2>2. Layered(named, env, path) = Under(named, path)
    BY <2>1, LayeredUnset
  <2>3. At(tree, path) = Child(tree, "mode") /\ At(M, path) = Child(M, "mode")
    BY <1>7, AtOne
  <2>4. Readable(At(M, path), Under(named, path))
    <3>1. "mode" \in STRING
      BY KeyAssumption
    <3> QED BY <1>7, <3>1, MergedIsUnder, Zenon
  <2> QED BY <1>1, <2>2, <2>3, <2>4
<1>8. CASE path = <<"provider", "evidence_file">>
  <2>1. \A e \in DOMAIN Settings : Settings[e] # path
    BY <1>8, SettingsOf
  <2>2. Layered(named, env, path) = Under(named, path)
    BY <2>1, LayeredUnset
  <2>3. At(tree, path) = At(M, path)
    BY <1>1, <1>8, AtTwo
  <2>4. Readable(At(M, path), Under(named, path))
    <3>1. "provider" \in STRING /\ "evidence_file" \in STRING
      BY KeyAssumption
    <3> QED BY <1>8, <3>1, MergedIsUnder, Zenon
  <2> QED BY <2>2, <2>3, <2>4
<1>9. CASE path = <<"policy", "paper_only">>
  <2>1. \A e \in DOMAIN Settings : Settings[e] # path
    BY <1>9, SettingsOf
  <2>2. Layered(named, env, path) = Under(named, path)
    BY <2>1, LayeredUnset
  <2>3. At(tree, path) = At(M, path)
    BY <1>1, <1>9, AtTwo
  <2>4. Readable(At(M, path), Under(named, path))
    <3>1. "policy" \in STRING /\ "paper_only" \in STRING
      BY KeyAssumption
    <3> QED BY <1>9, <3>1, MergedIsUnder, Zenon
  <2> QED BY <2>2, <2>3, <2>4
<1> QED BY <1>2, <1>3, <1>4, <1>5, <1>6, <1>7, <1>8, <1>9 DEF Texts

(* Symbols that have a contract are texts.                                 *)
LEMMA SymbolsAreTexts ==
    ASSUME NEW named, FileIsObject(named), NEW symbol, Has(At(MergedTree(named), <<"contracts">>), symbol)
    PROVE  symbol \in STRING
<1> DEFINE over == FileText[Value(named)]
           tree == deep_merge(Defaults, over)
           path == <<"contracts">>
<1>1. \A layer \in {Defaults} \cup {FileText[settings] : settings \in DOMAIN FileText} :
          IsObject(At(layer, path)) => DOMAIN At(layer, path).object \subseteq STRING
  BY SymbolAssumption
<1>2. Has(At(Defaults, path), symbol) => symbol \in STRING
  BY <1>1 DEF Has
<1>3. CASE ~Given(named)
  BY <1>2, <1>3 DEF MergedTree
<1>4. CASE Given(named)
  <2>1. IsObject(over) /\ over \in {FileText[settings] : settings \in DOMAIN FileText}
    BY <1>4 DEF FileIsObject
  <2>2. Has(At(over, path), symbol) => symbol \in STRING
    BY <1>1, <2>1 DEF Has
  <2>3. Follows(Defaults, over, tree, path)
    BY <2>1, KeyAssumption, MergeOne
  <2>4. Has(At(tree, path), symbol)
    BY <1>4 DEF MergedTree
  <2> HIDE DEF over, tree, path
  <2>5. CASE FollowsBoth(Defaults, over, tree, path)
    <3> DEFINE b == At(Defaults, path)
               o == At(over, path)
    <3>1. At(tree, path) = MergedNode(Defaults, over, Merged(Defaults, over), path)
      BY <2>5, MergedIsDefined DEF FollowsBoth
    <3>2. IsObject(b) /\ IsObject(o)
      BY <2>5 DEF FollowsBoth
    <3>3. DOMAIN At(tree, path).object = DOMAIN b.object \cup DOMAIN o.object
      BY <3>1, <3>2 DEF MergedNode, Object
    <3>4. Has(b, symbol) \/ Has(o, symbol)
      BY <2>4, <3>2, <3>3 DEF Has
    <3> QED BY <1>2, <2>2, <3>4
  <2>6. CASE FollowsOver(Defaults, over, tree, path)
    BY <2>2, <2>4, <2>6 DEF FollowsOver
  <2>7. CASE FollowsBase(Defaults, over, tree, path)
    BY <1>2, <2>4, <2>7 DEF FollowsBase
  <2>8. CASE FollowsNone(over, tree, path)
    BY <2>4, <2>8 DEF FollowsNone, Has, Empty, Object
  <2> QED BY <2>3, <2>5, <2>6, <2>7, <2>8 DEF Follows
<1> QED BY <1>3, <1>4

(* The size of a contract is the topmost layer's, and none is 0.           *)
LEMMA ContractSizeIsLayered ==
    ASSUME NEW named, NEW env, FileIsObject(named), NEW symbol,
           LET tree == apply_env_overrides(MergedTree(named), env)
           IN  /\ Has(tree, "contracts") /\ IsObject(tree.object.contracts)
               /\ symbol \in DOMAIN tree.object.contracts.object
               /\ IsContract(tree.object.contracts.object[symbol])
    PROVE  LET contract == apply_env_overrides(MergedTree(named), env).object.contracts.object[symbol]
               size == Layered(named, env, <<"contracts", symbol, "contracts">>)
           IN  ContractOf(contract).contracts = IF IsNumber(size) THEN size.number ELSE 0
<1> DEFINE tree == apply_env_overrides(MergedTree(named), env)
           contract == tree.object.contracts.object[symbol]
           path == <<"contracts", symbol, "contracts">>
           here == Child(contract, "contracts")
           size == Layered(named, env, path)
           M == MergedTree(named)
<1>1. Child(tree, "contracts") = Child(M, "contracts")
  BY OverriddenByAll
<1>2. /\ Has(tree, "contracts") /\ IsObject(tree.object["contracts"])
      /\ symbol \in DOMAIN tree.object["contracts"].object /\ IsContract(contract)
      /\ contract = tree.object["contracts"].object[symbol]
  OBVIOUS
<1> HIDE DEF contract
<1>3. SUFFICES ContractOf(contract).contracts = IF IsNumber(size) THEN size.number ELSE 0
  BY DEF contract
<1> HIDE DEF tree, M
<1>4. tree.object["contracts"] = Child(M, "contracts")
  BY <1>1, <1>2 DEF Child
<1>5. Has(Child(M, "contracts"), symbol) /\ contract = Child(Child(M, "contracts"), symbol)
  BY <1>2, <1>4 DEF Has, Child
<1>6. symbol \in STRING
  BY <1>5, AtOne, SymbolsAreTexts DEF M
<1>7. At(M, <<"contracts", symbol>>) = contract /\ At(M, path) = here
  BY <1>5, AtTwo, AtThree
<1>8. size = Under(named, path)
  <2>1. \A e \in DOMAIN Settings : Settings[e] # path
    BY SettingsOf, PathsDiffer
  <2> HIDE DEF path
  <2> QED BY <2>1, LayeredUnset
<1>9. here = size \/ (Has(contract, "contracts") /\ DOMAIN here = {"object"})
  <2>1. CASE ~Given(named)
    BY <1>7, <1>8, <2>1 DEF Under, MergedTree, M
  <2>2. CASE Given(named)
    <3> DEFINE over == FileText[Value(named)]
    <3>1. IsObject(over) /\ M = deep_merge(Defaults, over)
      BY <2>2 DEF FileIsObject, MergedTree, M
    <3>2. /\ Follows(Defaults, over, M, path)
          /\ FollowsBoth(Defaults, over, M, path) =>
                FollowsOver(Defaults, over, M, path) \/ Has(contract, "contracts")
      <4>1. "contracts" \in STRING
        BY KeyAssumption
      <4> HIDE DEF over
      <4> QED BY <1>6, <1>7, <3>1, <4>1, MergeThree
    <3>3. size = Layer(Defaults, over, path)
      BY <1>8, <2>2 DEF Under
    <3> HIDE DEF over, path, size
    <3>4. CASE FollowsBoth(Defaults, over, M, path) /\ ~FollowsOver(Defaults, over, M, path)
      BY <1>7, <3>2, <3>4, MergedHasOnlyFields
    <3>5. CASE FollowsOver(Defaults, over, M, path)
      BY <1>7, <3>3, <3>5 DEF FollowsOver, Layer
    <3>6. CASE ~FollowsBoth(Defaults, over, M, path)
      BY <1>7, <3>2, <3>3, <3>6, FollowsLayer
    <3> QED BY <3>4, <3>5, <3>6
  <2> QED BY <2>1, <2>2
<1>10. IsObject(contract) /\ IsNumber(Overlaid(contract.object, ContractDefaults)["contracts"])
  BY <1>2 DEF IsContract
<1>11. ContractOf(contract).contracts = Overlaid(contract.object, ContractDefaults)["contracts"].number
  BY DEF ContractOf
<1>12. "contracts" \in DOMAIN ContractDefaults /\ ContractDefaults["contracts"] = [number |-> 0]
  BY DEF ContractDefaults
<1> HIDE DEF size
<1>13. CASE Has(contract, "contracts")
  <2>1. Overlaid(contract.object, ContractDefaults)["contracts"] = here
    BY <1>13 DEF Overlaid, Has, Child
  <2>2. "number" \in DOMAIN here
    BY <1>10, <2>1 DEF IsNumber
  <2>3. here = size
    BY <1>9, <2>2
  <2> QED BY <1>10, <1>11, <2>1, <2>3
<1>14. CASE ~Has(contract, "contracts")
  <2>1. Overlaid(contract.object, ContractDefaults)["contracts"] = [number |-> 0]
    BY <1>10, <1>12, <1>14 DEF Overlaid, Has
  <2>2. size = Empty
    BY <1>9, <1>14 DEF Child
  <2>3. ~IsNumber(size)
    BY <2>2 DEF IsNumber, Empty, Object
  <2> QED BY <1>11, <2>1, <2>3
<1> QED BY <1>13, <1>14

(* What load_config has made sure of, where it has not failed.             *)
LEMMA LoadedMeans ==
    ASSUME NEW named, NEW env, ~Failed(load_config(named, env))
    PROVE  LET tree == apply_env_overrides(MergedTree(named), env)
           IN  /\ FileIsObject(named) /\ FitsSchema(tree)
               /\ load_config(named, env).config = Typed(tree) /\ load_config(named, env) # None
               /\ Lower(Typed(tree).mode) = "paper" /\ Typed(tree).paper_only
<1>1. \A why : Failed(Fail(why))
  BY DEF Failed, Fail
<1> DEFINE merged == apply_env_overrides(MergedTree(named), env)
           over == FileText[Value(named)]
           directory == IF Given(named) /\ Spelled[Value(named)].parts # <<>>
                        THEN [Spelled[Value(named)] EXCEPT !.parts = Front(@)]
                        ELSE Path(TRUE, WorkingDir)
<1>2. load_config(named, env) =
          IF Given(named) /\ Value(named) \notin DOMAIN FileText THEN Fail("Io")
          ELSE IF Given(named) /\ over = NotJson THEN Fail("InvalidJson")
          ELSE IF Given(named) /\ ~IsObject(over) THEN Fail("RootNotAnObject")
          ELSE IF ~FitsSchema(merged) THEN Fail("SchemaMismatch")
          ELSE IF Lower(Typed(merged).mode) # "paper" THEN Fail("LiveModeNotSupported")
          ELSE IF ~Typed(merged).paper_only THEN Fail("PolicyPaperOnlyRequired")
          ELSE [config |-> Typed(merged), config_dir |-> directory]
  BY DEF load_config, MergedTree
<1> HIDE DEF merged, over, directory
<1>3. /\ Given(named) => Value(named) \in DOMAIN FileText /\ IsObject(over)
      /\ FitsSchema(merged)
      /\ Lower(Typed(merged).mode) = "paper" /\ Typed(merged).paper_only
      /\ load_config(named, env) = [config |-> Typed(merged), config_dir |-> directory]
  BY <1>1, <1>2
<1>4. load_config(named, env) # None
  <2>1. "config" \in DOMAIN load_config(named, env)
    BY <1>3
  <2>2. DOMAIN None = {}
    BY DEF None
  <2> QED BY <2>1, <2>2
<1> QED BY <1>3, <1>4 DEF FileIsObject, merged, over

(* So the whole of it, for any file and any environment.                   *)
LEMMA LoadedIsLayered ==
    ASSUME NEW named, NEW env, ~Failed(load_config(named, env))
    PROVE  LET config == load_config(named, env).config
               Set(path) == Layered(named, env, path)
           IN  /\ \A path \in Texts : IsText(Set(path))
               /\ config.provider = Set(<<"provider", "kind">>).text
               /\ config.model = Set(<<"model", "kind">>).text
               /\ config.name = Set(<<"model", "name">>).text
               /\ config.binary = Set(<<"core", "binary">>).text
               /\ config.sqlite_path = Set(<<"storage", "sqlite_path">>).text
               /\ Lower(Set(<<"mode">>).text) = "paper"
               /\ Set(<<"policy", "paper_only">>).flag
               /\ \A symbol \in DOMAIN config.contracts :
                     config.contracts[symbol].contracts =
                         LET size == Set(<<"contracts", symbol, "contracts">>)
                         IN  IF IsNumber(size) THEN size.number ELSE 0
<1> DEFINE tree == apply_env_overrides(MergedTree(named), env)
           Set(path) == Layered(named, env, path)
<1>1. /\ FileIsObject(named) /\ FitsSchema(tree)
      /\ load_config(named, env).config = Typed(tree)
      /\ Lower(Typed(tree).mode) = "paper" /\ Typed(tree).paper_only
  BY LoadedMeans
<1>2. \A path \in Texts \cup {<<"policy", "paper_only">>} : Readable(At(tree, path), Set(path))
  BY <1>1, SettingIsReadable
<1>3. /\ \A path \in Texts : IsText(At(tree, path))
      /\ IsFlag(At(tree, <<"policy", "paper_only">>))
      /\ Has(tree, "contracts") /\ IsObject(tree.object.contracts)
      /\ \A symbol \in DOMAIN tree.object.contracts.object :
            IsContract(tree.object.contracts.object[symbol])
  BY <1>1 DEF FitsSchema
<1>4. \A symbol \in DOMAIN tree.object.contracts.object :
          ContractOf(tree.object.contracts.object[symbol]).contracts =
              LET size == Set(<<"contracts", symbol, "contracts">>)
              IN  IF IsNumber(size) THEN size.number ELSE 0
  BY <1>1, <1>3, ContractSizeIsLayered
<1> HIDE DEF tree, Set
<1>5. /\ \A path \in Texts : At(tree, path) = Set(path)
      /\ At(tree, <<"policy", "paper_only">>) = Set(<<"policy", "paper_only">>)
  BY <1>2, <1>3 DEF Readable, IsText, IsFlag
<1>6. /\ <<"mode">> \in Texts /\ <<"provider", "kind">> \in Texts /\ <<"model", "kind">> \in Texts
      /\ <<"model", "name">> \in Texts /\ <<"core", "binary">> \in Texts
      /\ <<"storage", "sqlite_path">> \in Texts
  BY DEF Texts
<1>7. /\ Typed(tree).mode = At(tree, <<"mode">>).text
      /\ Typed(tree).paper_only = At(tree, <<"policy", "paper_only">>).flag
      /\ Typed(tree).provider = At(tree, <<"provider", "kind">>).text
      /\ Typed(tree).model = At(tree, <<"model", "kind">>).text
      /\ Typed(tree).name = At(tree, <<"model", "name">>).text
      /\ Typed(tree).binary = At(tree, <<"core", "binary">>).text
      /\ Typed(tree).sqlite_path = At(tree, <<"storage", "sqlite_path">>).text
      /\ Typed(tree).contracts = [symbol \in DOMAIN tree.object.contracts.object |->
                                    ContractOf(tree.object.contracts.object[symbol])]
  BY DEF Typed
<1>8. \A path \in Texts : IsText(Set(path))
  BY <1>3, <1>5
<1>9. \A symbol \in DOMAIN Typed(tree).contracts :
          Typed(tree).contracts[symbol].contracts =
              LET size == Set(<<"contracts", symbol, "contracts">>)
              IN  IF IsNumber(size) THEN size.number ELSE 0
  BY <1>4, <1>7
<1>10. /\ Typed(tree).provider = Set(<<"provider", "kind">>).text
       /\ Typed(tree).model = Set(<<"model", "kind">>).text
       /\ Typed(tree).name = Set(<<"model", "name">>).text
       /\ Typed(tree).binary = Set(<<"core", "binary">>).text
       /\ Typed(tree).sqlite_path = Set(<<"storage", "sqlite_path">>).text
       /\ Typed(tree).mode = Set(<<"mode">>).text
       /\ Typed(tree).paper_only = Set(<<"policy", "paper_only">>).flag
  BY <1>5, <1>6, <1>7
<1> QED BY <1>1, <1>8, <1>9, <1>10 DEF Set

-----------------------------------------------------------------------------
(* How far a run of the program has come: at every step of a command the   *)
(* configuration it needs is loaded, nothing was done before that, and     *)
(* only an endless command has printed while it still runs.                *)
Steps == {"build", "core self-test", "report", "engine", "work", "verify", "guard"}

LoadedInv ==
    /\ pc \in {"arguments", "configure", "exited"} \cup Steps
    /\ pc \in {"arguments", "configure"} => loaded = None /\ did = {}
    /\ pc \in Steps \/ did # {} => Loads
    /\ Loads => loaded = load_config(resolve_config_path, Env)

(* What the property asks of a process that ends with a status when this    *)
(* much was printed and done.                                              *)
OwnIn(lines) == {i \in DOMAIN lines : lines[i] # "PASS of the core"}

SaidRightly(status, lines, done) ==
    /\ status = 0 <=> OwnIn(lines) # {}
    /\ \A i, j \in OwnIn(lines) : i = j
    /\ \A i \in OwnIn(lines) : lines[i] = "PASS" =>
          i = 2 /\ {"core", "stored", "verified"} \subseteq done

(* A command that is no loop prints nothing of its own before it ends; in  *)
(* front of what self-test says stands what the core said.                 *)
PrintedSoFar ==
    IF Command = "self-test" /\ pc # "core self-test" THEN <<"PASS of the core">> ELSE <<>>

PrintedInv ==
    /\ exit = None <=> pc # "exited"
    /\ pc \in {"arguments", "configure"} => printed = <<>>
    /\ pc \notin {"arguments", "exited"} => ~Failed(parsed)
    /\ pc \in Steps => printed = PrintedSoFar \/ (pc = "work" /\ Command \in Endless)
    /\ pc \in Steps /\ Command = "self-test" => pc \in {"core self-test", "engine", "work", "verify"}
    /\ pc \in {"core self-test", "verify"} => Command = "self-test"
    /\ pc = "verify" => {"core", "stored"} \subseteq did
    /\ FailureSaysNothing

(* What a command works with is what load_config makes of the file and the *)
(* environment it was given, and nothing is done before that.              *)
THEOREM LoadedInvariant == Spec => []LoadedInv
<1>1. Init => LoadedInv
  BY DEF Init, LoadedInv, Steps, Loads
<1>2. LoadedInv /\ [Next]_vars => LoadedInv'
  <2> SUFFICES ASSUME LoadedInv, [Next]_vars PROVE LoadedInv'
    OBVIOUS
  <2>1. \A why : Failed(Fail(why))
    BY DEF Failed, Fail
  <2> USE DEF LoadedInv, Steps, Loads, Exit, Continue
  <2>2. CASE ParseArguments
    BY <2>2 DEF ParseArguments, resolve_config_path, Variable, Env
  <2>3. CASE Configure
    <3>1. CASE ~SiblingsAreNamed
      BY <2>3, <3>1 DEF Configure
    <3>2. CASE SiblingsAreNamed
      <4>1. FirstStep \in Steps
        BY DEF FirstStep
      <4>2. resolve_config_path' = resolve_config_path /\ Env' = Env
        BY <2>3 DEF Configure, resolve_config_path, Variable, Env
      <4>3. loaded' = load_config(resolve_config_path, Env) /\ did' = {}
        BY <2>3, <3>2 DEF Configure
      <4>4. (Failed(loaded') /\ pc' = "exited") \/ (~Failed(loaded') /\ pc' = FirstStep)
        BY <2>3, <3>2 DEF Configure
      <4>5. ~Failed(loaded') => loaded' # None
        BY <4>3, LoadedMeans
      <4> QED BY <4>1, <4>2, <4>3, <4>4, <4>5
    <3> QED BY <3>1, <3>2
  <2>4. ASSUME UNCHANGED <<invoked, parsed, loaded>>
        PROVE  (Loads' <=> Loads) /\ resolve_config_path' = resolve_config_path /\ Env' = Env
    BY <2>4 DEF resolve_config_path, Variable, Env
  <2>5. CASE BuildEngine
    BY <2>4, <2>5 DEF BuildEngine
  <2>6. CASE RunCoreDirectly
    BY <2>4, <2>6 DEF RunCoreDirectly
  <2>7. CASE MakeReport
    BY <2>4, <2>7 DEF MakeReport
  <2>8. CASE Recommend
    BY <2>4, <2>8 DEF Recommend
  <2>9. CASE Verify
    BY <2>4, <2>9 DEF Verify
  <2>10. CASE GuardDemo
    BY <2>4, <2>10 DEF GuardDemo
  <2>11. CASE ReadStore
    BY <2>4, <2>11 DEF ReadStore
  <2>12. CASE Serve
    BY <2>4, <2>12 DEF Serve
  <2>13. CASE UNCHANGED vars
    BY <2>4, <2>13 DEF vars
  <2> QED BY <2>2, <2>3, <2>5, <2>6, <2>7, <2>8, <2>9, <2>10, <2>11, <2>12, <2>13 DEF Next
<1> QED BY <1>1, <1>2, PTL DEF Spec

(* Nothing is run, asked, stored, served or ordered, by any command, under *)
(* any file and any environment, unless all of them say paper, and paper   *)
(* only.                                                                   *)
THEOREM PaperFirst == Spec => []NothingWithoutPaper
<1>1. LoadedInv => NothingWithoutPaper
  BY LoadedIsLayered DEF LoadedInv, NothingWithoutPaper, Loads, Setting
<1> QED BY <1>1, LoadedInvariant, PTL

(* Every setting comes from the topmost layer that makes it, and a setting *)
(* no layer makes is an error.                                             *)
THEOREM SettingsAreLayered == Spec => []LayersAreOrdered
<1>1. LoadedInv => LayersAreOrdered
  BY LoadedIsLayered DEF LoadedInv, LayersAreOrdered, Loads, Setting
<1> QED BY <1>1, LoadedInvariant, PTL

(* What is said rightly: nothing with an error, one result with success,   *)
(* the PASS of what was verified.                                          *)
LEMMA WordsOfOwn ==
    /\ \A done : SaidRightly(2, <<>>, done) /\ SaidRightly(101, <<>>, done)
    /\ \A done : SaidRightly(2, <<"PASS of the core">>, done)
                  /\ SaidRightly(101, <<"PASS of the core">>, done)
    /\ \A done : \A r \in {"binary", "report", "decision", "decisions"} : SaidRightly(0, <<r>>, done)
    /\ \A done : {"core", "stored", "verified"} \subseteq done =>
          SaidRightly(0, <<"PASS of the core", "PASS">>, done)
<1>1. OwnIn(<<>>) = {} /\ OwnIn(<<"PASS of the core">>) = {}
  <2>1. DOMAIN <<>> = {} /\ DOMAIN <<"PASS of the core">> = {1}
    OBVIOUS
  <2>2. <<"PASS of the core">>[1] = "PASS of the core"
    OBVIOUS
  <2> QED BY <2>1, <2>2 DEF OwnIn
<1>2. ASSUME NEW r \in {"binary", "report", "decision", "decisions"}
      PROVE  OwnIn(<<r>>) = {1} /\ <<r>>[1] # "PASS"
  <2>1. DOMAIN <<r>> = {1} /\ <<r>>[1] = r
    OBVIOUS
  <2>2. r # "PASS of the core" /\ r # "PASS"
    OBVIOUS
  <2> QED BY <2>1, <2>2 DEF OwnIn
<1>3. OwnIn(<<"PASS of the core", "PASS">>) = {2}
  <2> DEFINE lines == <<"PASS of the core", "PASS">>
  <2>1. DOMAIN lines = {1, 2} /\ lines[1] = "PASS of the core" /\ lines[2] = "PASS"
    OBVIOUS
  <2>2. "PASS" # "PASS of the core"
    OBVIOUS
  <2> HIDE DEF lines
  <2>3. OwnIn(lines) = {2}
    BY <2>1, <2>2 DEF OwnIn
  <2> QED BY <2>3 DEF lines
<1>4. ASSUME NEW done
      PROVE  /\ SaidRightly(2, <<>>, done) /\ SaidRightly(101, <<>>, done)
             /\ SaidRightly(2, <<"PASS of the core">>, done)
             /\ SaidRightly(101, <<"PASS of the core">>, done)
  <2>1. ASSUME NEW lines, OwnIn(lines) = {}, NEW status \in {2, 101}
        PROVE  SaidRightly(status, lines, done)
    BY <2>1 DEF SaidRightly
  <2> QED BY <1>1, <2>1
<1>5. ASSUME NEW done, NEW r \in {"binary", "report", "decision", "decisions"}
      PROVE  SaidRightly(0, <<r>>, done)
  <2>1. OwnIn(<<r>>) = {1} /\ <<r>>[1] # "PASS"
    BY <1>2
  <2> DEFINE lines == <<r>>
  <2>2. OwnIn(lines) = {1} /\ lines[1] # "PASS"
    BY <2>1
  <2> HIDE DEF lines
  <2>3. SaidRightly(0, lines, done)
    BY <2>2 DEF SaidRightly
  <2> QED BY <2>3 DEF lines
<1>6. ASSUME NEW done, {"core", "stored", "verified"} \subseteq done
      PROVE  SaidRightly(0, <<"PASS of the core", "PASS">>, done)
  BY <1>3, <1>6 DEF SaidRightly
<1> QED BY <1>4, <1>5, <1>6

(* The process ends: with the status what it said must be right.           *)
LEMMA EndKeepsPrinted ==
    ASSUME PrintedInv, NEW status \in {0, 2, 101}, exit' = Some(status), pc' = "exited",
           Failed(parsed') \/ Command' \notin Endless => SaidRightly(status, printed', did')
    PROVE  PrintedInv'
<1>1. exit' # None /\ Given(exit)' /\ Value(exit)' = status
  BY DEF Some, None, Given, Value
<1>2. pc' = "exited" /\ pc' \notin Steps
  BY DEF Steps
<1>3. FailureSaysNothing' <=>
          (Failed(parsed') \/ Command' \notin Endless => SaidRightly(status, printed', did'))
  BY <1>1 DEF FailureSaysNothing, SaidRightly, OwnIn, OwnResults
<1> QED BY <1>1, <1>2, <1>3 DEF PrintedInv

(* Or it goes on, and has said no more than the core has.                  *)
LEMMA StepKeepsPrinted ==
    ASSUME PrintedInv, exit = None, exit' = exit, pc' \in Steps, ~Failed(parsed),
           UNCHANGED parsed,
           printed' = PrintedSoFar' \/ (pc' = "work" /\ Command \in Endless),
           Command = "self-test" => pc' \in {"core self-test", "engine", "work", "verify"},
           pc' \in {"core self-test", "verify"} => Command = "self-test",
           pc' = "verify" => {"core", "stored"} \subseteq did'
    PROVE  PrintedInv'
<1>1. Command' = Command /\ ~Given(exit)'
  BY DEF Command, Given
<1>2. pc' \notin {"arguments", "configure", "exited"}
  BY DEF Steps
<1> QED BY <1>1, <1>2 DEF PrintedInv, FailureSaysNothing

(* A command that is no loop prints its result once and ends well, or      *)
(* fails and has printed nothing of its own; PASS is said of what was      *)
(* verified.                                                               *)
THEOREM FailuresAreSilent == Spec => []FailureSaysNothing
<1>1. Init => PrintedInv
  BY DEF Init, PrintedInv, FailureSaysNothing, Given, Steps
<1>2. LoadedInv /\ PrintedInv /\ [Next]_vars => PrintedInv'
  <2> SUFFICES ASSUME LoadedInv, PrintedInv, [Next]_vars PROVE PrintedInv'
    OBVIOUS
  <2>1. /\ "self-test" \notin Endless /\ "once" \notin Endless /\ "guard-demo" \notin Endless
        /\ "loop" \in Endless /\ "autonomous" \in Endless
        /\ {"serve", "mcp"} \subseteq Endless /\ "replay" \notin Endless /\ "recent" \notin Endless
    BY DEF Endless
  <2>2. ASSUME NEW result PROVE Append(<<>>, result) = <<result>>
    BY AppendOne
  <2>3. Append(<<"PASS of the core">>, "PASS") = <<"PASS of the core", "PASS">>
    BY AppendTwo
  <2>4. ASSUME pc \in Steps \ {"work"}
        PROVE  printed = PrintedSoFar /\ ~Failed(parsed) /\ exit = None
    BY <2>4 DEF PrintedInv, Steps
  <2>5. CASE ParseArguments
    <3>1. /\ printed' = <<>> /\ pc = "arguments" /\ exit = None
          /\ \/ Failed(parsed') /\ Exit(2)
             \/ ~Failed(parsed') /\ pc' = "configure" /\ exit' = exit
      BY <2>5 DEF ParseArguments, PrintedInv, Continue
    <3>2. CASE Exit(2)
      BY <3>1, <3>2, WordsOfOwn, EndKeepsPrinted DEF Exit
    <3>3. CASE ~Failed(parsed') /\ pc' = "configure" /\ exit' = exit
      BY <3>1, <3>3 DEF PrintedInv, FailureSaysNothing, Given, Steps
    <3> QED BY <3>1, <3>2, <3>3
  <2>6. CASE Configure
    <3>1. /\ FirstStep \in Steps \ {"work", "verify", "guard"}
          /\ FirstStep = "core self-test" <=> Command = "self-test"
      BY DEF FirstStep, Steps
    <3>2. /\ pc = "configure" /\ UNCHANGED <<parsed, did, printed>>
          /\ Exit(2) \/ Continue(FirstStep)
      BY <2>6 DEF Configure
    <3>3. printed' = <<>> /\ ~Failed(parsed) /\ exit = None
      BY <3>2 DEF PrintedInv
    <3>4. CASE Exit(2)
      BY <3>2, <3>3, <3>4, WordsOfOwn, EndKeepsPrinted DEF Exit
    <3>5. CASE Continue(FirstStep)
      <4>1. printed' = PrintedSoFar'
        BY <3>1, <3>2, <3>3, <3>5 DEF Continue, PrintedSoFar, Command
      <4> QED BY <3>1, <3>2, <3>3, <3>5, <4>1, StepKeepsPrinted DEF Continue
    <3> QED BY <3>2, <3>4, <3>5
  <2>7. CASE BuildEngine
    <3>1. /\ pc = "engine" /\ UNCHANGED <<parsed, printed>>
          /\ Exit(2) \/ Exit(101) \/ Continue("work")
      BY <2>7 DEF BuildEngine
    <3>2. printed = PrintedSoFar /\ printed \in {<<>>, <<"PASS of the core">>}
      BY <2>4, <3>1 DEF Steps, PrintedSoFar
    <3>3. CASE Exit(2)
      BY <3>1, <3>2, <3>3, WordsOfOwn, EndKeepsPrinted DEF Exit
    <3>4. CASE Exit(101)
      BY <3>1, <3>2, <3>4, WordsOfOwn, EndKeepsPrinted DEF Exit
    <3>5. CASE Continue("work")
      <4>1. printed' = PrintedSoFar'
        BY <3>1, <3>2, <3>5 DEF Continue, PrintedSoFar, Command
      <4>2. exit = None /\ exit' = exit /\ pc' = "work" /\ ~Failed(parsed)
        BY <2>4, <3>1, <3>5 DEF Continue, Steps
      <4> QED BY <3>1, <4>1, <4>2, StepKeepsPrinted DEF Steps
    <3> QED BY <3>1, <3>3, <3>4, <3>5
  <2>8. CASE RunCoreDirectly
    <3>1. /\ pc \in {"build", "core self-test"} /\ UNCHANGED parsed
          /\ \/ Exit(2) /\ UNCHANGED printed
             \/ pc = "core self-test" /\ Continue("engine")
                /\ printed' = Append(printed, "PASS of the core")
             \/ pc = "build" /\ Exit(0) /\ printed' = Append(printed, "binary")
      BY <2>8 DEF RunCoreDirectly, Prints
    <3>2. /\ printed = <<>> /\ ~Failed(parsed) /\ exit = None
          /\ pc = "core self-test" => Command = "self-test"
      BY <2>4, <3>1 DEF Steps, PrintedSoFar, PrintedInv
    <3>3. CASE Exit(2) /\ UNCHANGED printed
      BY <3>2, <3>3, WordsOfOwn, EndKeepsPrinted DEF Exit
    <3>4. CASE pc = "core self-test" /\ Continue("engine")
               /\ printed' = Append(printed, "PASS of the core")
      <4>1. printed' = <<"PASS of the core">>
        BY <2>2, <3>2, <3>4
      <4>2. printed' = PrintedSoFar'
        BY <3>1, <3>2, <3>4, <4>1 DEF Continue, PrintedSoFar, Command
      <4> QED BY <3>1, <3>2, <3>4, <4>2, StepKeepsPrinted DEF Continue, Steps
    <3>5. CASE Exit(0) /\ printed' = Append(printed, "binary")
      <4>1. printed' = <<"binary">>
        BY <2>2, <3>2, <3>5
      <4> QED BY <3>5, <4>1, WordsOfOwn, EndKeepsPrinted DEF Exit
    <3> QED BY <3>1, <3>3, <3>4, <3>5
  <2>9. CASE MakeReport
    <3>1. /\ pc = "report" /\ UNCHANGED parsed
          /\ \/ Exit(2) /\ UNCHANGED printed
             \/ Exit(0) /\ printed' = Append(printed, "report")
      BY <2>9 DEF MakeReport, Prints
    <3>2. printed = <<>>
      BY <2>4, <3>1 DEF Steps, PrintedSoFar, PrintedInv
    <3>3. CASE Exit(2) /\ UNCHANGED printed
      BY <3>2, <3>3, WordsOfOwn, EndKeepsPrinted DEF Exit
    <3>4. CASE Exit(0) /\ printed' = Append(printed, "report")
      <4>1. printed' = <<"report">>
        BY <2>2, <3>2, <3>4
      <4> QED BY <3>4, <4>1, WordsOfOwn, EndKeepsPrinted DEF Exit
    <3> QED BY <3>1, <3>3, <3>4
  <2>10. CASE Recommend
    <3>1. /\ pc = "work" /\ UNCHANGED parsed
          /\ \/ Exit(2) /\ UNCHANGED printed
             \/ Command = "once" /\ Exit(0) /\ printed' = Append(printed, "decision")
             \/ Command = "loop" /\ Continue("work")
             \/ /\ Command \in {"self-test", "guard-demo"}
                /\ pc' = IF Command = "self-test" THEN "verify" ELSE "guard"
                /\ {"core", "stored"} \subseteq did' /\ exit' = exit /\ UNCHANGED printed
      BY <2>10 DEF Recommend, Prints, Continue
    <3>2. /\ ~Failed(parsed) /\ exit = None
          /\ Command \notin Endless => printed = PrintedSoFar
          /\ Command \notin {"self-test"} => PrintedSoFar = <<>>
          /\ PrintedSoFar \in {<<>>, <<"PASS of the core">>}
      BY <3>1 DEF Steps, PrintedSoFar, PrintedInv
    <3>3. CASE Exit(2) /\ UNCHANGED printed
      <4>1. Command' = Command /\ ~Failed(parsed')
        BY <3>1, <3>2 DEF Command
      <4> QED BY <3>2, <3>3, <4>1, WordsOfOwn, EndKeepsPrinted DEF Exit
    <3>4. CASE Command = "once" /\ Exit(0) /\ printed' = Append(printed, "decision")
      <4>1. printed' = <<"decision">>
        BY <2>1, <2>2, <3>2, <3>4
      <4> QED BY <3>4, <4>1, WordsOfOwn, EndKeepsPrinted DEF Exit
    <3>5. CASE Command = "loop" /\ Continue("work")
      BY <2>1, <3>1, <3>2, <3>5, StepKeepsPrinted DEF Continue, Steps
    <3>6. CASE /\ Command \in {"self-test", "guard-demo"}
               /\ pc' = IF Command = "self-test" THEN "verify" ELSE "guard"
               /\ {"core", "stored"} \subseteq did' /\ exit' = exit /\ UNCHANGED printed
      <4>1. printed' = PrintedSoFar'
        BY <2>1, <3>1, <3>2, <3>6 DEF PrintedSoFar, Command
      <4> QED BY <3>1, <3>2, <3>6, <4>1, StepKeepsPrinted DEF Steps
    <3> QED BY <3>1, <3>3, <3>4, <3>5, <3>6
  <2>11. CASE Verify
    <3>1. /\ pc = "verify" /\ UNCHANGED parsed
          /\ \/ Exit(2) /\ UNCHANGED printed
             \/ Exit(0) /\ printed' = Append(printed, "PASS") /\ did' = did \cup {"verified"}
      BY <2>11 DEF Verify, Prints
    <3>2. printed = <<"PASS of the core">> /\ {"core", "stored"} \subseteq did
      BY <2>4, <3>1 DEF Steps, PrintedSoFar, PrintedInv
    <3>3. CASE Exit(2) /\ UNCHANGED printed
      BY <3>2, <3>3, WordsOfOwn, EndKeepsPrinted DEF Exit
    <3>4. CASE Exit(0) /\ printed' = Append(printed, "PASS") /\ did' = did \cup {"verified"}
      <4>1. printed' = <<"PASS of the core", "PASS">>
        BY <2>3, <3>2, <3>4
      <4>2. {"core", "stored", "verified"} \subseteq did'
        BY <3>2, <3>4
      <4> QED BY <3>4, <4>1, <4>2, WordsOfOwn, EndKeepsPrinted DEF Exit
    <3> QED BY <3>1, <3>3, <3>4
  <2>12. CASE GuardDemo
    <3>1. /\ pc = "guard"
          /\ \/ Exit(2) /\ UNCHANGED printed
             \/ Exit(0) /\ printed' = Append(printed, "decision")
      BY <2>12 DEF GuardDemo, Prints
    <3>2. printed = <<>>
      BY <2>4, <3>1 DEF Steps, PrintedSoFar, PrintedInv
    <3>3. CASE Exit(2) /\ UNCHANGED printed
      BY <3>2, <3>3, WordsOfOwn, EndKeepsPrinted DEF Exit
    <3>4. CASE Exit(0) /\ printed' = Append(printed, "decision")
      <4>1. printed' = <<"decision">>
        BY <2>2, <3>2, <3>4
      <4> QED BY <3>4, <4>1, WordsOfOwn, EndKeepsPrinted DEF Exit
    <3> QED BY <3>1, <3>3, <3>4
  <2>13. CASE ReadStore
    <3>1. /\ pc = "work" /\ Command \in {"replay", "recent"}
          /\ \/ Exit(2) /\ UNCHANGED printed
             \/ Exit(0) /\ printed' = Append(printed, "decisions")
      BY <2>13 DEF ReadStore, Prints
    <3>2. printed = <<>>
      BY <2>1, <3>1 DEF Steps, PrintedSoFar, PrintedInv
    <3>3. CASE Exit(2) /\ UNCHANGED printed
      BY <3>2, <3>3, WordsOfOwn, EndKeepsPrinted DEF Exit
    <3>4. CASE Exit(0) /\ printed' = Append(printed, "decisions")
      <4>1. printed' = <<"decisions">>
        BY <2>2, <3>2, <3>4
      <4> QED BY <3>4, <4>1, WordsOfOwn, EndKeepsPrinted DEF Exit
    <3> QED BY <3>1, <3>3, <3>4
  <2>14. CASE Serve
    <3>1. /\ pc = "work" /\ Command \in {"serve", "mcp", "autonomous"} /\ UNCHANGED parsed
          /\ Exit(2) \/ Exit(0) \/ Continue("work")
      BY <2>14 DEF Serve
    <3>2. /\ ~Failed(parsed) /\ exit = None /\ Command \in Endless
          /\ Command' \in Endless /\ ~Failed(parsed')
      BY <2>1, <3>1 DEF Steps, PrintedInv, Command
    <3>3. CASE Exit(2)
      BY <3>2, <3>3, EndKeepsPrinted DEF Exit
    <3>4. CASE Exit(0)
      BY <3>2, <3>4, EndKeepsPrinted DEF Exit
    <3>5. CASE Continue("work")
      BY <2>1, <3>1, <3>2, <3>5, StepKeepsPrinted DEF Continue, Steps
    <3> QED BY <3>1, <3>3, <3>4, <3>5
  <2>15. CASE UNCHANGED vars
    BY <2>15 DEF vars, PrintedInv, FailureSaysNothing, PrintedSoFar, Command, OwnResults
  <2> QED BY <2>5, <2>6, <2>7, <2>8, <2>9, <2>10, <2>11, <2>12, <2>13, <2>14, <2>15 DEF Next
<1>3. PrintedInv => FailureSaysNothing
  BY DEF PrintedInv
<1> QED BY <1>1, <1>2, <1>3, LoadedInvariant, PTL DEF Spec


-----------------------------------------------------------------------------
(* The second part: from the outside world to an assessment.               *)
LEMMA SequenceFacts ==
    /\ \A s : IsSequence(s) => Len(s) \in Nat /\ DOMAIN s = 1 .. Len(s)
    /\ \A s, S : s \in Seq(S) => IsSequence(s)
<1>1. ASSUME NEW s, IsSequence(s) PROVE Len(s) \in Nat /\ DOMAIN s = 1 .. Len(s)
  BY <1>1, LenProperties DEF IsSequence
<1>2. ASSUME NEW S, NEW s \in Seq(S) PROVE IsSequence(s)
  <2>1. s \in [1 .. Len(s) -> S] /\ DOMAIN s = 1 .. Len(s) /\ Len(s) \in Nat
    BY LenProperties
  <2>2. s \in [1 .. Len(s) -> Range(s)]
    BY <2>1 DEF Range
  <2>3. s \in Seq(Range(s))
    BY <2>1, <2>2, SeqDef
  <2> QED BY <2>3 DEF IsSequence
<1> QED BY <1>1, <1>2

LEMMA FunctionIsSequence ==
    ASSUME NEW n \in Nat, NEW s, s = [i \in 1 .. n |-> s[i]]
    PROVE  IsSequence(s) /\ Len(s) = n /\ DOMAIN s = 1 .. n
<1>1. DOMAIN s = 1 .. n
  OBVIOUS
<1>2. s \in [1 .. n -> Range(s)]
  BY <1>1 DEF Range
<1>3. s \in Seq(Range(s))
  BY <1>2, SeqDef
<1>4. Len(s) = n
  BY <1>1, <1>3, LenProperties
<1> QED BY <1>1, <1>3, <1>4 DEF IsSequence

LEMMA EmptyIsSequence == IsSequence(<<>>) /\ Len(<<>>) = 0 /\ DOMAIN <<>> = {}
<1>1. <<>> \in Seq({}) /\ Len(<<>>) = 0
  BY EmptySeq
<1>2. DOMAIN <<>> = {}
  OBVIOUS
<1> QED BY <1>1, <1>2, SequenceFacts

LEMMA JoinedSequences ==
    ASSUME NEW s, NEW t, IsSequence(s), IsSequence(t)
    PROVE  /\ IsSequence(s \o t)
           /\ Len(s \o t) = Len(s) + Len(t)
           /\ \A i \in DOMAIN (s \o t) :
                 \/ i \in DOMAIN s /\ (s \o t)[i] = s[i]
                 \/ \E j \in DOMAIN t : (s \o t)[i] = t[j]
<1> DEFINE S == Range(s) \cup Range(t)
           st == s \o t
<1>1. s \in Seq(S) /\ t \in Seq(S)
  <2>1. Range(s) \subseteq S /\ Range(t) \subseteq S
    OBVIOUS
  <2> HIDE DEF S
  <2> QED BY <2>1, SeqMonotonic DEF IsSequence
<1> HIDE DEF S
<1>2. /\ st \in Seq(S) /\ Len(st) = Len(s) + Len(t)
      /\ \A i \in 1 .. Len(s) + Len(t) : st[i] = IF i <= Len(s) THEN s[i] ELSE t[i - Len(s)]
  BY <1>1, ConcatProperties
<1>3. Len(s) \in Nat /\ Len(t) \in Nat /\ DOMAIN s = 1 .. Len(s) /\ DOMAIN t = 1 .. Len(t)
  BY SequenceFacts
<1> HIDE DEF st
<1>4. IsSequence(st) /\ DOMAIN st = 1 .. Len(s) + Len(t)
  BY <1>2, SequenceFacts
<1>5. ASSUME NEW i \in DOMAIN st
      PROVE  (i \in DOMAIN s /\ st[i] = s[i]) \/ \E j \in DOMAIN t : st[i] = t[j]
  <2>1. CASE i <= Len(s)
    BY <1>2, <1>3, <1>4, <2>1
  <2>2. CASE ~(i <= Len(s))
    <3>1. i - Len(s) \in DOMAIN t /\ st[i] = t[i - Len(s)]
      BY <1>2, <1>3, <1>4, <2>2
    <3> QED BY <3>1
  <2> QED BY <2>1, <2>2
<1> QED BY <1>2, <1>4, <1>5 DEF st

LEMMA OneAppended ==
    ASSUME NEW s, IsSequence(s), NEW x
    PROVE  /\ IsSequence(Append(s, x)) /\ Len(Append(s, x)) = Len(s) + 1
           /\ \A i \in DOMAIN Append(s, x) : (i \in DOMAIN s /\ Append(s, x)[i] = s[i])
                                             \/ Append(s, x)[i] = x
<1> DEFINE S == Range(s) \cup {x}
           sx == Append(s, x)
<1>1. s \in Seq(S) /\ x \in S
  <2>1. Range(s) \subseteq S /\ x \in S
    OBVIOUS
  <2> HIDE DEF S
  <2> QED BY <2>1, SeqMonotonic DEF IsSequence
<1> HIDE DEF S
<1>2. /\ sx \in Seq(S) /\ Len(sx) = Len(s) + 1
      /\ \A i \in 1 .. Len(s) : sx[i] = s[i]
      /\ sx[Len(s) + 1] = x
  BY <1>1, AppendProperties
<1>3. Len(s) \in Nat /\ DOMAIN s = 1 .. Len(s)
  BY SequenceFacts
<1> HIDE DEF sx
<1>4. IsSequence(sx) /\ DOMAIN sx = 1 .. Len(s) + 1
  BY <1>2, SequenceFacts
<1>5. \A i \in DOMAIN sx : (i \in DOMAIN s /\ sx[i] = s[i]) \/ sx[i] = x
  BY <1>2, <1>3, <1>4
<1> QED BY <1>2, <1>4, <1>5 DEF sx

LEMMA MinMax ==
    ASSUME NEW a \in Int, NEW b \in Int
    PROVE  /\ Min({a, b}) = IF a <= b THEN a ELSE b
           /\ Max({a, b}) = IF a <= b THEN b ELSE a
<1>1. CASE a <= b
  <2>1. Min({a, b}) \in {a, b} /\ \A y \in {a, b} : Min({a, b}) <= y
    BY <1>1 DEF Min
  <2>2. Max({a, b}) \in {a, b} /\ \A y \in {a, b} : Max({a, b}) >= y
    BY <1>1 DEF Max
  <2> QED BY <1>1, <2>1, <2>2
<1>2. CASE ~(a <= b)
  <2>1. Min({a, b}) \in {a, b} /\ \A y \in {a, b} : Min({a, b}) <= y
    BY <1>2 DEF Min
  <2>2. Max({a, b}) \in {a, b} /\ \A y \in {a, b} : Max({a, b}) >= y
    BY <1>2 DEF Max
  <2> QED BY <1>2, <2>1, <2>2
<1> QED BY <1>1, <1>2

LEMMA ClampIsBetween ==
    ASSUME NEW v \in Int, NEW lo \in Int, NEW hi \in Int, lo <= hi
    PROVE  Clamp(v, lo, hi) \in lo .. hi
<1> DEFINE least == Min({v, hi})
<1>1. least \in Int /\ least <= hi
  BY MinMax
<1> HIDE DEF least
<1>2. Max({lo, least}) = IF lo <= least THEN least ELSE lo
  BY <1>1, MinMax
<1> QED BY <1>1, <1>2 DEF Clamp, least

(* The first n of a list.                                                  *)
LEMMA UpToFacts ==
    ASSUME NEW n \in Nat, NEW s, IsSequence(s)
    PROVE  /\ IsSequence(UpTo(n, s)) /\ Len(UpTo(n, s)) <= n /\ Len(UpTo(n, s)) <= Len(s)
           /\ \A i \in DOMAIN UpTo(n, s) : i \in DOMAIN s /\ UpTo(n, s)[i] = s[i]
<1> DEFINE m == Min({n, Len(s)})
           S == Range(s)
           first == SubSeq(s, 1, m)
<1>1. Len(s) \in Nat /\ DOMAIN s = 1 .. Len(s)
  BY SequenceFacts
<1>2. m \in Nat /\ m <= n /\ m <= Len(s)
  BY <1>1, MinMax
<1> HIDE DEF m
<1>3. \A i \in 1 .. m : s[i] \in S
  BY <1>1, <1>2 DEF Range
<1> HIDE DEF S
<1>4. /\ first \in Seq(S)
      /\ Len(first) = IF 1 <= m THEN m - 1 + 1 ELSE 0
      /\ \A i \in 1 .. m - 1 + 1 : first[i] = s[1 + i - 1]
  BY <1>2, <1>3, SubSeqProperties
<1> HIDE DEF first
<1>5. Len(first) = m /\ \A i \in 1 .. m : first[i] = s[i]
  BY <1>2, <1>4
<1>6. IsSequence(first) /\ DOMAIN first = 1 .. m
  BY <1>4, <1>5, SequenceFacts
<1>7. UpTo(n, s) = first
  BY DEF UpTo, first, m
<1> QED BY <1>1, <1>2, <1>5, <1>6, <1>7

-----------------------------------------------------------------------------
(* The places a filter leaves are places of the list.                      *)
LEMMA AscendingFacts ==
    ASSUME NEW S, NEW n \in Nat
    PROVE  /\ IsSequence(Ascending(S, n))
           /\ \A k \in DOMAIN Ascending(S, n) : Ascending(S, n)[k] \in S \cap (1 .. n)
<1> DEFINE OneMore(up, k) == IF k = 0 THEN <<>>
                             ELSE IF k \in S THEN Append(up[k - 1], k) ELSE up[k - 1]
           Defined(m) == \E up : up = [k \in 0 .. m |-> OneMore(up, k)]
           Good(s) == IsSequence(s) /\ \A i \in DOMAIN s : s[i] \in S \cap (1 .. n)
<1>1. Defined(0)
  <2> WITNESS [k \in 0 .. 0 |-> <<>>]
  <2> QED OBVIOUS
<1>2. ASSUME NEW m \in Nat, Defined(m)
      PROVE  Defined(m + 1)
  <2>1. PICK up : up = [k \in 0 .. m |-> OneMore(up, k)]
    BY <1>2
  <2> DEFINE longer == [k \in 0 .. m + 1 |-> IF k <= m THEN up[k]
                                             ELSE IF k \in S THEN Append(up[m], k) ELSE up[m]]
  <2>2. ASSUME NEW k \in 0 .. m + 1
        PROVE  longer[k] = OneMore(longer, k)
    <3>1. CASE k <= m
      <4>1. k \in 0 .. m
        BY <3>1
      <4> HIDE DEF OneMore
      <4>2. up[k] = OneMore(up, k)
        BY ONLY <2>1, <4>1
      <4>3. k # 0 => longer[k - 1] = up[k - 1]
        BY <3>1
      <4> USE DEF OneMore
      <4> QED BY <3>1, <4>1, <4>2, <4>3
    <3>2. CASE k = m + 1
      BY <3>2
    <3> QED BY <3>1, <3>2
  <2>3. longer = [k \in 0 .. m + 1 |-> OneMore(longer, k)]
    BY <2>2
  <2> HIDE DEF longer
  <2> QED BY <2>3
<1>3. Defined(n)
  <2> DEFINE Missing == {m \in Nat : ~Defined(m)}
  <2>1. ASSUME Missing # {} PROVE FALSE
    <3>1. PICK least \in Missing : \A m \in Missing : least <= m
      BY <2>1, LeastNumber
    <3> HIDE DEF Defined
    <3>2. least # 0 /\ least - 1 \in Nat
      BY <1>1
    <3>3. Defined(least - 1)
      BY <3>1, <3>2
    <3> QED BY <1>2, <3>2, <3>3
  <2> QED BY <2>1
<1> DEFINE up == CHOOSE up : up = [k \in 0 .. n |-> OneMore(up, k)]
<1>4. Ascending(S, n) = up[n]
  BY DEF Ascending
<1>5. up = [k \in 0 .. n |-> OneMore(up, k)]
  BY <1>3
<1> HIDE DEF up
<1>6. \A k \in 0 .. n : up[k] = OneMore(up, k)
  BY ONLY <1>5
<1>7. \A k \in 0 .. n : Good(up[k])
  <2> DEFINE Wrong == {k \in 0 .. n : ~Good(up[k])}
  <2>1. ASSUME Wrong # {} PROVE FALSE
    <3>0. Wrong \subseteq Nat
      OBVIOUS
    <3> HIDE DEF Wrong
    <3>1. PICK least \in Wrong : \A k \in Wrong : least <= k
      BY <2>1, <3>0, LeastNumber
    <3> USE DEF Wrong
    <3>2. Good(<<>>)
      BY EmptyIsSequence
    <3> HIDE DEF Good
    <3>3. least # 0 /\ least - 1 \in 0 .. n
      BY <1>6, <3>2
    <3>4. Good(up[least - 1])
      BY <3>1, <3>3
    <3>5. ASSUME least \in S PROVE Good(Append(up[least - 1], least))
      <4>1. least \in S \cap (1 .. n)
        BY <3>3, <3>5
      <4> QED BY <3>4, <4>1, OneAppended DEF Good
    <3> QED BY <1>6, <3>3, <3>4, <3>5
  <2> QED BY <2>1
<1>8. Good(up[n])
  BY <1>7
<1> QED BY <1>4, <1>8

(* The mean of whole numbers is one.                                       *)
LEMMA MeanIsWhole ==
    ASSUME NEW numbers, IsSequence(numbers), \A i \in DOMAIN numbers : numbers[i] \in Int
    PROVE  Mean(numbers) \in Int
<1> DEFINE n == Len(numbers)
           OneMore(total, k) == IF k = 0 THEN 0 ELSE total[k - 1] + numbers[k]
           Defined(m) == \E total : total = [k \in 0 .. m |-> OneMore(total, k)]
<1>1. n \in Nat /\ DOMAIN numbers = 1 .. n
  BY SequenceFacts
<1> HIDE DEF n
<1>2. Defined(0)
  <2> WITNESS [k \in 0 .. 0 |-> 0]
  <2> QED OBVIOUS
<1>3. ASSUME NEW m \in Nat, Defined(m)
      PROVE  Defined(m + 1)
  <2>1. PICK total : total = [k \in 0 .. m |-> OneMore(total, k)]
    BY <1>3
  <2> DEFINE longer == [k \in 0 .. m + 1 |-> IF k <= m THEN total[k] ELSE total[m] + numbers[k]]
  <2>2. ASSUME NEW k \in 0 .. m + 1
        PROVE  longer[k] = OneMore(longer, k)
    <3>1. CASE k <= m
      <4>1. k \in 0 .. m
        BY <3>1
      <4> HIDE DEF OneMore
      <4>2. total[k] = OneMore(total, k)
        BY ONLY <2>1, <4>1
      <4>3. k # 0 => longer[k - 1] = total[k - 1]
        BY <3>1
      <4> USE DEF OneMore
      <4> QED BY <3>1, <4>1, <4>2, <4>3
    <3>2. CASE k = m + 1
      BY <3>2
    <3> QED BY <3>1, <3>2
  <2>3. longer = [k \in 0 .. m + 1 |-> OneMore(longer, k)]
    BY <2>2
  <2> HIDE DEF longer
  <2> QED BY <2>3
<1>4. Defined(n)
  <2> DEFINE Missing == {m \in Nat : ~Defined(m)}
  <2>1. ASSUME Missing # {} PROVE FALSE
    <3>1. PICK least \in Missing : \A m \in Missing : least <= m
      BY <2>1, LeastNumber
    <3> HIDE DEF Defined
    <3>2. least # 0 /\ least - 1 \in Nat
      BY <1>2
    <3>3. Defined(least - 1)
      BY <3>1, <3>2
    <3> QED BY <1>3, <3>2, <3>3
  <2> QED BY <1>1, <2>1
<1> DEFINE total == CHOOSE total : total = [k \in 0 .. n |-> OneMore(total, k)]
<1>5. Mean(numbers) = IF numbers = <<>> THEN 0 ELSE total[n] \div n
  BY DEF Mean, n
<1>6. total = [k \in 0 .. n |-> OneMore(total, k)]
  BY <1>4
<1> HIDE DEF total
<1>7. \A k \in 0 .. n : total[k] = OneMore(total, k)
  BY ONLY <1>6
<1>8. \A k \in 0 .. n : total[k] \in Int
  <2> DEFINE Wrong == {k \in 0 .. n : total[k] \notin Int}
  <2>1. ASSUME Wrong # {} PROVE FALSE
    <3>0. Wrong \subseteq Nat
      BY <1>1
    <3> HIDE DEF Wrong
    <3>1. PICK least \in Wrong : \A k \in Wrong : least <= k
      BY <2>1, <3>0, LeastNumber
    <3> USE DEF Wrong
    <3>2. least \in 1 .. n /\ least - 1 \in 0 .. n
      BY <1>1, <1>7
    <3>3. total[least - 1] \in Int
      BY <3>1, <3>2
    <3>4. total[least] = total[least - 1] + numbers[least]
      BY <1>1, <1>7, <3>2
    <3>5. numbers[least] \in Int
      BY <1>1, <3>2
    <3> QED BY <3>3, <3>4, <3>5
  <2> QED BY <2>1
<1>9. n = 0 => numbers = <<>>
  BY EmptySeq DEF IsSequence, n
<1> QED BY <1>1, <1>5, <1>8, <1>9

-----------------------------------------------------------------------------
(* Where a search in the text of a feed finds something.                   *)
LEMMA FirstIsThere ==
    ASSUME NEW S, S \subseteq Nat, Given(First(S))
    PROVE  Value(First(S)) \in S
<1>1. S # {}
  BY DEF Given, First, None
<1>2. PICK least \in S : \A m \in S : least <= m
  BY <1>1, LeastNumber
<1>3. Min(S) \in S
  BY <1>2 DEF Min
<1> QED BY <1>1, <1>3 DEF First, Some, Value

LEMMA TagsAreInTheText ==
    ASSUME NEW doc, IsSequence(doc), NEW from \in Nat, NEW names,
           Given(next_open_tag(doc, from, names))
    PROVE  Value(next_open_tag(doc, from, names)) \in from .. Len(doc)
<1> DEFINE S == {i \in DOMAIN doc \ Swallowed(doc) :
                    i >= from /\ doc[i].kind \in {"open", "empty"} /\ doc[i].name \in names}
<1>1. DOMAIN doc = 1 .. Len(doc) /\ Len(doc) \in Nat
  BY SequenceFacts
<1>2. S \subseteq Nat /\ S \subseteq from .. Len(doc)
  BY <1>1
<1>3. next_open_tag(doc, from, names) = First(S)
  BY DEF next_open_tag
<1> HIDE DEF S
<1>4. Value(First(S)) \in S
  BY <1>2, <1>3, FirstIsThere
<1> QED BY <1>2, <1>3, <1>4

LEMMA ClosesAreInTheText ==
    ASSUME NEW doc, IsSequence(doc), NEW i \in Nat, Given(CloseOf(doc, i))
    PROVE  Value(CloseOf(doc, i)) \in i + 1 .. Len(doc)
<1> DEFINE S == {j \in DOMAIN doc : j > i /\ doc[j].kind = "close" /\ PassesFor(doc[j], doc[i])}
<1>1. DOMAIN doc = 1 .. Len(doc) /\ Len(doc) \in Nat
  BY SequenceFacts
<1>2. S \subseteq Nat /\ S \subseteq i + 1 .. Len(doc)
  BY <1>1
<1>3. CloseOf(doc, i) = First(S)
  BY DEF CloseOf
<1> HIDE DEF S
<1>4. Value(First(S)) \in S
  BY <1>2, <1>3, FirstIsThere
<1> QED BY <1>2, <1>3, <1>4

(* The blocks of a feed are a list: a search for one goes on behind the     *)
(* one before, so it ends.                                                 *)
LEMMA BlocksAreAList ==
    ASSUME NEW doc, IsSequence(doc), NEW name
    PROVE  IsSequence(extract_blocks(doc, name))
<1> DEFINE n == Len(doc) + 1
           Tag(k) == next_open_tag(doc, k, {name})
           Close(k) == CloseOf(doc, Value(Tag(k)))
           IsEmpty(k) == doc[Value(Tag(k))].kind = "empty"
           Block(k) == <<FeedEntry(SubSeq(doc, Value(Tag(k)) + 1, Value(Close(k)) - 1))>>
           Step(found, k) == IF ~Given(Tag(k)) THEN <<>>
                             ELSE IF IsEmpty(k) THEN found[Value(Tag(k)) + 1]
                             ELSE IF ~Given(Close(k)) THEN <<>>
                             ELSE Block(k) \o found[Value(Close(k)) + 1]
           Defined(m) == \E found : found = [k \in m .. n |-> Step(found, k)]
<1>1. n \in Nat /\ 1 <= n
  BY SequenceFacts
<1>2. extract_blocks(doc, name) = (CHOOSE found : found = [k \in 1 .. n |-> Step(found, k)])[1]
  BY DEF extract_blocks
<1>3. ASSUME NEW k \in 1 .. n, Given(Tag(k))
      PROVE  /\ Value(Tag(k)) + 1 \in k + 1 .. n
             /\ Given(Close(k)) => Value(Close(k)) + 1 \in k + 1 .. n
  <2>1. Len(doc) \in Nat
    BY SequenceFacts
  <2>2. Value(Tag(k)) \in k .. Len(doc)
    BY <1>1, <1>3, TagsAreInTheText
  <2>3. ASSUME Given(Close(k)) PROVE Value(Close(k)) \in Value(Tag(k)) + 1 .. Len(doc)
    <3>1. Value(Tag(k)) \in Nat
      BY <2>1, <2>2
    <3> HIDE DEF Tag
    <3> QED BY <2>3, <3>1, ClosesAreInTheText
  <2> HIDE DEF Tag, Close
  <2> QED BY <2>1, <2>2, <2>3
<1>4. \A k : IsSequence(Block(k))
  <2>1. ASSUME NEW x PROVE IsSequence(<<x>>)
    <3>1. <<x>> \in Seq({x})
      OBVIOUS
    <3> QED BY <3>1, SequenceFacts
  <2> QED BY <2>1
<1>5. ~Given(Tag(n))
  <2>1. ASSUME Given(Tag(n)) PROVE FALSE
    <3>1. n \in 1 .. n
      BY <1>1
    <3>2. Value(Tag(n)) + 1 \in n + 1 .. n
      BY <1>3, <2>1, <3>1
    <3> QED BY <1>1, <3>2
  <2> QED BY <2>1
<1> HIDE DEF n, Tag, Close, IsEmpty, Block
<1>6. Defined(n)
  <2> DEFINE found == [k \in n .. n |-> <<>>]
  <2>1. \A k \in n .. n : k = n
    BY <1>1
  <2>2. found = [k \in n .. n |-> Step(found, k)]
    BY <1>5, <2>1
  <2> QED BY <2>2
<1>7. ASSUME NEW m \in 1 .. n, m # n, Defined(m + 1)
      PROVE  Defined(m)
  <2>1. PICK found : found = [k \in m + 1 .. n |-> Step(found, k)]
    BY <1>7
  <2> DEFINE longer == [k \in m .. n |-> IF k = m THEN Step(found, m) ELSE found[k]]
  <2>2. \A k \in m + 1 .. n : longer[k] = found[k]
    BY <1>1
  <2>3. ASSUME NEW k \in m .. n
        PROVE  Step(longer, k) = Step(found, k)
    <3>1. k \in 1 .. n /\ \A j \in k + 1 .. n : j \in m + 1 .. n
      BY <1>1
    <3>2. \A j \in k + 1 .. n : longer[j] = found[j]
      BY <2>2, <3>1
    <3> HIDE DEF longer
    <3> QED BY <1>3, <3>1, <3>2
  <2>4. ASSUME NEW k \in m .. n
        PROVE  longer[k] = Step(longer, k)
    <3>1. CASE k = m
      <4>1. longer[m] = Step(found, m)
        BY <1>1
      <4> HIDE DEF Step, longer
      <4> QED BY <2>3, <3>1, <4>1
    <3>2. CASE k # m
      <4>1. k \in m + 1 .. n
        BY <1>1, <3>2
      <4> HIDE DEF Step, longer
      <4>2. found[k] = Step(found, k)
        BY ONLY <2>1, <4>1
      <4> QED BY <2>2, <2>3, <4>1, <4>2
    <3> QED BY <3>1, <3>2
  <2>5. longer = [k \in m .. n |-> Step(longer, k)]
    BY <2>4
  <2> HIDE DEF longer
  <2> QED BY <2>5
<1>8. Defined(1)
  <2> DEFINE Missing == {j \in 0 .. n - 1 : ~Defined(n - j)}
  <2>1. ASSUME Missing # {} PROVE FALSE
    <3>0. Missing \subseteq Nat
      BY <1>1
    <3> HIDE DEF Missing
    <3>1. PICK least \in Missing : \A j \in Missing : least <= j
      BY <2>1, <3>0, LeastNumber
    <3> USE DEF Missing
    <3> HIDE DEF Defined
    <3>2. least # 0 /\ least - 1 \in 0 .. n - 1 /\ least \in 0 .. n - 1
      BY <1>1, <1>6
    <3>3. Defined(n - (least - 1))
      BY <3>1, <3>2
    <3>4. n - (least - 1) = (n - least) + 1 /\ n - least \in 1 .. n /\ n - least # n
      BY <1>1, <3>2
    <3>5. Defined(n - least)
      BY <1>7, <3>3, <3>4
    <3> QED BY <3>5
  <2>2. n - 1 \in 0 .. n - 1 /\ n - (n - 1) = 1
    BY <1>1
  <2> HIDE DEF Defined
  <2> QED BY <2>1, <2>2
<1> DEFINE found == CHOOSE found : found = [k \in 1 .. n |-> Step(found, k)]
<1>9. found = [k \in 1 .. n |-> Step(found, k)]
  BY <1>8
<1>10. extract_blocks(doc, name) = found[1]
  BY <1>2
<1> HIDE DEF found
<1>11. \A k \in 1 .. n : found[k] = Step(found, k)
  <2> HIDE DEF Step
  <2> QED BY ONLY <1>9
<1>12. \A k \in 1 .. n : IsSequence(found[k])
  <2> DEFINE Wrong == {j \in 0 .. n - 1 : ~IsSequence(found[n - j])}
  <2>1. ASSUME Wrong # {} PROVE FALSE
    <3>0. Wrong \subseteq Nat
      BY <1>1
    <3> HIDE DEF Wrong
    <3>1. PICK least \in Wrong : \A j \in Wrong : least <= j
      BY <2>1, <3>0, LeastNumber
    <3> USE DEF Wrong
    <3> DEFINE k == n - least
    <3>2. k \in 1 .. n
      BY <1>1
    <3>3. ASSUME NEW j \in k + 1 .. n PROVE IsSequence(found[j])
      <4>1. n - j \in 0 .. n - 1 /\ n - j < least /\ n - (n - j) = j
        BY <1>1
      <4>2. n - j \notin Wrong
        BY <3>1, <4>1
      <4> QED BY <4>1, <4>2
    <3>4. ~IsSequence(found[k])
      OBVIOUS
    <3> HIDE DEF k, Wrong
    <3>5. found[k] = Step(found, k)
      BY <1>11, <3>2
    <3>6. IsSequence(Step(found, k))
      <4>1. CASE ~Given(Tag(k))
        BY <4>1, EmptyIsSequence
      <4>2. CASE Given(Tag(k)) /\ IsEmpty(k)
        BY <1>3, <3>2, <3>3, <4>2
      <4>3. CASE Given(Tag(k)) /\ ~IsEmpty(k) /\ ~Given(Close(k))
        BY <4>3, EmptyIsSequence
      <4>4. CASE Given(Tag(k)) /\ ~IsEmpty(k) /\ Given(Close(k))
        <5>1. IsSequence(found[Value(Close(k)) + 1])
          BY <1>3, <3>2, <3>3, <4>4
        <5>2. IsSequence(Block(k) \o found[Value(Close(k)) + 1])
          BY <1>4, <5>1, JoinedSequences
        <5> QED BY <4>4, <5>2
      <4> QED BY <4>1, <4>2, <4>3, <4>4
    <3> QED BY <3>4, <3>5, <3>6
  <2>2. ASSUME NEW k \in 1 .. n PROVE IsSequence(found[k])
    <3>1. n - k \in 0 .. n - 1 /\ n - (n - k) = k
      BY <1>1
    <3> QED BY <2>1, <3>1
  <2> QED BY <2>2
<1> QED BY <1>1, <1>10, <1>12

-----------------------------------------------------------------------------
(* An item nobody vouched for is marked; any other has a text that can be   *)
(* cut, and no words of an outsider unless it reports a failed request.    *)
Sound(item) ==
    /\ item = [evidence_id |-> item.evidence_id, kind |-> item.kind, title |-> item.title,
               text |-> item.text, value |-> item.value, quality |-> item.quality,
               untrusted_text |-> item.untrusted_text]
    /\ item.quality \in Int
    /\ item.untrusted_text \in BOOLEAN
    /\ ~item.untrusted_text =>
          /\ IsSequence(item.text)
          /\ ReportsFailure(item) \/ (Range(item.title) \cup Range(item.text)) \cap OutsideWords = {}

SoundList(items) == IsSequence(items) /\ \A i \in DOMAIN items : Sound(items[i])

LEMMA ShortSequences ==
    /\ \A x : IsSequence(<<x>>) /\ Range(<<x>>) = {x} /\ DOMAIN <<x>> = {1} /\ <<x>>[1] = x
    /\ \A x, y : IsSequence(<<x, y>>) /\ Range(<<x, y>>) = {x, y} /\ DOMAIN <<x, y>> = {1, 2}
    /\ IsSequence(<<>>) /\ Range(<<>>) = {}
<1>1. ASSUME NEW x
      PROVE  IsSequence(<<x>>) /\ Range(<<x>>) = {x} /\ DOMAIN <<x>> = {1} /\ <<x>>[1] = x
  <2>1. <<x>> \in Seq({x}) /\ DOMAIN <<x>> = {1} /\ <<x>>[1] = x
    OBVIOUS
  <2> QED BY <2>1, SequenceFacts DEF Range
<1>2. ASSUME NEW x, NEW y
      PROVE  IsSequence(<<x, y>>) /\ Range(<<x, y>>) = {x, y} /\ DOMAIN <<x, y>> = {1, 2}
  <2>1. /\ <<x, y>> \in Seq({x, y}) /\ DOMAIN <<x, y>> = {1, 2}
        /\ <<x, y>>[1] = x /\ <<x, y>>[2] = y
    OBVIOUS
  <2> QED BY <2>1, SequenceFacts DEF Range
<1>3. Range(<<>>) = {}
  BY EmptyIsSequence DEF Range
<1> QED BY <1>1, <1>2, <1>3, EmptyIsSequence

LEMMA ItemIsSound ==
    ASSUME NEW id, NEW kind, NEW title, NEW text, NEW value, NEW quality \in Int,
           NEW untrusted \in BOOLEAN,
           ~untrusted => /\ IsSequence(text)
                         /\ \/ id[1] \in {"fred-error", "rss-error"}
                            \/ (Range(title) \cup Range(text)) \cap OutsideWords = {}
    PROVE  Sound(EvidenceItem(id, kind, title, text, value, quality, untrusted))
BY DEF Sound, EvidenceItem, ReportsFailure

(* What the connectors say of themselves is nobody else's, or an error.    *)
LEMMA OwnItemsAreSound ==
    /\ \A series : Sound(FredError(series))
    /\ Sound(missing_key_evidence)
    /\ \A series, observation :
          series \notin OutsideWords => Sound(observation_evidence(series, observation))
    /\ \A feed : Sound(FeedError(feed))
    /\ \A feed, index, entry : Sound(entry_evidence(feed, index, Symbol, entry))
<1>1. /\ "connector disabled" \notin OutsideWords /\ "no key" \notin OutsideWords
      /\ "FRED" \notin OutsideWords
  BY SourceAssumption
<1>2. /\ IsSequence(<<"no key">>) /\ Range(<<"no key">>) \cap OutsideWords = {}
      /\ IsSequence(<<>>) /\ Range(<<>>) \cap OutsideWords = {}
  <2>1. Range(<<"no key">>) = {"no key"}
    BY ShortSequences
  <2> QED BY <1>1, <2>1, ShortSequences
<1>3. ASSUME NEW series
      PROVE  Sound(FredError(series))
  <2> DEFINE title == <<"retrieval error", series>>
             id == <<"fred-error", series>>
  <2>1. id[1] = "fred-error" /\ IsSequence(Reason)
    BY SourceAssumption
  <2>2. Sound(EvidenceItem(id, "data_quality", title, Reason, Null, 100, FALSE))
    <3> HIDE DEF title, id
    <3> QED BY <2>1 DEF Sound, EvidenceItem, ReportsFailure
  <2> QED BY <2>2 DEF FredError
<1>4. Sound(missing_key_evidence)
  <2> DEFINE title == <<"connector disabled">>
  <2>1. Range(title) = {"connector disabled"}
    BY ShortSequences
  <2>2. Range(title) \cap OutsideWords = {}
    BY <1>1, <2>1
  <2> DEFINE id == <<"fred-missing-key">>
             text == <<"no key">>
  <2>3. IsSequence(text) /\ Range(text) \cap OutsideWords = {}
    BY <1>2
  <2>4. Sound(EvidenceItem(id, "data_quality", title, text, Null, 100, FALSE))
    <3> HIDE DEF title, id, text
    <3> QED BY <2>2, <2>3 DEF Sound, EvidenceItem
  <2> QED BY <2>4 DEF missing_key_evidence
<1>5. ASSUME NEW series, NEW observation, series \notin OutsideWords
      PROVE  Sound(observation_evidence(series, observation))
  <2> DEFINE title == <<"FRED", series>>
  <2>1. Range(title) = {"FRED", series}
    BY ShortSequences
  <2>2. Range(title) \cap OutsideWords = {}
    BY <1>1, <1>5, <2>1
  <2> DEFINE id == <<"fred", series, IF observation.date = Absent THEN "latest"
                                     ELSE observation.date>>
             text == <<>>
             value == IF observation.value \in {Absent, Null, Mistyped, NoData} THEN Null
                      ELSE observation.value
  <2>3. IsSequence(text) /\ Range(text) \cap OutsideWords = {}
    BY <1>2
  <2>4. Sound(EvidenceItem(id, "macro", title, text, value, 90, FALSE))
    <3> HIDE DEF title, id, text, value
    <3> QED BY <2>2, <2>3 DEF Sound, EvidenceItem
  <2> QED BY <2>4 DEF observation_evidence
<1>6. ASSUME NEW feed PROVE Sound(FeedError(feed))
  <2> DEFINE title == <<"retrieval error">>
             id == <<"rss-error", feed - 1>>
  <2>1. id[1] = "rss-error" /\ IsSequence(Reason)
    BY SourceAssumption
  <2>2. Sound(EvidenceItem(id, "data_quality", title, Reason, Null, 100, FALSE))
    <3> HIDE DEF title, id
    <3> QED BY <2>1 DEF Sound, EvidenceItem, ReportsFailure
  <2> QED BY <2>2 DEF FeedError
<1>7. ASSUME NEW feed, NEW index, NEW entry
      PROVE  Sound(entry_evidence(feed, index, Symbol, entry))
  <2> DEFINE title == <<Symbol>> \o (IF entry.title = <<>> THEN <<"RSS item">> ELSE entry.title)
             id == <<"rss", feed - 1, index - 1>>
             text == entry.description
  <2>1. Sound(EvidenceItem(id, "news", title, text, Null, 45, TRUE))
    <3> HIDE DEF title, id, text
    <3> QED BY DEF Sound, EvidenceItem
  <2> QED BY <2>1 DEF entry_evidence
<1> QED BY <1>3, <1>4, <1>5, <1>6, <1>7

LEMMA JoinedIsSound ==
    ASSUME NEW items, NEW more, SoundList(items), SoundList(more)
    PROVE  SoundList(items \o more)
<1> DEFINE all == items \o more
<1>1. /\ IsSequence(all)
      /\ \A i \in DOMAIN all : \/ i \in DOMAIN items /\ all[i] = items[i]
                               \/ \E j \in DOMAIN more : all[i] = more[j]
  BY JoinedSequences DEF SoundList
<1> HIDE DEF all
<1>2. \A i \in DOMAIN all : Sound(all[i])
  BY <1>1 DEF SoundList
<1>3. SoundList(all)
  BY <1>1, <1>2 DEF SoundList
<1> QED BY <1>3 DEF all

LEMMA OneIsSound ==
    ASSUME NEW item, Sound(item)
    PROVE  SoundList(<<item>>)
BY ShortSequences DEF SoundList

LEMMA FileIsSound ==
    ASSUME NEW given \in Files
    PROVE  SoundList(load_evidence_file(given, Symbol))
<1> DEFINE rows == given.rows
           Kept(row) == IF row = Mistyped THEN FALSE ELSE row_applies_to_symbol(row, Symbol)
           S == {i \in DOMAIN rows : Kept(rows[i])}
           kept == Ascending(S, Len(rows))
           items == load_evidence_file(given, Symbol)
<1>1. IsSequence(rows)
  BY SourceAssumption
<1>2. Len(rows) \in Nat /\ DOMAIN rows = 1 .. Len(rows)
  BY <1>1, SequenceFacts
<1>3. items = [k \in DOMAIN kept |-> FileItem(rows[kept[k]], kept[k] - 1)]
  BY DEF load_evidence_file
<1>4. \A i \in S : i \in DOMAIN rows /\ rows[i] # Mistyped
  OBVIOUS
<1> HIDE DEF S
<1>5. IsSequence(kept) /\ \A k \in DOMAIN kept : kept[k] \in S
  BY <1>2, AscendingFacts
<1>6. Len(kept) \in Nat /\ DOMAIN kept = 1 .. Len(kept)
  BY <1>5, SequenceFacts
<1> HIDE DEF kept, items
<1>7. IsSequence(items) /\ DOMAIN items = DOMAIN kept
  <2>1. DOMAIN items = 1 .. Len(kept)
    BY <1>3, <1>6
  <2>2. items = [k \in 1 .. Len(kept) |-> items[k]]
    BY <1>3, <1>6
  <2> QED BY <1>6, <2>1, <2>2, FunctionIsSequence
<1>8. ASSUME NEW k \in DOMAIN items
      PROVE  Sound(items[k])
  <2> DEFINE row == rows[kept[k]]
             untrusted == IsUntrusted(row)
             quality == IF row.quality \in {Absent, Null, Mistyped} THEN 50
                        ELSE Clamp(row.quality, 0, 100)
  <2>1. kept[k] \in DOMAIN rows /\ row # Mistyped
    BY <1>4, <1>5, <1>7
  <2>2. /\ row.quality \in {Absent, Null, Mistyped} \cup Int
        /\ ~IsUntrusted(row) =>
              /\ IsSequence(row.title) /\ IsSequence(row.text)
              /\ (Range(row.title) \cup Range(row.text)) \cap OutsideWords = {}
    BY <2>1, SourceAssumption DEF IsUntrusted
  <2>3. items[k] = FileItem(row, kept[k] - 1)
    BY <1>3, <1>7
  <2> HIDE DEF row
  <2>4. quality \in Int
    <3>1. ASSUME NEW q \in Int PROVE Clamp(q, 0, 100) \in Int
      <4> DEFINE none == 0
                 all == 100
      <4>1. none \in Int /\ all \in Int /\ none <= all
        OBVIOUS
      <4> HIDE DEF none, all
      <4>2. Clamp(q, none, all) \in none .. all
        BY <4>1, ClampIsBetween
      <4> QED BY <4>1, <4>2 DEF none, all
    <3> QED BY <2>2, <3>1
  <2>5. untrusted \in BOOLEAN
    BY DEF IsUntrusted
  <2>6. Sound(FileItem(row, kept[k] - 1))
    <3> HIDE DEF quality, untrusted
    <3>1. \A id, kind, value :
             Sound(EvidenceItem(id, kind, row.title, row.text, value, quality, untrusted))
      BY <2>2, <2>4, <2>5, ItemIsSound DEF untrusted
    <3> QED BY <3>1 DEF FileItem, quality, untrusted
  <2> QED BY <2>3, <2>6
<1>9. SoundList(items)
  BY <1>7, <1>8 DEF SoundList
<1> QED BY <1>9 DEF items

LEMMA FeedIsSound ==
    ASSUME NEW feed, NEW doc, IsSequence(doc), NEW limit \in Int
    PROVE  SoundList(FeedItems(feed, Symbol, doc, limit))
<1> DEFINE most == Clamp(limit, 0, MAX_ITEMS)
           entries == extract_feed_entries(doc, most)
           items == FeedItems(feed, Symbol, doc, limit)
<1>1. most \in Nat
  <2>1. MAX_ITEMS \in Nat
    BY CapAssumption
  <2>2. most \in 0 .. MAX_ITEMS
    BY <2>1, ClampIsBetween
  <2> QED BY <2>1, <2>2
<1>2. items = [i \in DOMAIN entries |-> entry_evidence(feed, i, Symbol, entries[i])]
  BY DEF FeedItems
<1> HIDE DEF most, items
<1>3. IsSequence(entries)
  <2>1. \A name : IsSequence(UpTo(most, extract_blocks(doc, name)))
    BY <1>1, BlocksAreAList, UpToFacts
  <2> QED BY <2>1 DEF extract_feed_entries
<1> HIDE DEF entries
<1>4. Len(entries) \in Nat /\ DOMAIN entries = 1 .. Len(entries)
  BY <1>3, SequenceFacts
<1>5. IsSequence(items) /\ DOMAIN items = DOMAIN entries
  <2>1. items = [i \in 1 .. Len(entries) |-> items[i]]
    BY <1>2, <1>4
  <2> QED BY <1>4, <2>1, FunctionIsSequence
<1>6. \A i \in DOMAIN items : Sound(items[i])
  BY <1>2, <1>5, OwnItemsAreSound
<1>7. SoundList(items)
  BY <1>5, <1>6 DEF SoundList
<1> QED BY <1>7 DEF items

-----------------------------------------------------------------------------
(* What is made of the evidence: a quality that is a number, and the        *)
(* identifiers, one for each item.                                         *)
LEMMA ShareIsWhole ==
    ASSUME NEW n \in Nat, NEW of \in Nat \ {0}
    PROVE  Share(n, of) \in Int
<1>1. (Whole * n) \div of \in Int /\ Whole \in Int
  BY DEF Whole
<1> DEFINE part == (Whole * n) \div of
<1> HIDE DEF part
<1>2. Min({Whole, part}) \in Int
  BY <1>1, MinMax DEF part
<1> QED BY <1>2 DEF Share, part

LEMMA QualityIsWhole ==
    ASSUME NEW quote, NEW bars \in Nat, NEW missing \in Nat, NEW items, SoundList(items)
    PROVE  DataQuality(quote, bars, missing, items) \in Int
<1> DEFINE points == [i \in DOMAIN items |-> items[i].quality * (Whole \div 100)]
           first == IF Midpoint2(quote) > 0 THEN Whole ELSE 0
           second == IF SpreadIsInfinite(quote) THEN 0 ELSE Whole
           third == Share(bars, Window(long_window) + 1)
           fourth == Whole - Share(missing, 6)
           basis == <<first, second, third, fourth>>
           AllWhole(s) == IsSequence(s) /\ \A i \in DOMAIN s : s[i] \in Int
<1>1. AllWhole(points)
  <2>1. Len(items) \in Nat /\ DOMAIN items = 1 .. Len(items)
    BY SequenceFacts DEF SoundList
  <2>2. points = [i \in 1 .. Len(items) |-> points[i]]
    BY <2>1
  <2>3. Whole \div 100 \in Int
    BY DEF Whole
  <2>4. \A i \in DOMAIN items : points[i] = items[i].quality * (Whole \div 100)
    OBVIOUS
  <2> HIDE DEF points
  <2>5. IsSequence(points) /\ DOMAIN points = 1 .. Len(items)
    BY <2>1, <2>2, FunctionIsSequence
  <2>6. ASSUME NEW i \in DOMAIN points PROVE points[i] \in Int
    <3>1. i \in DOMAIN items /\ items[i].quality \in Int
      BY <2>1, <2>5 DEF SoundList, Sound
    <3> DEFINE quality == items[i].quality
               weight == Whole \div 100
    <3>2. quality \in Int /\ weight \in Int
      BY <2>3, <3>1
    <3> HIDE DEF quality, weight
    <3>3. quality * weight \in Int
      BY <3>2
    <3> QED BY <2>4, <3>1, <3>3 DEF quality, weight
  <2> QED BY <2>5, <2>6
<1>2. AllWhole(basis)
  <2>1. first \in Int /\ second \in Int
    BY DEF Whole
  <2>2. Window(long_window) + 1 \in Nat \ {0}
    <3>1. long_window \in Int
      BY FeatureAssumption
    <3>2. Max({long_window, 0}) \in Nat
      BY <3>1, MinMax
    <3> QED BY <3>2 DEF Window
  <2>3. third \in Int
    <3> DEFINE of == Window(long_window) + 1
    <3> HIDE DEF of
    <3>1. Share(bars, of) \in Int
      BY <2>2, ShareIsWhole DEF of
    <3> QED BY <3>1 DEF of
  <2>4. fourth \in Int
    <3>1. Share(missing, 6) \in Int
      BY ShareIsWhole
    <3> QED BY <3>1 DEF Whole
  <2> HIDE DEF first, second, third, fourth
  <2>5. basis \in Seq(Int) /\ DOMAIN basis = 1 .. 4
    BY <2>1, <2>3, <2>4
  <2>6. basis[1] = first /\ basis[2] = second /\ basis[3] = third /\ basis[4] = fourth
    OBVIOUS
  <2> HIDE DEF basis
  <2>7. \A i \in 1 .. 4 : basis[i] \in Int
    BY <2>1, <2>3, <2>4, <2>6
  <2> QED BY <2>5, <2>7, SequenceFacts
<1>3. DataQuality(quote, bars, missing, items) =
        Mean(IF items = <<>> THEN basis ELSE Append(basis, Mean(points)))
  BY DEF DataQuality
<1> HIDE DEF points, basis
<1>4. Mean(basis) \in Int /\ Mean(points) \in Int
  BY <1>1, <1>2, MeanIsWhole
<1>5. Mean(Append(basis, Mean(points))) \in Int
  <2> DEFINE m == Mean(points)
             longer == Append(basis, m)
  <2>1. m \in Int
    BY <1>4
  <2> HIDE DEF m
  <2>2. IsSequence(longer) /\ \A i \in DOMAIN longer : (i \in DOMAIN basis /\ longer[i] = basis[i])
                                                       \/ longer[i] = m
    BY <1>2, OneAppended
  <2> HIDE DEF longer
  <2>3. \A i \in DOMAIN longer : longer[i] \in Int
    BY <1>2, <2>1, <2>2
  <2>4. Mean(longer) \in Int
    BY <2>2, <2>3, MeanIsWhole
  <2> QED BY <2>4 DEF longer, m
<1> QED BY <1>3, <1>4, <1>5

LEMMA FeatureFacts ==
    ASSUME NEW given, IsSequence(given.bars), SoundList(given.evidence)
    PROVE  /\ build_features(given).data_quality \in Int
           /\ IsSequence(build_features(given).evidence_ids)
           /\ Range(build_features(given).evidence_ids) =
                {given.evidence[i].evidence_id : i \in DOMAIN given.evidence}
<1> DEFINE items == given.evidence
           closes   == Closes(given.bars)
           returns  == Max({0, Len(closes) - 1})
           realized == IF returns >= 2 THEN Some(Realized(closes)) ELSE None
           ewma     == IF returns >= 1 THEN Some(Ewma(closes)) ELSE None
           short    == horizon_return(closes, short_window)
           long     == horizon_return(closes, long_window)
           known    == <<realized, ewma, short, long>>
           missing  == {i \in DOMAIN known : ~Given(known[i])}
           quality  == DataQuality(given.quote, Len(given.bars), Cardinality(missing), items)
           ids      == [i \in DOMAIN items |-> items[i].evidence_id]
           trend    == IF Given(short) /\ Given(realized)
                       THEN IF Value(realized) > 0
                            THEN Some(Trend(Value(short), Value(realized))) ELSE None
                       ELSE None
<1>1. build_features(given) =
        [quote |-> given.quote, realized |-> realized, ewma |-> ewma, short |-> short,
         long |-> long, trend |-> trend, volume_known |-> VolumesVary(given.bars),
         event_risk |-> EventRisk(items), evidence |-> Numbers(items), missing |-> missing,
         data_quality |-> quality, evidence_ids |-> ids]
  BY DEF build_features
<1>2. Cardinality(missing) \in Nat
  <2> HIDE DEF realized, ewma, short, long
  <2>1. missing \subseteq 1 .. 4
    OBVIOUS
  <2>2. IsFiniteSet(1 .. 4)
    <3> DEFINE lo == 1
               hi == 4
    <3>1. lo \in Int /\ hi \in Int
      OBVIOUS
    <3> HIDE DEF lo, hi
    <3>2. IsFiniteSet(lo .. hi)
      BY <3>1, FS_Interval
    <3> QED BY <3>2 DEF lo, hi
  <2> HIDE DEF missing
  <2>3. IsFiniteSet(missing)
    BY <2>1, <2>2, FS_Subset
  <2> QED BY <2>3, FS_CardinalityType
<1> HIDE DEF missing
<1>3. quality \in Int
  <2>1. Len(given.bars) \in Nat
    BY SequenceFacts
  <2> DEFINE n == Len(given.bars)
             m == Cardinality(missing)
             book_of == given.quote
  <2>2. n \in Nat /\ m \in Nat
    BY <1>2, <2>1
  <2>3. SoundList(items)
    OBVIOUS
  <2> HIDE DEF n, m, items, book_of
  <2>4. DataQuality(book_of, n, m, items) \in Int
    BY <2>2, <2>3, QualityIsWhole
  <2> QED BY <2>4 DEF n, m, book_of
<1>4. Len(items) \in Nat /\ DOMAIN items = 1 .. Len(items)
  BY SequenceFacts DEF SoundList
<1>5. IsSequence(ids) /\ Range(ids) = {items[i].evidence_id : i \in DOMAIN items}
  <2>1. ids = [i \in 1 .. Len(items) |-> ids[i]]
    BY <1>4
  <2>2. DOMAIN ids = DOMAIN items /\ \A i \in DOMAIN items : ids[i] = items[i].evidence_id
    OBVIOUS
  <2> HIDE DEF ids
  <2>3. IsSequence(ids)
    BY <1>4, <2>1, FunctionIsSequence
  <2> QED BY <2>2, <2>3 DEF Range
<1> HIDE DEF quality, ids, realized, ewma, short, long, trend
<1>6. build_features(given).data_quality = quality /\ build_features(given).evidence_ids = ids
  BY <1>1
<1> QED BY <1>3, <1>5, <1>6

(* The heuristic knows seven regimes and says one of them.                 *)
KeepsToSchema(a) ==
    /\ a.regime \in ALLOWED_REGIMES
    /\ a.confidence \in 0 .. Whole
    /\ a.hedge_urgency \in 0 .. 100
    /\ a.band_multiplier \in 50 .. 300
    /\ Len(a.evidence_ids) <= MaxList
    /\ Len(a.scenario_spot_shocks) \in 1 .. MaxShocks
    /\ \A i \in DOMAIN a.scenario_spot_shocks : a.scenario_spot_shocks[i] \in -30 .. 30

LEMMA HeuristicKeepsToSchema ==
    ASSUME NEW f, f.data_quality \in Int, IsSequence(f.evidence_ids)
    PROVE  /\ KeepsToSchema(heuristic(f))
           /\ heuristic(f).advisor_kind = "heuristic"
           /\ Range(heuristic(f).evidence_ids) \subseteq Range(f.evidence_ids)
<1> DEFINE signs == Signs(f)
           S == {i \in DOMAIN signs : signs[i].seen}
           sign == signs[Min(S)]
           sure == IF Given(rv(f)) THEN 90 ELSE 65
           ids == UpTo(MaxList, f.evidence_ids)
           level == (f.data_quality * sure) \div 100
           urgency == Min({Max({sign.urgency, Min({Gamma, 100})}), 100})
           shocks == <<-10, -5, 5, 10>>
           requests == IF Given(rv(f)) THEN <<>> ELSE <<"more bars">>
<1>1. heuristic(f) =
        [advisor_kind |-> "heuristic", regime |-> sign.regime,
         confidence |-> Clamp(level, 30, 570), hedge_urgency |-> urgency,
         band_multiplier |-> sign.band, evidence_ids |-> ids,
         scenario_spot_shocks |-> shocks, data_requests |-> requests]
  BY DEF heuristic
<1>2. /\ DOMAIN signs = 1 .. 7 /\ signs[7].seen
      /\ \A i \in 1 .. 7 : /\ signs[i].regime \in ALLOWED_REGIMES
                           /\ signs[i].band \in 50 .. 300
                           /\ signs[i].urgency \in 0 .. 100
  BY DEF Signs, ALLOWED_REGIMES
<1> HIDE DEF signs
<1>3. Min(S) \in 1 .. 7
  <2>1. S \subseteq 1 .. 7 /\ 7 \in S
    BY <1>2
  <2> HIDE DEF S
  <2>2. PICK least \in S : \A m \in S : least <= m
    BY <2>1, LeastNumber
  <2>3. Min(S) \in S
    BY <2>2 DEF Min
  <2> QED BY <2>1, <2>3
<1> HIDE DEF S
<1>4. sign.regime \in ALLOWED_REGIMES /\ sign.band \in 50 .. 300 /\ sign.urgency \in 0 .. 100
  BY <1>2, <1>3
<1> HIDE DEF sign
<1>5. Clamp(level, 30, 570) \in 0 .. Whole
  <2>1. level \in Int
    OBVIOUS
  <2> DEFINE lo == 30
             hi == 570
  <2>2. lo \in Int /\ hi \in Int /\ lo <= hi
    OBVIOUS
  <2> HIDE DEF level, lo, hi
  <2>3. Clamp(level, lo, hi) \in lo .. hi
    BY <2>1, <2>2, ClampIsBetween
  <2> QED BY <2>3 DEF Whole, lo, hi
<1>6. urgency \in 0 .. 100
  <2> DEFINE most == 100
             own == sign.urgency
             g == Min({Gamma, most})
             u == Max({own, g})
  <2>1. most \in Int /\ own \in Int /\ own >= 0 /\ Gamma \in Int
    BY <1>4, AdviceAssumption
  <2>2. most >= 0
    OBVIOUS
  <2> HIDE DEF most, own
  <2>3. g \in Int
    BY <2>1, MinMax
  <2> HIDE DEF g
  <2>4. u \in Int /\ u >= 0
    <3>1. u = IF own <= g THEN g ELSE own
      BY <2>1, <2>3, MinMax
    <3> HIDE DEF u
    <3> QED BY <2>1, <2>3, <3>1
  <2> HIDE DEF u
  <2>5. Min({u, most}) \in 0 .. most
    BY <2>1, <2>2, <2>4, MinMax
  <2> QED BY <2>5 DEF u, own, g, most
<1>7. Len(ids) <= MaxList /\ Range(ids) \subseteq Range(f.evidence_ids)
  <2>1. MaxList \in Nat
    BY AdviceAssumption
  <2> DEFINE all == f.evidence_ids
  <2>2. IsSequence(all)
    OBVIOUS
  <2> HIDE DEF all
  <2>3. Len(UpTo(MaxList, all)) <= MaxList
        /\ \A i \in DOMAIN UpTo(MaxList, all) : i \in DOMAIN all /\ UpTo(MaxList, all)[i] = all[i]
    BY <2>1, <2>2, UpToFacts
  <2>4. Range(UpTo(MaxList, all)) \subseteq Range(all)
    BY <2>3 DEF Range
  <2> QED BY <2>3, <2>4 DEF all
<1>8. Len(shocks) \in 1 .. MaxShocks /\ \A i \in DOMAIN shocks : shocks[i] \in -30 .. 30
  <2>1. Len(shocks) = 4 /\ \A i \in DOMAIN shocks : shocks[i] \in -30 .. 30
    OBVIOUS
  <2>2. MaxShocks \in Nat /\ MaxShocks >= 4
    BY AdviceAssumption
  <2> HIDE DEF shocks
  <2> QED BY <2>1, <2>2
<1> HIDE DEF ids, level, urgency, shocks, requests
<1>9. /\ heuristic(f).regime = sign.regime
      /\ heuristic(f).confidence = Clamp(level, 30, 570)
      /\ heuristic(f).hedge_urgency = urgency
      /\ heuristic(f).band_multiplier = sign.band
      /\ heuristic(f).evidence_ids = ids
      /\ heuristic(f).scenario_spot_shocks = shocks
      /\ heuristic(f).advisor_kind = "heuristic"
  BY <1>1
<1> QED BY <1>4, <1>5, <1>6, <1>7, <1>8, <1>9 DEF KeepsToSchema

(* And so does a model that is believed.                                   *)
LEMMA ModelKeepsToSchema ==
    ASSUME NEW answer, openai(answer) # None
    PROVE  /\ KeepsToSchema(Value(openai(answer)))
           /\ Value(openai(answer)).advisor_kind = "openai"
<1> DEFINE o == answer.object
           keys == (REQUIRED_KEYS \ {"summary", "risks"}) \cup {"advisor_kind"}
           a == [key \in keys |-> IF key = "advisor_kind" THEN "openai" ELSE o[key]]
<1>1. IsAssessment(o) /\ openai(answer) = Some(a)
  BY DEF openai
<1>2. Value(openai(answer)) = a
  BY <1>1 DEF Some, Value
<1>3. /\ a.advisor_kind = "openai" /\ a.regime = o["regime"] /\ a.confidence = o["confidence"]
      /\ a.hedge_urgency = o["hedge_urgency"] /\ a.band_multiplier = o["band_multiplier"]
      /\ a.evidence_ids = o["evidence_ids"]
      /\ a.scenario_spot_shocks = o["scenario_spot_shocks"]
  BY DEF REQUIRED_KEYS
<1> HIDE DEF o, a
<1>4. \A v, low, high : finite_number(v, low, high) => v \in low .. high
  BY DEF finite_number
<1>5. /\ o["confidence"] \in 0 .. Whole /\ o["hedge_urgency"] \in 0 .. 100
      /\ o["band_multiplier"] \in 50 .. 300 /\ o["regime"] \in ALLOWED_REGIMES
  BY <1>1, <1>4 DEF IsAssessment
<1>6. Len(o["evidence_ids"]) <= MaxList
  <2>1. string_list(o["evidence_ids"])
    BY <1>1 DEF IsAssessment
  <2> QED BY <2>1 DEF string_list
<1>7. /\ Len(o["scenario_spot_shocks"]) \in 1 .. MaxShocks
      /\ \A i \in DOMAIN o["scenario_spot_shocks"] : o["scenario_spot_shocks"][i] \in -30 .. 30
  BY <1>1, <1>4 DEF IsAssessment
<1> QED BY <1>2, <1>3, <1>5, <1>6, <1>7 DEF KeepsToSchema

-----------------------------------------------------------------------------
(* What a model is shown of the evidence.                                  *)
LEMMA PromptIsMarked ==
    ASSUME NEW items, SoundList(items), NEW f, NEW p, p = Prompt(items, f).evidence,
           NEW i \in DOMAIN p, ~ReportsFailure(p[i]),
           (Range(p[i].title) \cup Range(p[i].text)) \cap OutsideWords # {}
    PROVE  p[i].untrusted_text
<1> DEFINE shown == UpTo(max_evidence_items, items)
           item == items[i]
           text == UpTo(max_evidence_chars, item.text)
<1>1. max_evidence_items \in Nat /\ max_evidence_chars \in Nat
  BY AdviceAssumption
<1>2. \A k \in DOMAIN shown : k \in DOMAIN items /\ shown[k] = items[k]
  BY <1>1, UpToFacts DEF SoundList
<1>3. p = [k \in DOMAIN shown |->
              [shown[k] EXCEPT !.text = UpTo(max_evidence_chars, @)]]
  BY DEF Prompt
<1> HIDE DEF shown
<1>4. i \in DOMAIN items /\ p[i] = [item EXCEPT !.text = text]
  BY <1>2, <1>3
<1>5. Sound(item)
  BY <1>4 DEF SoundList
<1> HIDE DEF item, text
<1>6. /\ p[i].title = item.title /\ p[i].text = text
      /\ p[i].untrusted_text = item.untrusted_text
      /\ p[i].evidence_id = item.evidence_id
  BY <1>4, <1>5 DEF Sound
<1>7. ASSUME ~item.untrusted_text PROVE FALSE
  <2>1. /\ IsSequence(item.text)
        /\ (Range(item.title) \cup Range(item.text)) \cap OutsideWords = {}
    BY <1>5, <1>6, <1>7 DEF Sound, ReportsFailure
  <2> DEFINE whole == item.text
  <2>2. IsSequence(whole)
    BY <2>1
  <2> HIDE DEF whole
  <2>3. \A k \in DOMAIN UpTo(max_evidence_chars, whole) :
            k \in DOMAIN whole /\ UpTo(max_evidence_chars, whole)[k] = whole[k]
    BY <1>1, <2>2, UpToFacts
  <2>4. Range(text) \subseteq Range(item.text)
    BY <2>3 DEF Range, text, whole
  <2> QED BY <1>6, <2>1, <2>4
<1> QED BY <1>5, <1>6, <1>7 DEF Sound

-----------------------------------------------------------------------------
(* What holds of a recommendation on its way.                              *)
MarketIsSound(m) ==
    /\ m = Opening(m.quote, m.bars, m.evidence)
    /\ IsSequence(m.bars)
    /\ SoundList(m.evidence)

ObservationInv ==
    /\ file \in Files /\ connectors \in Connectors /\ asked \in Nat
    /\ at \in {"file", "fred", "rss", "features", "adviser", "model", "assessed"} =>
          MarketIsSound(market)
    /\ at \in {"adviser", "model", "assessed"} => features = build_features(market)
    /\ at # "assessed" => assessment = Nothing
    /\ UntrustedStaysMarked
    /\ AssessmentKeepsToSchema

LEMMA OpeningIsSound ==
    ASSUME NEW quote, NEW bars, IsSequence(bars), NEW items, SoundList(items)
    PROVE  MarketIsSound(Opening(quote, bars, items))
BY DEF MarketIsSound, Opening

LEMMA ObservationStarts == ObservationInit => ObservationInv
<1> SUFFICES ASSUME ObservationInit PROVE ObservationInv
  OBVIOUS
<1>1. at \in {"quote", "synthetic"}
  BY DEF ObservationInit
<1>2. UntrustedStaysMarked
  BY DEF ObservationInit, UntrustedStaysMarked, IsShown
<1>3. AssessmentKeepsToSchema
  BY DEF ObservationInit, AssessmentKeepsToSchema
<1> QED BY <1>1, <1>2, <1>3 DEF ObservationInit, ObservationInv

(* A step that leaves prompt and assessment alone.                         *)
LEMMA OtherStepsKeepObservation ==
    ASSUME ObservationInv, UNCHANGED <<file, connectors, prompt, assessment>>,
           at # "assessed", at' # "assessed", asked' \in Nat,
           at' \in {"file", "fred", "rss", "features", "adviser", "model"} =>
              MarketIsSound(market'),
           at' \in {"adviser", "model"} => features' = build_features(market')
    PROVE  ObservationInv'
<1>1. UntrustedStaysMarked'
  BY DEF ObservationInv, UntrustedStaysMarked, Written, IsShown
<1>2. assessment' = Nothing
  BY DEF ObservationInv
<1>3. AssessmentKeepsToSchema'
  BY <1>2 DEF AssessmentKeepsToSchema, Nothing
<1> QED BY <1>1, <1>2, <1>3 DEF ObservationInv

LEMMA GatheringIsSound ==
    ASSUME NEW items, SoundList(items), MarketIsSound(market), Gathers(items)
    PROVE  MarketIsSound(market')
<1> DEFINE evidence == market.evidence \o items
<1>1. market' = Opening(market.quote, market.bars, evidence)
  BY DEF Gathers, MarketIsSound, Opening
<1>2. SoundList(evidence) /\ IsSequence(market.bars)
  BY JoinedIsSound DEF MarketIsSound
<1> HIDE DEF evidence
<1> QED BY <1>1, <1>2, OpeningIsSound

LEMMA AskedSeriesIsOurs ==
    ASSUME ObservationInv, asked < Len(Series)
    PROVE  Series[asked + 1] \notin OutsideWords
<1> DEFINE list == connectors.fred.series
<1>1. IsSequence(list) /\ Range(list) \cap OutsideWords = {}
  BY SourceAssumption DEF ObservationInv
<1>2. MAX_SERIES \in Nat
  BY CapAssumption
<1>3. Series = UpTo(MAX_SERIES, list)
  BY DEF Series, capped
<1> HIDE DEF list
<1>4. /\ IsSequence(Series)
      /\ \A i \in DOMAIN Series : i \in DOMAIN list /\ Series[i] = list[i]
  BY <1>1, <1>2, <1>3, UpToFacts
<1>5. DOMAIN Series = 1 .. Len(Series) /\ Len(Series) \in Nat
  BY <1>4, SequenceFacts
<1>6. asked + 1 \in DOMAIN Series
  BY <1>5 DEF ObservationInv
<1> QED BY <1>1, <1>4, <1>6 DEF Range

LEMMA BarsAreAList ==
    ASSUME NEW rows, IsSequence(rows)
    PROVE  IsSequence(Else(parse_bars(Reverse(rows)), <<>>))
<1> DEFINE turned == Reverse(rows)
           places == Ascending({i \in DOMAIN turned : IsWhole(turned[i])}, Len(turned))
           bars == [k \in DOMAIN places |-> turned[places[k]]]
<1>1. Len(turned) \in Nat
  <2>1. Len(rows) \in Nat
    BY SequenceFacts
  <2>2. turned = [i \in 1 .. Len(rows) |-> turned[i]]
    BY DEF Reverse
  <2> HIDE DEF turned
  <2>3. Len(turned) = Len(rows)
    BY <2>1, <2>2, FunctionIsSequence
  <2> QED BY <2>1, <2>3
<1>2. parse_bars(turned) = IF \E i \in DOMAIN bars : bars[i].close = Mistyped THEN None
                           ELSE Some(bars)
  BY DEF parse_bars
<1> HIDE DEF turned
<1>3. IsSequence(places)
  BY <1>1, AscendingFacts
<1>4. Len(places) \in Nat /\ DOMAIN places = 1 .. Len(places)
  BY <1>3, SequenceFacts
<1> HIDE DEF places
<1>5. IsSequence(bars)
  <2>1. bars = [k \in 1 .. Len(places) |-> bars[k]]
    BY <1>4
  <2> HIDE DEF bars
  <2> QED BY <1>4, <2>1, FunctionIsSequence
<1> HIDE DEF bars
<1>6. IsSequence(Else(parse_bars(turned), <<>>))
  <2>1. CASE parse_bars(turned) = None
    <3>1. Else(parse_bars(turned), <<>>) = <<>>
      BY <2>1 DEF Else, Given
    <3> QED BY <3>1, EmptyIsSequence
  <2>2. CASE parse_bars(turned) # None
    <3>1. parse_bars(turned) = Some(bars)
      BY <1>2, <2>2
    <3>2. Else(parse_bars(turned), <<>>) = bars
      BY <2>2, <3>1 DEF Else, Given, Value, Some
    <3> QED BY <1>5, <3>2
  <2> QED BY <2>1, <2>2
<1> QED BY <1>6 DEF turned

LEMMA SnapshotKeepsObservation ==
    ASSUME ObservationInv,
           \/ \E step \in {"quote", "bars"} : SnapshotFails(step)
           \/ FetchQuote \/ FetchBars \/ ReadFile
    PROVE  ObservationInv'
<1>1. CASE \E step \in {"quote", "bars"} : SnapshotFails(step)
  BY <1>1, OtherStepsKeepObservation DEF SnapshotFails, Ends, ObservationInv
<1>2. CASE FetchQuote
  BY <1>2, OtherStepsKeepObservation DEF FetchQuote, Ends, ObservationInv
<1>3. CASE FetchBars
  <2>1. PICK rows \in BarPayloads, market_state \in {"open", "closed"} :
           LET bars == Else(parse_bars(Reverse(rows)), <<>>)
               last == Last(bars)
           IN  IF bars = <<>>
               THEN at' = "failed" /\ down' = down \cup {<<"bars", 0>>} /\ UNCHANGED market
               ELSE /\ at' = "file"
                    /\ market' = Opening(build_quote([book EXCEPT !.t = Given_or(@, last.t)],
                                                     last.close, market_state), bars, <<>>)
                    /\ UNCHANGED down
    BY <1>3 DEF FetchBars
  <2> DEFINE bars == Else(parse_bars(Reverse(rows)), <<>>)
             quote == build_quote([book EXCEPT !.t = Given_or(@, Last(bars).t)],
                                  Last(bars).close, market_state)
  <2>2. at' = "failed" \/ (at' = "file" /\ market' = Opening(quote, bars, <<>>))
    BY <2>1
  <2>3. IsSequence(bars)
    BY SourceAssumption, BarsAreAList
  <2> HIDE DEF bars, quote
  <2>4. SoundList(<<>>)
    BY EmptyIsSequence DEF SoundList
  <2>5. at' = "file" => MarketIsSound(market')
    BY <2>2, <2>3, <2>4, OpeningIsSound
  <2>6. UNCHANGED <<asked, file, connectors, prompt, assessment>> /\ at = "bars"
    BY <1>3 DEF FetchBars
  <2> QED BY <2>2, <2>5, <2>6, OtherStepsKeepObservation DEF ObservationInv
<1>4. CASE ReadFile
  <2>1. SoundList(load_evidence_file(file, Symbol))
    BY FileIsSound DEF ObservationInv
  <2>2. MarketIsSound(market')
    BY <1>4, <2>1, GatheringIsSound DEF ReadFile, ObservationInv
  <2> QED BY <1>4, <2>2, OtherStepsKeepObservation DEF ReadFile, ObservationInv
<1> QED BY <1>1, <1>2, <1>3, <1>4

LEMMA FredKeepsObservation ==
    ASSUME ObservationInv, SeriesFails \/ SeriesAnswers \/ FredEnds
    PROVE  ObservationInv'
<1>1. at = "fred" /\ MarketIsSound(market)
  BY DEF ObservationInv, SeriesFails, SeriesAnswers, AsksFred, FredEnds
<1>2. /\ at' \in {"fred", "rss"} /\ asked' \in Nat
      /\ UNCHANGED <<file, connectors, features, prompt, assessment>>
  BY <1>1 DEF ObservationInv, SeriesFails, SeriesAnswers, AsksFred, FredEnds
<1>3. CASE SeriesFails
  <2> DEFINE item == FredError(Series[asked + 1])
  <2>1. Sound(item)
    BY <1>3, AskedSeriesIsOurs, OwnItemsAreSound DEF SeriesFails, AsksFred
  <2>2. Gathers(<<item>>)
    BY <1>3 DEF SeriesFails
  <2> HIDE DEF item
  <2>3. MarketIsSound(market')
    BY <1>1, <2>1, <2>2, OneIsSound, GatheringIsSound
  <2> QED BY <1>1, <1>2, <2>3, OtherStepsKeepObservation
<1>4. CASE SeriesAnswers
  <2>1. PICK observation \in Observations :
           Gathers(<<observation_evidence(Series[asked + 1], observation)>>)
    BY <1>4 DEF SeriesAnswers
  <2> DEFINE item == observation_evidence(Series[asked + 1], observation)
  <2>2. Sound(item)
    BY <1>4, AskedSeriesIsOurs, OwnItemsAreSound DEF SeriesAnswers, AsksFred
  <2>3. Gathers(<<item>>)
    BY <2>1
  <2> HIDE DEF item
  <2>4. MarketIsSound(market')
    BY <1>1, <2>2, <2>3, OneIsSound, GatheringIsSound
  <2> QED BY <1>1, <1>2, <2>4, OtherStepsKeepObservation
<1>5. CASE FredEnds
  <2> DEFINE items == IF connectors.fred.enabled /\ ~connectors.fred.has_key
                      THEN <<missing_key_evidence>> ELSE <<>>
  <2>1. SoundList(items)
    <3>1. SoundList(<<missing_key_evidence>>)
      BY OwnItemsAreSound, OneIsSound
    <3>2. SoundList(<<>>)
      BY EmptyIsSequence DEF SoundList
    <3> QED BY <3>1, <3>2
  <2>2. Gathers(items)
    BY <1>5 DEF FredEnds
  <2> HIDE DEF items
  <2>3. MarketIsSound(market')
    BY <1>1, <2>1, <2>2, GatheringIsSound
  <2> QED BY <1>1, <1>2, <2>3, OtherStepsKeepObservation
<1> QED BY <1>3, <1>4, <1>5

LEMMA FeedsKeepObservation ==
    ASSUME ObservationInv, FeedFails \/ FeedAnswers \/ RssEnds
    PROVE  ObservationInv'
<1>1. at = "rss" /\ MarketIsSound(market)
  BY DEF ObservationInv, FeedFails, FeedAnswers, AsksFeed, RssEnds
<1>2. /\ at' \in {"rss", "features"} /\ asked' \in Nat
      /\ UNCHANGED <<file, connectors, features, prompt, assessment>>
  BY <1>1 DEF ObservationInv, FeedFails, FeedAnswers, AsksFeed, RssEnds
<1>3. CASE FeedFails
  <2> DEFINE item == FeedError(asked + 1)
  <2>1. Sound(item)
    BY OwnItemsAreSound
  <2>2. Gathers(<<item>>)
    BY <1>3 DEF FeedFails
  <2> HIDE DEF item
  <2>3. MarketIsSound(market')
    BY <1>1, <2>1, <2>2, OneIsSound, GatheringIsSound
  <2> QED BY <1>1, <1>2, <2>3, OtherStepsKeepObservation
<1>4. CASE FeedAnswers
  <2>1. PICK document \in Documents :
           Gathers(FeedItems(asked + 1, Symbol, document.text, connectors.rss.max_items_per_feed))
    BY <1>4 DEF FeedAnswers
  <2> DEFINE text == document.text
             limit == connectors.rss.max_items_per_feed
             items == FeedItems(asked + 1, Symbol, text, limit)
  <2>2. IsSequence(text) /\ limit \in Int
    BY SourceAssumption DEF ObservationInv
  <2>3. SoundList(items)
    <3> HIDE DEF text, limit
    <3> QED BY <2>2, FeedIsSound
  <2>4. Gathers(items)
    BY <2>1
  <2> HIDE DEF items
  <2>5. MarketIsSound(market')
    BY <1>1, <2>3, <2>4, GatheringIsSound
  <2> QED BY <1>1, <1>2, <2>5, OtherStepsKeepObservation
<1>5. CASE RssEnds
  <2>1. MarketIsSound(market')
    BY <1>1, <1>5 DEF RssEnds
  <2> QED BY <1>1, <1>2, <2>1, OtherStepsKeepObservation
<1> QED BY <1>3, <1>4, <1>5

LEMMA SyntheticKeepsObservation ==
    ASSUME ObservationInv, Synthesize
    PROVE  ObservationInv'
<1> DEFINE Quote(last) == [bid |-> last - 1, ask |-> last + 1, last |-> last, time |-> 0,
                           market_state |-> "open"]
           First1(closes, bucket) ==
              EvidenceItem(<<"synthetic-rv", bucket>>, "option_metric", <<"realized volatility">>,
                           <<>>, Realized(closes), 100, FALSE)
           Second(bucket) ==
              EvidenceItem(<<"synthetic-event", bucket>>, "event", <<"event-risk flag">>, <<>>,
                           IF bucket % EventPeriod = 0 THEN True ELSE False, 100, FALSE)
           Bars(closes) == [i \in DOMAIN closes |-> [close |-> closes[i], volume |-> i, t |-> 0]]
<1>1. PICK closes \in Walks, bucket \in Buckets :
         market' = Opening(Quote(Last(closes)), Bars(closes),
                           <<First1(closes, bucket), Second(bucket)>>
                           \o load_evidence_file(file, Symbol))
  BY DEF Synthesize
<1> DEFINE quote == Quote(Last(closes))
           bars == Bars(closes)
           one == First1(closes, bucket)
           two == Second(bucket)
           own == <<one, two>>
           rows == load_evidence_file(file, Symbol)
<1>2. IsSequence(bars)
  <2>1. IsSequence(closes)
    BY SourceAssumption
  <2>2. Len(closes) \in Nat /\ DOMAIN closes = 1 .. Len(closes)
    BY <2>1, SequenceFacts
  <2>3. bars = [i \in 1 .. Len(closes) |-> bars[i]]
    BY <2>2
  <2> HIDE DEF bars
  <2> QED BY <2>2, <2>3, FunctionIsSequence
<1>3. Sound(one) /\ Sound(two)
  <2>1. "realized volatility" \notin OutsideWords /\ "event-risk flag" \notin OutsideWords
    BY SourceAssumption
  <2> DEFINE t1 == <<"realized volatility">>
             t2 == <<"event-risk flag">>
             t0 == <<>>
             id1 == <<"synthetic-rv", bucket>>
             id2 == <<"synthetic-event", bucket>>
             v1 == Realized(closes)
             v2 == IF bucket % EventPeriod = 0 THEN True ELSE False
  <2>2. /\ (Range(t1) \cup Range(t0)) \cap OutsideWords = {} /\ IsSequence(t0)
        /\ (Range(t2) \cup Range(t0)) \cap OutsideWords = {}
    <3>1. /\ Range(t1) = {"realized volatility"} /\ Range(t2) = {"event-risk flag"}
          /\ Range(t0) = {} /\ IsSequence(t0)
      BY ShortSequences
    <3> QED BY <2>1, <3>1
  <2>3. Sound(EvidenceItem(id1, "option_metric", t1, t0, v1, 100, FALSE))
    <3> HIDE DEF t1, t2, t0, id1, id2, v1, v2
    <3> QED BY <2>2 DEF Sound, EvidenceItem
  <2>4. Sound(EvidenceItem(id2, "event", t2, t0, v2, 100, FALSE))
    <3> HIDE DEF t1, t2, t0, id1, id2, v1, v2
    <3> QED BY <2>2 DEF Sound, EvidenceItem
  <2> QED BY <2>3, <2>4
<1>4. SoundList(own)
  <2> HIDE DEF one, two
  <2>1. IsSequence(own) /\ DOMAIN own = {1, 2} /\ own[1] = one /\ own[2] = two
    BY ShortSequences
  <2> HIDE DEF own
  <2> QED BY <1>3, <2>1 DEF SoundList
<1>5. SoundList(rows)
  BY FileIsSound DEF ObservationInv
<1> DEFINE items == own \o rows
<1>6. SoundList(items)
  <2> HIDE DEF own, rows
  <2> QED BY <1>4, <1>5, JoinedIsSound
<1>7. market' = Opening(quote, bars, items)
  BY <1>1
<1> HIDE DEF quote, bars, items
<1>8. MarketIsSound(market')
  BY <1>2, <1>6, <1>7, OpeningIsSound
<1>9. /\ at = "synthetic" /\ at' = "features"
      /\ UNCHANGED <<asked, file, connectors, prompt, assessment>>
  BY DEF Synthesize
<1> QED BY <1>8, <1>9, OtherStepsKeepObservation DEF ObservationInv

LEMMA FeaturesKeepObservation ==
    ASSUME ObservationInv, BuildFeatures
    PROVE  ObservationInv'
<1>1. at = "features" /\ MarketIsSound(market)
  BY DEF ObservationInv, BuildFeatures
<1>2. MarketIsSound(market') /\ features' = build_features(market')
  BY <1>1 DEF BuildFeatures
<1>3. /\ at' = "adviser" /\ asked' \in Nat
      /\ UNCHANGED <<file, connectors, prompt, assessment>>
  BY DEF BuildFeatures, ObservationInv
<1> QED BY <1>1, <1>2, <1>3, OtherStepsKeepObservation

LEMMA AskingKeepsObservation ==
    ASSUME ObservationInv, AskModel
    PROVE  ObservationInv'
<1>1. /\ MarketIsSound(market) /\ at = "adviser" /\ at' = "model"
      /\ features = build_features(market) /\ assessment = Nothing
      /\ UNCHANGED <<market, asked, file, connectors, features, assessment>>
      /\ prompt' = Prompt(market.evidence, features)
  BY DEF ObservationInv, AskModel
<1>2. MarketIsSound(market') /\ features' = build_features(market')
  BY <1>1
<1>3. UntrustedStaysMarked'
  <2> DEFINE p == prompt'.evidence
  <2>1. p = Prompt(market.evidence, features).evidence /\ SoundList(market.evidence)
    BY <1>1 DEF MarketIsSound
  <2>2. ASSUME NEW i \in DOMAIN p, ~ReportsFailure(p[i]),
               (Range(p[i].title) \cup Range(p[i].text)) \cap OutsideWords # {}
        PROVE  p[i].untrusted_text
    <3> HIDE DEF p
    <3> QED BY <2>1, <2>2, PromptIsMarked
  <2> QED BY <2>2 DEF UntrustedStaysMarked, Written
<1>4. AssessmentKeepsToSchema'
  BY <1>1 DEF AssessmentKeepsToSchema, Nothing
<1> QED BY <1>1, <1>2, <1>3, <1>4 DEF ObservationInv, Nothing

(* An assessment that keeps to the schema, of what is there.               *)
LEMMA AssessingKeepsObservation ==
    ASSUME ObservationInv, at \in {"adviser", "model"}, at' = "assessed",
           UNCHANGED <<market, asked, file, connectors, features, prompt>>,
           KeepsToSchema(assessment'),
           assessment'.advisor_kind = "heuristic" =>
              Range(assessment'.evidence_ids) \subseteq Range(features.evidence_ids)
    PROVE  ObservationInv'
<1>1. MarketIsSound(market) /\ features = build_features(market)
  BY DEF ObservationInv
<1>2. Range(features.evidence_ids) =
        {market.evidence[i].evidence_id : i \in DOMAIN market.evidence}
  BY <1>1, FeatureFacts DEF MarketIsSound
<1>3. MarketIsSound(market') /\ features' = build_features(market')
  BY <1>1
<1>4. UntrustedStaysMarked'
  BY DEF ObservationInv, UntrustedStaysMarked, Written, IsShown
<1>5. AssessmentKeepsToSchema'
  <2>1. KeepsToSchema(assessment') => AssessmentKeepsToSchema'
    BY <1>2 DEF AssessmentKeepsToSchema, KeepsToSchema, ALLOWED_REGIMES, Whole
  <2> QED BY <2>1
<1> QED BY <1>3, <1>4, <1>5 DEF ObservationInv

LEMMA HeuristicIsRight ==
    ASSUME ObservationInv, at \in {"adviser", "model"}
    PROVE  /\ KeepsToSchema(heuristic(features))
           /\ Range(heuristic(features).evidence_ids) \subseteq Range(features.evidence_ids)
<1>1. MarketIsSound(market) /\ features = build_features(market)
  BY DEF ObservationInv
<1>2. features.data_quality \in Int /\ IsSequence(features.evidence_ids)
  BY <1>1, FeatureFacts DEF MarketIsSound
<1> QED BY <1>2, HeuristicKeepsToSchema

LEMMA AdviceKeepsObservation ==
    ASSUME ObservationInv, HeuristicAssesses \/ ModelAnswers
    PROVE  ObservationInv'
<1>1. CASE HeuristicAssesses
  <2>1. /\ at = "adviser" /\ at' = "assessed" /\ assessment' = heuristic(features)
        /\ UNCHANGED <<market, asked, file, connectors, features, prompt>>
    BY <1>1 DEF HeuristicAssesses
  <2> QED BY <2>1, HeuristicIsRight, AssessingKeepsObservation
<1>2. CASE ModelAnswers
  <2>1. PICK answer \in Answers :
           IF openai(answer) = None /\ ~connectors.fallback_to_heuristic
           THEN at' = "failed" /\ UNCHANGED assessment
           ELSE at' = "assessed" /\ assessment' = Else(openai(answer), heuristic(features))
    BY <1>2 DEF ModelAnswers
  <2>2. /\ at = "model"
        /\ UNCHANGED <<market, asked, file, connectors, features, prompt>>
    BY <1>2 DEF ModelAnswers
  <2>3. CASE at' = "failed"
    <3>1. assessment' = assessment
      BY <2>1, <2>3
    <3> QED BY <2>2, <2>3, <3>1, OtherStepsKeepObservation DEF ObservationInv
  <2>4. CASE at' = "assessed" /\ openai(answer) = None
    <3>1. assessment' = heuristic(features)
      BY <2>1, <2>4 DEF Else, Given
    <3> QED BY <2>2, <2>4, <3>1, HeuristicIsRight, AssessingKeepsObservation
  <2>5. CASE at' = "assessed" /\ openai(answer) # None
    <3>1. assessment' = Value(openai(answer))
      BY <2>1, <2>5 DEF Else, Given
    <3>2. KeepsToSchema(assessment') /\ assessment'.advisor_kind = "openai"
      BY <2>5, <3>1, ModelKeepsToSchema
    <3> QED BY <2>2, <2>5, <3>2, AssessingKeepsObservation
  <2> QED BY <2>1, <2>3, <2>4, <2>5
<1> QED BY <1>1, <1>2

LEMMA ObservationStays == ObservationInv /\ [ObservationNext]_observationVars => ObservationInv'
<1> SUFFICES ASSUME ObservationInv, [ObservationNext]_observationVars
             PROVE  ObservationInv'
  OBVIOUS
<1>1. CASE UNCHANGED observationVars
  BY <1>1 DEF observationVars, ObservationInv, UntrustedStaysMarked, Written, IsShown,
              AssessmentKeepsToSchema
<1>2. CASE \/ \E step \in {"quote", "bars"} : SnapshotFails(step)
           \/ FetchQuote \/ FetchBars \/ ReadFile
  BY <1>2, SnapshotKeepsObservation
<1>3. CASE SeriesFails \/ SeriesAnswers \/ FredEnds
  BY <1>3, FredKeepsObservation
<1>4. CASE FeedFails \/ FeedAnswers \/ RssEnds
  BY <1>4, FeedsKeepObservation
<1>5. CASE Synthesize
  BY <1>5, SyntheticKeepsObservation
<1>6. CASE BuildFeatures
  BY <1>6, FeaturesKeepObservation
<1>7. CASE AskModel
  BY <1>7, AskingKeepsObservation
<1>8. CASE HeuristicAssesses \/ ModelAnswers
  BY <1>8, AdviceKeepsObservation
<1> QED BY <1>1, <1>2, <1>3, <1>4, <1>5, <1>6, <1>7, <1>8 DEF ObservationNext

(* LLR-060: whatever feeds, evidence file and services hold, of the items   *)
(* of evidence a model is shown, one that has words of somebody nobody     *)
(* vouched for is marked as untrusted, or is the report of a failed        *)
(* request.                                                                *)
THEOREM OutsidersStayMarked == ObservationSpec => []UntrustedStaysMarked
<1>1. ObservationInv => UntrustedStaysMarked
  BY DEF ObservationInv
<1> QED BY <1>1, ObservationStarts, ObservationStays, PTL DEF ObservationSpec

(* LLR-052 to LLR-055: the assessment that is used keeps to the schema,    *)
(* whatever a model answers, whatever is missing of the market and whatever *)
(* rows of the evidence file claim of their quality; the heuristic cites    *)
(* only what is there.                                                     *)
THEOREM AssessmentsKeepToSchema == ObservationSpec => []AssessmentKeepsToSchema
<1>1. ObservationInv => AssessmentKeepsToSchema
  BY DEF ObservationInv
<1> QED BY <1>1, ObservationStarts, ObservationStays, PTL DEF ObservationSpec

-----------------------------------------------------------------------------
(* Lists one behind the other, and the parts of what they make.            *)
LEMMA InOneSet ==
    ASSUME NEW a, NEW b, NEW c, IsSequence(a), IsSequence(b), IsSequence(c)
    PROVE  \E S : a \in Seq(S) /\ b \in Seq(S) /\ c \in Seq(S)
<1> DEFINE S == Range(a) \cup Range(b) \cup Range(c)
<1>1. Range(a) \subseteq S /\ Range(b) \subseteq S /\ Range(c) \subseteq S
  OBVIOUS
<1> HIDE DEF S
<1>2. a \in Seq(S) /\ b \in Seq(S) /\ c \in Seq(S)
  BY <1>1, SeqMonotonic DEF IsSequence
<1> QED BY <1>2

LEMMA JoinedTwice ==
    \A a, b, c : IsSequence(a) /\ IsSequence(b) /\ IsSequence(c)
                 => (a \o b) \o c = a \o (b \o c)
<1> SUFFICES ASSUME NEW a, NEW b, NEW c, IsSequence(a), IsSequence(b), IsSequence(c)
             PROVE  (a \o b) \o c = a \o (b \o c)
  OBVIOUS
<1>1. PICK S : a \in Seq(S) /\ b \in Seq(S) /\ c \in Seq(S)
  BY InOneSet
<1> QED BY <1>1, ConcatAssociative

LEMMA JoinedToNothing ==
    ASSUME NEW a, IsSequence(a)
    PROVE  a \o <<>> = a /\ <<>> \o a = a
BY ConcatEmptySeq DEF IsSequence

LEMMA NoLength ==
    ASSUME NEW a, IsSequence(a), Len(a) = 0
    PROVE  a = <<>>
BY EmptySeq DEF IsSequence

(* The second and the third of three lists lie where their lengths say.    *)
LaidOut(a, b, c) ==
    LET abc == (a \o b) \o c
    IN  /\ Len(abc) >= Len(a) + Len(b)
        /\ SubSeq(abc, Len(a) + 1, Len(a) + Len(b)) = b
        /\ SubSeq(abc, Len(a) + Len(b) + 1, Len(abc)) = c

LEMMA PartsOfJoined ==
    ASSUME NEW a, NEW b, NEW c, IsSequence(a), IsSequence(b), IsSequence(c)
    PROVE  LaidOut(a, b, c)
<1>1. PICK S : a \in Seq(S) /\ b \in Seq(S) /\ c \in Seq(S)
  BY InOneSet
<1> DEFINE ab == a \o b
           abc == ab \o c
           m == Len(a)
           n == Len(b)
           k == Len(c)
<1>2. m \in Nat /\ n \in Nat /\ k \in Nat
  BY SequenceFacts
<1>3. /\ ab \in Seq(S) /\ Len(ab) = m + n
      /\ \A i \in 1 .. m + n : ab[i] = IF i <= m THEN a[i] ELSE b[i - m]
  BY <1>1, ConcatProperties
<1> HIDE DEF ab
<1>4. /\ abc \in Seq(S) /\ Len(abc) = m + n + k
      /\ \A i \in 1 .. m + n + k : abc[i] = IF i <= m + n THEN ab[i] ELSE c[i - (m + n)]
  <2>1. /\ abc \in Seq(S) /\ Len(abc) = Len(ab) + k
        /\ \A i \in 1 .. Len(ab) + k : abc[i] = IF i <= Len(ab) THEN ab[i] ELSE c[i - Len(ab)]
    <3>1. ab \in Seq(S) /\ c \in Seq(S)
      BY <1>1, <1>3
    <3> QED BY <3>1, ConcatProperties
  <2>2. Len(ab) = m + n
    BY <1>3
  <2> HIDE DEF abc, m, n, k
  <2> QED BY <2>1, <2>2
<1> DEFINE middle == SubSeq(abc, m + 1, m + n)
           end == SubSeq(abc, m + n + 1, Len(abc))
<1> HIDE DEF abc
<1>5. \A i \in 1 .. m + n + k : abc[i] \in S
  BY <1>2, <1>4, ElementOfSeq
<1> HIDE DEF m, n, k
<1>6. ASSUME NEW from \in Nat, NEW to \in Nat, 1 <= from, to <= m + n + k, from <= to + 1
      PROVE  /\ SubSeq(abc, from, to) \in Seq(S)
             /\ Len(SubSeq(abc, from, to)) = to - from + 1
             /\ \A i \in 1 .. to - from + 1 : SubSeq(abc, from, to)[i] = abc[from + i - 1]
  <2>1. \A i \in from .. to : abc[i] \in S
    BY <1>2, <1>5, <1>6
  <2>2. /\ SubSeq(abc, from, to) \in Seq(S)
        /\ Len(SubSeq(abc, from, to)) = IF from <= to THEN to - from + 1 ELSE 0
        /\ \A i \in 1 .. to - from + 1 : SubSeq(abc, from, to)[i] = abc[from + i - 1]
    BY <2>1, SubSeqProperties
  <2>3. from <= to \/ to - from + 1 = 0
    BY <1>6
  <2> QED BY <2>2, <2>3
<1>7. /\ middle \in Seq(S) /\ Len(middle) = n
      /\ \A i \in 1 .. n : middle[i] = abc[m + i]
  <2> DEFINE from == m + 1
             to == m + n
  <2>1. /\ from \in Nat /\ to \in Nat /\ 1 <= from /\ to <= m + n + k /\ from <= to + 1
        /\ to - from + 1 = n /\ \A i \in 1 .. n : from + i - 1 = m + i
    BY <1>2
  <2>2. middle = SubSeq(abc, from, to)
    OBVIOUS
  <2> HIDE DEF from, to, middle
  <2> QED BY <1>6, <2>1, <2>2
<1>8. /\ end \in Seq(S) /\ Len(end) = k
      /\ \A i \in 1 .. k : end[i] = abc[m + n + i]
  <2> DEFINE from == m + n + 1
             to == m + n + k
  <2>1. /\ from \in Nat /\ to \in Nat /\ 1 <= from /\ to <= m + n + k /\ from <= to + 1
        /\ to - from + 1 = k /\ \A i \in 1 .. k : from + i - 1 = m + n + i
    BY <1>2
  <2>2. end = SubSeq(abc, from, to)
    BY <1>4
  <2> HIDE DEF from, to, end
  <2> QED BY <1>6, <2>1, <2>2
<1> HIDE DEF middle, end
<1>9. middle = b
  <2>1. Len(middle) = n /\ Len(b) = n
    BY <1>7 DEF n
  <2>2. ASSUME NEW i \in 1 .. n PROVE middle[i] = b[i]
    <3>1. abc[m + i] = ab[m + i]
      BY <1>2, <1>4
    <3>2. ab[m + i] = b[(m + i) - m] /\ (m + i) - m = i
      BY <1>2, <1>3
    <3> QED BY <1>7, <3>1, <3>2
  <2> QED BY <1>1, <1>7, <2>1, <2>2, SeqEqual
<1>10. end = c
  <2>1. Len(end) = k /\ Len(c) = k
    BY <1>8 DEF k
  <2>2. ASSUME NEW i \in 1 .. k PROVE end[i] = c[i]
    <3>1. abc[m + n + i] = c[(m + n + i) - (m + n)] /\ (m + n + i) - (m + n) = i
      BY <1>2, <1>4
    <3> QED BY <1>8, <3>1
  <2> QED BY <1>1, <1>8, <2>1, <2>2, SeqEqual
<1>11. Len(abc) >= m + n
  BY <1>2, <1>4
<1> QED BY <1>9, <1>10, <1>11 DEF LaidOut, middle, end, abc, ab, m, n

(* What FlattenSeq computes, up to each of the lists.                      *)
LEMMA FlattenedSoFar ==
    ASSUME NEW ss, IsSequence(ss), Len(ss) # 0
    PROVE  \E flat : /\ FlattenSeq(ss) = flat[Len(ss)]
                     /\ flat[1] = ss[1]
                     /\ \A i \in 2 .. Len(ss) : flat[i] = flat[i - 1] \o ss[i]
<1> DEFINE n == Len(ss)
           UpTo1(flat, i) == IF i = 1 THEN ss[i] ELSE flat[i - 1] \o ss[i]
           Defined(m) == \E flat : flat = [i \in 1 .. m |-> UpTo1(flat, i)]
<1>1. n \in Nat /\ n # 0
  BY SequenceFacts
<1>2. FlattenSeq(ss) = (CHOOSE flat : flat = [i \in 1 .. n |-> UpTo1(flat, i)])[n]
  BY DEF FlattenSeq
<1> HIDE DEF n
<1>3. Defined(0)
  <2> DEFINE none == [i \in 1 .. 0 |-> ss[i]]
  <2>1. none = [i \in 1 .. 0 |-> UpTo1(none, i)]
    OBVIOUS
  <2> QED BY <2>1
<1>4. ASSUME NEW m \in Nat, Defined(m)
      PROVE  Defined(m + 1)
  <2>1. PICK flat : flat = [i \in 1 .. m |-> UpTo1(flat, i)]
    BY <1>4
  <2> DEFINE longer == [i \in 1 .. m + 1 |-> IF i <= m THEN flat[i] ELSE UpTo1(flat, i)]
  <2>2. ASSUME NEW i \in 1 .. m + 1
        PROVE  longer[i] = UpTo1(longer, i)
    <3>1. i # 1 => longer[i - 1] = flat[i - 1]
      OBVIOUS
    <3>2. longer[i] = IF i <= m THEN flat[i] ELSE UpTo1(flat, i)
      OBVIOUS
    <3> HIDE DEF longer
    <3>3. UpTo1(longer, i) = UpTo1(flat, i)
      BY <3>1
    <3> HIDE DEF UpTo1
    <3>4. ASSUME i <= m PROVE flat[i] = UpTo1(flat, i)
      <4>1. i \in 1 .. m
        BY <3>4
      <4> QED BY ONLY <2>1, <4>1
    <3> QED BY <3>2, <3>3, <3>4
  <2>3. longer = [i \in 1 .. m + 1 |-> UpTo1(longer, i)]
    BY <2>2
  <2> HIDE DEF longer
  <2> QED BY <2>3
<1>5. Defined(n)
  <2> DEFINE Missing == {m \in Nat : ~Defined(m)}
  <2>1. ASSUME Missing # {} PROVE FALSE
    <3>1. PICK least \in Missing : \A m \in Missing : least <= m
      BY <2>1, LeastNumber
    <3> HIDE DEF Defined
    <3>2. least # 0 /\ least - 1 \in Nat
      BY <1>3
    <3>3. Defined(least - 1)
      BY <3>1, <3>2
    <3> QED BY <1>4, <3>2, <3>3
  <2> HIDE DEF Defined
  <2> QED BY <1>1, <2>1
<1> DEFINE flat == CHOOSE flat : flat = [i \in 1 .. n |-> UpTo1(flat, i)]
<1>6. flat = [i \in 1 .. n |-> UpTo1(flat, i)]
  BY <1>5
<1>7. FlattenSeq(ss) = flat[n]
  BY <1>2
<1> HIDE DEF flat
<1>8. \A i \in 1 .. n : flat[i] = UpTo1(flat, i)
  <2> HIDE DEF UpTo1
  <2> QED BY ONLY <1>6
<1>9. flat[1] = ss[1]
  <2>1. 1 \in 1 .. n
    BY <1>1
  <2> QED BY <1>8, <2>1
<1>10. ASSUME NEW i \in 2 .. n PROVE flat[i] = flat[i - 1] \o ss[i]
  <2>1. i \in 1 .. n /\ i # 1
    BY <1>1
  <2> QED BY <1>8, <2>1
<1> QED BY <1>7, <1>9, <1>10 DEF n

LEMMA FlattenedIsAList ==
    ASSUME NEW ss, IsSequence(ss), \A i \in DOMAIN ss : IsSequence(ss[i])
    PROVE  IsSequence(FlattenSeq(ss))
<1> DEFINE n == Len(ss)
<1>1. n \in Nat /\ DOMAIN ss = 1 .. n
  BY SequenceFacts
<1>2. CASE n = 0
  <2>1. FlattenSeq(ss) = ss
    BY <1>2 DEF FlattenSeq
  <2> QED BY <2>1
<1>3. CASE n # 0
  <2>1. PICK flat : /\ FlattenSeq(ss) = flat[n]
                    /\ flat[1] = ss[1]
                    /\ \A i \in 2 .. n : flat[i] = flat[i - 1] \o ss[i]
    BY <1>3, FlattenedSoFar
  <2> HIDE DEF n
  <2> DEFINE Wrong == {i \in 1 .. n : ~IsSequence(flat[i])}
  <2>2. ASSUME Wrong # {} PROVE FALSE
    <3>0. Wrong \subseteq Nat
      BY <1>1
    <3> HIDE DEF Wrong
    <3>1. PICK least \in Wrong : \A i \in Wrong : least <= i
      BY <2>2, <3>0, LeastNumber
    <3> USE DEF Wrong
    <3>2. least \in 2 .. n /\ least - 1 \in 1 .. n
      BY <1>1, <1>3, <2>1
    <3>3. IsSequence(flat[least - 1]) /\ IsSequence(ss[least])
      BY <1>1, <3>1, <3>2
    <3>4. IsSequence(flat[least - 1] \o ss[least])
      BY <3>3, JoinedSequences
    <3> QED BY <2>1, <3>2, <3>4
  <2>3. n \in 1 .. n
    BY <1>1, <1>3
  <2> QED BY <2>1, <2>2, <2>3
<1> QED BY <1>2, <1>3

LEMMA OneMoreFlattened ==
    ASSUME NEW ss, NEW tt, IsSequence(ss), IsSequence(tt), Len(tt) = Len(ss) + 1,
           \A i \in 1 .. Len(ss) : tt[i] = ss[i],
           IsSequence(tt[Len(tt)])
    PROVE  FlattenSeq(tt) = FlattenSeq(ss) \o tt[Len(tt)]
<1> DEFINE n == Len(ss)
           m == Len(tt)
<1>1. n \in Nat /\ m = n + 1
  BY SequenceFacts
<1>2. PICK g : /\ FlattenSeq(tt) = g[m]
               /\ g[1] = tt[1]
               /\ \A i \in 2 .. m : g[i] = g[i - 1] \o tt[i]
  <2>1. m # 0
    BY <1>1
  <2> QED BY <2>1, FlattenedSoFar
<1>3. CASE n = 0
  <2>1. FlattenSeq(ss) = <<>>
    <3>1. FlattenSeq(ss) = ss
      BY <1>3 DEF FlattenSeq
    <3> QED BY <1>3, <3>1, NoLength
  <2>2. FlattenSeq(tt) = tt[m]
    BY <1>1, <1>2, <1>3
  <2> QED BY <2>1, <2>2, JoinedToNothing
<1>4. CASE n # 0
  <2>1. PICK f : /\ FlattenSeq(ss) = f[n]
                 /\ f[1] = ss[1]
                 /\ \A i \in 2 .. n : f[i] = f[i - 1] \o ss[i]
    BY <1>4, FlattenedSoFar
  <2>2. \A i \in 1 .. n : tt[i] = ss[i]
    OBVIOUS
  <2> HIDE DEF n, m
  <2> DEFINE Wrong == {i \in 1 .. n : g[i] # f[i]}
  <2>3. ASSUME Wrong # {} PROVE FALSE
    <3>0. Wrong \subseteq Nat
      BY <1>1
    <3> HIDE DEF Wrong
    <3>1. PICK least \in Wrong : \A i \in Wrong : least <= i
      BY <2>3, <3>0, LeastNumber
    <3> USE DEF Wrong
    <3>2. least \in 2 .. n /\ least - 1 \in 1 .. n /\ least \in 2 .. m
      BY <1>1, <1>2, <1>4, <2>1, <2>2
    <3>3. g[least - 1] = f[least - 1]
      BY <1>1, <3>1, <3>2
    <3> QED BY <1>2, <2>1, <2>2, <3>2, <3>3
  <2>4. n \in 1 .. n /\ m \in 2 .. m /\ m - 1 = n
    BY <1>1, <1>4
  <2>5. g[n] = f[n] /\ g[m] = g[n] \o tt[m]
    BY <1>2, <2>3, <2>4
  <2>6. FlattenSeq(tt) = FlattenSeq(ss) \o tt[m]
    BY <1>2, <2>1, <2>5
  <2> QED BY <2>6 DEF m
<1> QED BY <1>3, <1>4

-----------------------------------------------------------------------------
(* Of the sources, one after the other: what was gathered is the evidence   *)
(* file, an item for each series asked so far, what each feed heard so far *)
(* adds, and nothing else.                                                 *)
Own == load_evidence_file(file, Symbol)
News == FlattenSeq([i \in DOMAIN heard |-> Added(i)])

FredHeard(macro, n) ==
    IsSequence(macro) /\ Len(macro) = n /\ \A i \in 1 .. n : IsHeard(macro[i], i)

Collected(macro) ==
    /\ IsSequence(macro) /\ Len(macro) = Asks
    /\ UsesFred => \A i \in DOMAIN Series : IsHeard(macro[i], i)
    /\ market.evidence = (Own \o macro) \o News

FredInv ==
    at = "fred" =>
        /\ asked <= Len(Series) /\ (~UsesFred => asked = 0)
        /\ \A i \in Nat : <<"fred", i>> \in down => i <= asked
        /\ \E macro : FredHeard(macro, asked) /\ market.evidence = Own \o macro

RssInv ==
    at = "rss" => /\ Len(heard) = asked /\ asked <= Len(Feeds)
                  /\ \E macro : Collected(macro)

HeardInv ==
    /\ IsSequence(heard) /\ \A i \in DOMAIN heard : heard[i] \in Documents \cup {Nothing}
    /\ heard # <<>> => connectors.rss.enabled
    /\ at \in {"quote", "bars", "file", "synthetic", "fred"} => heard = <<>>
    /\ at \in {"quote", "bars", "file"} => \A i \in Nat : <<"fred", i>> \notin down
    /\ at = "file" => market.evidence = <<>>
    /\ FredInv /\ RssInv
    /\ at = "synthetic" => book = Nothing
    /\ at \in {"features", "adviser", "model", "assessed"} /\ book # Nothing =>
          /\ Len(heard) = IF connectors.rss.enabled THEN Len(Feeds) ELSE 0
          /\ \E macro : Collected(macro)

LEMMA OwnIsAList == ObservationInv => IsSequence(Own)
BY FileIsSound DEF ObservationInv, SoundList, Own

LEMMA SeriesIsAList ==
    ASSUME ObservationInv
    PROVE  /\ Len(Series) \in Nat /\ DOMAIN Series = 1 .. Len(Series)
           /\ Len(Feeds) \in Nat
<1> DEFINE series == connectors.fred.series
           feeds == connectors.rss.feeds
<1>1. IsSequence(series) /\ IsSequence(feeds)
  BY SourceAssumption DEF ObservationInv
<1>2. MAX_SERIES \in Nat /\ MAX_FEEDS \in Nat
  BY CapAssumption
<1>3. Series = UpTo(MAX_SERIES, series) /\ Feeds = UpTo(MAX_FEEDS, feeds)
  BY DEF Series, Feeds, capped
<1> HIDE DEF series, feeds
<1>4. IsSequence(Series) /\ IsSequence(Feeds)
  BY <1>1, <1>2, <1>3, UpToFacts
<1> QED BY <1>4, SequenceFacts

LEMMA NoNews == heard = <<>> => News = <<>>
<1> SUFFICES ASSUME heard = <<>> PROVE News = <<>>
  OBVIOUS
<1> DEFINE added == [i \in DOMAIN heard |-> Added(i)]
<1>1. DOMAIN heard = 1 .. 0
  BY EmptyIsSequence
<1>2. added = [i \in 1 .. 0 |-> added[i]]
  BY <1>1
<1>3. News = FlattenSeq(added)
  BY DEF News
<1> HIDE DEF added
<1>4. IsSequence(added) /\ Len(added) = 0
  BY <1>2, FunctionIsSequence
<1>5. FlattenSeq(added) = added
  BY <1>4 DEF FlattenSeq
<1> QED BY <1>3, <1>4, <1>5, NoLength

LEMMA AddedIsAList ==
    ASSUME ObservationInv, HeardInv, NEW i \in DOMAIN heard
    PROVE  IsSequence(Added(i))
<1>1. CASE heard[i] = Nothing
  BY <1>1, ShortSequences DEF Added
<1>2. CASE heard[i] # Nothing
  <2> DEFINE text == heard[i].text
             limit == connectors.rss.max_items_per_feed
  <2>1. IsSequence(text) /\ limit \in Int
    BY <1>2, SourceAssumption DEF ObservationInv, HeardInv
  <2>2. Added(i) = FeedItems(i, Symbol, text, limit)
    BY <1>2 DEF Added
  <2> HIDE DEF text, limit
  <2> QED BY <2>1, <2>2, FeedIsSound DEF SoundList
<1> QED BY <1>1, <1>2

(* What one more feed has goes behind what is there.                       *)
LEMMA NewsGrow ==
    ASSUME ObservationInv, HeardInv, NEW x, heard' = Append(heard, x), UNCHANGED connectors,
           NEW items, IsSequence(items),
           items = IF x = Nothing THEN <<FeedError(Len(heard) + 1)>>
                   ELSE FeedItems(Len(heard) + 1, Symbol, x.text,
                                  connectors.rss.max_items_per_feed)
    PROVE  News' = News \o items
<1>1. PICK n : n = Len(heard) /\ n \in Nat /\ DOMAIN heard = 1 .. n /\ IsSequence(heard)
  BY SequenceFacts DEF HeardInv
<1> DEFINE ss == [i \in DOMAIN heard |-> Added(i)]
           tt == [i \in DOMAIN heard' |-> Added(i)']
<1>2. /\ DOMAIN heard' = 1 .. n + 1 /\ heard'[n + 1] = x
      /\ \A i \in 1 .. n : heard'[i] = heard[i]
  <2>1. PICK S : heard \in Seq(S) /\ x \in S
    <3> DEFINE S == Range(heard) \cup {x}
    <3>1. Range(heard) \subseteq S /\ x \in S
      OBVIOUS
    <3> HIDE DEF S
    <3>2. heard \in Seq(S)
      BY <1>1, <3>1, SeqMonotonic DEF IsSequence
    <3> QED BY <3>1, <3>2
  <2>2. /\ Append(heard, x) \in Seq(S) /\ Len(Append(heard, x)) = n + 1
        /\ \A i \in 1 .. n : Append(heard, x)[i] = heard[i]
        /\ Append(heard, x)[n + 1] = x
    BY <1>1, <2>1, AppendProperties
  <2>3. DOMAIN Append(heard, x) = 1 .. n + 1
    BY <2>2, SequenceFacts
  <2> QED BY <2>2, <2>3
<1>3. \A i \in 1 .. n : Added(i)' = Added(i)
  BY <1>2 DEF Added
<1>4. Added(n + 1)' = items
  BY <1>1, <1>2 DEF Added
<1>5. ss = [i \in 1 .. n |-> ss[i]] /\ \A i \in 1 .. n : ss[i] = Added(i)
  BY <1>1
<1>6. tt = [i \in 1 .. n + 1 |-> tt[i]] /\ \A i \in 1 .. n + 1 : tt[i] = Added(i)'
  BY <1>2
<1>7. News = FlattenSeq(ss) /\ News' = FlattenSeq(tt)
  BY DEF News
<1> HIDE DEF ss, tt
<1>8. IsSequence(ss) /\ Len(ss) = n
  BY <1>1, <1>5, FunctionIsSequence
<1>9. IsSequence(tt) /\ Len(tt) = n + 1
  <2>1. n + 1 \in Nat
    BY <1>1
  <2> DEFINE m == n + 1
  <2> HIDE DEF m
  <2>2. IsSequence(tt) /\ Len(tt) = m
    BY <1>6, <2>1, FunctionIsSequence DEF m
  <2> QED BY <2>2 DEF m
<1>10. \A i \in 1 .. n : tt[i] = ss[i]
  BY <1>1, <1>3, <1>5, <1>6
<1>11. tt[Len(tt)] = items
  <2>1. n + 1 \in 1 .. n + 1
    BY <1>1
  <2>2. tt[n + 1] = Added(n + 1)'
    BY <1>6, <2>1
  <2> QED BY <1>4, <1>9, <2>2
<1>12. FlattenSeq(tt) = FlattenSeq(ss) \o tt[Len(tt)]
  BY <1>1, <1>8, <1>9, <1>10, <1>11, OneMoreFlattened
<1> QED BY <1>7, <1>11, <1>12

LEMMA HeardStarts == ObservationInit => HeardInv
<1> SUFFICES ASSUME ObservationInit PROVE HeardInv
  OBVIOUS
<1>1. /\ at \in {"quote", "synthetic"} /\ book = Nothing
      /\ heard = <<>> /\ down = {}
  BY DEF ObservationInit
<1>2. IsSequence(heard) /\ DOMAIN heard = {}
  BY <1>1, EmptyIsSequence
<1> QED BY <1>1, <1>2 DEF HeardInv, FredInv, RssInv

(* A step after which nothing has been heard of, or that gathers nothing.   *)
LEMMA QuietStepsKeepHeard ==
    ASSUME HeardInv, UNCHANGED <<heard, file, connectors>>,
           \/ at' = "failed"
           \/ at' = "features" /\ heard = <<>> /\ book' = Nothing
           \/ /\ at' \in {"adviser", "model", "assessed"} /\ UNCHANGED <<book, market, down>>
              /\ at \in {"features", "adviser", "model"}
    PROVE  HeardInv'
<1>1. \A macro : UNCHANGED <<market, down>> => Collected(macro)' = Collected(macro)
  BY DEF Collected, Asks, UsesFred, Series, IsHeard, Own, News, Added
<1>2. Feeds' = Feeds
  BY DEF Feeds
<1> QED BY <1>1, <1>2 DEF HeardInv, FredInv, RssInv

LEMMA BeginningKeepsHeard ==
    ASSUME ObservationInv, HeardInv,
           \/ \E step \in {"quote", "bars"} : SnapshotFails(step)
           \/ FetchQuote \/ FetchBars \/ ReadFile \/ Synthesize
    PROVE  HeardInv'
<1>1. CASE \E step \in {"quote", "bars"} : SnapshotFails(step)
  BY <1>1, QuietStepsKeepHeard DEF SnapshotFails, Ends
<1>2. CASE FetchQuote
  BY <1>2 DEF FetchQuote, Ends, HeardInv, FredInv, RssInv
<1>3. CASE FetchBars
  <2>1. /\ at = "bars" /\ UNCHANGED <<heard, file, connectors>>
        /\ \/ at' = "failed"
           \/ at' = "file" /\ market'.evidence = <<>> /\ UNCHANGED down
    BY <1>3 DEF FetchBars, Opening
  <2>2. CASE at' = "failed"
    BY <2>1, <2>2, QuietStepsKeepHeard
  <2>3. CASE at' = "file" /\ market'.evidence = <<>> /\ UNCHANGED down
    BY <2>1, <2>3 DEF HeardInv, FredInv, RssInv
  <2> QED BY <2>1, <2>2, <2>3
<1>4. CASE ReadFile
  <2>1. /\ at = "file" /\ at' = "fred" /\ asked' = 0 /\ market.evidence = <<>> /\ heard = <<>>
        /\ \A i \in Nat : <<"fred", i>> \notin down
        /\ UNCHANGED <<down, heard, file, connectors>>
    BY <1>4 DEF ReadFile, HeardInv
  <2>2. MarketIsSound(market)
    BY <2>1 DEF ObservationInv
  <2>3. market'.evidence = <<>> \o Own
    BY <1>4, <2>1, <2>2 DEF ReadFile, Gathers, Own, MarketIsSound, Opening
  <2>4. market'.evidence = Own \o <<>> /\ Own' = Own
    <3>1. Own' = Own
      BY <2>1 DEF Own
    <3> QED BY <2>3, <3>1, OwnIsAList, JoinedToNothing
  <2>5. FredHeard(<<>>, 0)'
    BY EmptyIsSequence DEF FredHeard
  <2>6. 0 <= Len(Series')
    <3>1. Series' = Series
      BY <2>1 DEF Series
    <3> QED BY <3>1, SeriesIsAList
  <2>7. FredInv'
    BY <2>1, <2>4, <2>5, <2>6 DEF FredInv, FredHeard
  <2> QED BY <2>1, <2>7 DEF HeardInv, RssInv
<1>5. CASE Synthesize
  BY <1>5, QuietStepsKeepHeard DEF Synthesize, HeardInv
<1> QED BY <1>1, <1>2, <1>3, <1>4, <1>5

(* Fred: one item for a series, failed or not.                             *)
LEMMA OneSeriesKeepsHeard ==
    ASSUME ObservationInv, HeardInv, AsksFred, NEW item, Gathers(<<item>>),
           item.evidence_id[1] \in {"fred", "fred-error"},
           item.evidence_id[2] = Series[asked + 1],
           \/ item = FredError(Series[asked + 1]) /\ down' = down \cup {<<"fred", asked + 1>>}
           \/ item # FredError(Series[asked + 1]) /\ down' = down
    PROVE  HeardInv'
<1>1. /\ at = "fred" /\ at' = "fred" /\ UsesFred /\ asked < Len(Series) /\ asked' = asked + 1
      /\ UNCHANGED <<heard, file, connectors>> /\ asked \in Nat /\ MarketIsSound(market)
  BY DEF AsksFred, ObservationInv
<1>2. /\ \A i \in Nat : <<"fred", i>> \in down => i <= asked
      /\ \E macro : FredHeard(macro, asked) /\ market.evidence = Own \o macro
  BY <1>1 DEF HeardInv, FredInv
<1>3. PICK macro : FredHeard(macro, asked) /\ market.evidence = Own \o macro
  BY <1>2
<1>4. Series' = Series /\ UsesFred' = UsesFred /\ Own' = Own
  BY <1>1 DEF Series, UsesFred, Own
<1> DEFINE one == <<item>>
           longer == macro \o one
<1>5. IsSequence(one) /\ Len(one) = 1 /\ one[1] = item /\ one \in Seq({item})
  BY ShortSequences
<1>6. market'.evidence = Own \o longer
  <2>1. market'.evidence = market.evidence \o one
    BY <1>1 DEF Gathers, MarketIsSound, Opening
  <2> HIDE DEF one
  <2>2. (Own \o macro) \o one = Own \o longer
    BY <1>3, <1>5, OwnIsAList, JoinedTwice DEF FredHeard
  <2> QED BY <1>3, <2>1, <2>2
<1>7. /\ IsSequence(longer) /\ Len(longer) = asked + 1 /\ longer[asked + 1] = item
      /\ \A i \in 1 .. asked : longer[i] = macro[i]
  <2>1. IsSequence(macro) /\ Len(macro) = asked
    BY <1>3 DEF FredHeard
  <2> HIDE DEF one
  <2>2. PICK S : macro \in Seq(S) /\ one \in Seq(S)
    BY <1>5, <2>1, InOneSet
  <2>3. /\ longer \in Seq(S) /\ Len(longer) = asked + 1
        /\ \A i \in 1 .. asked + 1 : longer[i] = IF i <= asked THEN macro[i] ELSE one[i - asked]
    <3>1. /\ longer \in Seq(S) /\ Len(longer) = Len(macro) + Len(one)
          /\ \A i \in 1 .. Len(macro) + Len(one) :
                longer[i] = IF i <= Len(macro) THEN macro[i] ELSE one[i - Len(macro)]
      BY <2>2, ConcatProperties
    <3> HIDE DEF longer
    <3> QED BY <1>5, <2>1, <3>1
  <2> HIDE DEF longer
  <2>4. longer[asked + 1] = one[(asked + 1) - asked] /\ (asked + 1) - asked = 1
    BY <1>1, <2>3
  <2>5. \A i \in 1 .. asked : longer[i] = macro[i]
    BY <1>1, <2>3
  <2> QED BY <1>5, <2>3, <2>4, <2>5, SequenceFacts
<1> HIDE DEF longer, one
<1>0. PICK k : k = asked
  OBVIOUS
<1>8. \A i \in Nat : <<"fred", i>> \in down' => i <= asked + 1
  BY <1>1, <1>2
<1>9. \A i \in 1 .. k + 1 : IsHeard(longer[i], i)'
  <2>1. ASSUME NEW i \in 1 .. k PROVE IsHeard(longer[i], i)'
    <3>1. IsHeard(macro[i], i)
      BY <1>0, <1>3 DEF FredHeard
    <3>2. i # k + 1 /\ (<<"fred", i>> \in down' <=> <<"fred", i>> \in down)
      BY <1>0, <1>1
    <3> QED BY <1>0, <1>4, <1>7, <3>1, <3>2 DEF IsHeard
  <2>2. IsHeard(longer[k + 1], k + 1)'
    <3>1. <<"fred", k + 1>> \notin down
      BY <1>0, <1>1, <1>2
    <3>2. item = FredError(Series[k + 1]) <=> <<"fred", k + 1>> \in down'
      BY <1>0, <3>1
    <3>3. longer[k + 1] = item /\ item.evidence_id[2] = Series[k + 1]
      BY <1>0, <1>7
    <3> QED BY <1>4, <3>2, <3>3 DEF IsHeard
  <2>3. \A i \in 1 .. k + 1 : i \in 1 .. k \/ i = k + 1
    BY <1>0, <1>1
  <2> QED BY <2>1, <2>2, <2>3
<1>10. FredInv'
  <2>1. asked' <= Len(Series') /\ UsesFred'
    BY <1>1, <1>4, SeriesIsAList
  <2>2. FredHeard(longer, asked)'
    BY <1>0, <1>1, <1>7, <1>9 DEF FredHeard
  <2>3. \E m : FredHeard(m, asked)' /\ market'.evidence = (Own \o m)'
    BY <1>4, <1>6, <2>2
  <2> QED BY <1>1, <1>8, <2>1, <2>3 DEF FredInv
<1> QED BY <1>1, <1>10 DEF HeardInv, RssInv

LEMMA FredKeepsHeard ==
    ASSUME ObservationInv, HeardInv, SeriesFails \/ SeriesAnswers
    PROVE  HeardInv'
<1>1. CASE SeriesFails
  <2> DEFINE series == Series[asked + 1]
             item == FredError(series)
  <2>1. item.evidence_id[1] = "fred-error" /\ item.evidence_id[2] = series
    <3> HIDE DEF series
    <3> QED BY DEF FredError, EvidenceItem
  <2>2. Gathers(<<item>>) /\ AsksFred /\ down' = down \cup {<<"fred", asked + 1>>}
    BY <1>1 DEF SeriesFails
  <2> QED BY <2>1, <2>2, OneSeriesKeepsHeard
<1>2. CASE SeriesAnswers
  <2>1. PICK observation \in Observations :
           Gathers(<<observation_evidence(Series[asked + 1], observation)>>)
    BY <1>2 DEF SeriesAnswers
  <2> DEFINE series == Series[asked + 1]
             item == observation_evidence(series, observation)
  <2>2. item.evidence_id[1] = "fred" /\ item.evidence_id[2] = series
    <3> HIDE DEF series
    <3> QED BY DEF observation_evidence, EvidenceItem
  <2>3. FredError(series).evidence_id[1] = "fred-error"
    BY DEF FredError, EvidenceItem
  <2>4. Gathers(<<item>>) /\ AsksFred /\ down' = down
    BY <1>2, <2>1 DEF SeriesAnswers
  <2> HIDE DEF item
  <2>5. item # FredError(series)
    BY <2>2, <2>3
  <2> QED BY <2>2, <2>4, <2>5, OneSeriesKeepsHeard
<1> QED BY <1>1, <1>2

LEMMA FredEndsKeepsHeard ==
    ASSUME ObservationInv, HeardInv, FredEnds
    PROVE  HeardInv'
<1> DEFINE items == IF connectors.fred.enabled /\ ~connectors.fred.has_key
                    THEN <<missing_key_evidence>> ELSE <<>>
<1>1. /\ at = "fred" /\ at' = "rss" /\ asked' = 0 /\ UNCHANGED <<down, heard, file, connectors>>
      /\ ~UsesFred \/ asked = Len(Series)
      /\ market'.evidence = market.evidence \o items
  BY DEF FredEnds, Gathers, ObservationInv, MarketIsSound, Opening
<1>2. heard = <<>> /\ asked \in Nat /\ asked <= Len(Series) /\ (~UsesFred => asked = 0)
  BY <1>1 DEF HeardInv, FredInv, ObservationInv
<1>3. PICK macro : FredHeard(macro, asked) /\ market.evidence = Own \o macro
  BY <1>1 DEF HeardInv, FredInv
<1>4. /\ Series' = Series /\ UsesFred' = UsesFred /\ Own' = Own /\ Asks' = Asks
      /\ Feeds' = Feeds /\ \A item, i : IsHeard(item, i)' = IsHeard(item, i)
  BY <1>1 DEF Series, UsesFred, Own, Asks, Feeds, IsHeard
<1>5. News' = <<>>
  <2>1. News' = News
    BY <1>1 DEF News, Added
  <2> QED BY <1>2, <2>1, NoNews
<1>6. \E m : IsSequence(m) /\ Len(m) = Asks /\ (UsesFred => \A i \in DOMAIN Series : IsHeard(m[i], i))
             /\ market'.evidence = Own \o m
  <2>1. CASE UsesFred
    <3>1. items = <<>> /\ asked = Len(Series) /\ Asks = Len(Series)
      BY <1>1, <2>1 DEF UsesFred, Asks
    <3>2. IsSequence(Own \o macro)
      BY <1>3, OwnIsAList, JoinedSequences DEF FredHeard
    <3>3. market'.evidence = Own \o macro
      BY <1>1, <1>3, <3>1, <3>2, JoinedToNothing
    <3> QED BY <1>3, <3>1, <3>3, SeriesIsAList DEF FredHeard
  <2>2. CASE ~UsesFred
    <3>1. macro = <<>>
      BY <1>2, <1>3, <2>2, NoLength DEF FredHeard
    <3>2. market'.evidence = Own \o items
      BY <1>1, <1>3, <3>1, OwnIsAList, JoinedToNothing
    <3>3. IsSequence(items) /\ Len(items) = Asks
      <4>1. IsSequence(<<missing_key_evidence>>) /\ Len(<<missing_key_evidence>>) = 1
        BY ShortSequences
      <4> QED BY <2>2, <4>1, EmptyIsSequence DEF UsesFred, Asks
    <3> QED BY <2>2, <3>2, <3>3
  <2> QED BY <2>1, <2>2
<1>7. PICK m : /\ IsSequence(m) /\ Len(m) = Asks
               /\ UsesFred => \A i \in DOMAIN Series : IsHeard(m[i], i)
               /\ market'.evidence = Own \o m
  BY <1>6
<1>8. (Own \o m) \o <<>> = Own \o m
  <2>1. IsSequence(Own \o m)
    BY <1>7, OwnIsAList, JoinedSequences
  <2> QED BY <2>1, JoinedToNothing
<1>9. Collected(m)'
  BY <1>4, <1>5, <1>7, <1>8 DEF Collected
<1>10. RssInv'
  <2>1. Len(heard') = 0 /\ 0 <= Len(Feeds')
    <3>1. Len(heard) = 0
      BY <1>2, EmptyIsSequence
    <3>2. 0 <= Len(Feeds)
      BY SeriesIsAList
    <3> QED BY <1>1, <1>4, <3>1, <3>2
  <2> QED BY <1>1, <1>9, <2>1 DEF RssInv
<1> QED BY <1>1, <1>10 DEF HeardInv, FredInv

(* Feeds: what one more adds.                                              *)
LEMMA OneFeedKeepsHeard ==
    ASSUME ObservationInv, HeardInv, AsksFeed, UNCHANGED <<file, connectors>>,
           NEW x \in Documents \cup {Nothing}, heard' = Append(heard, x),
           NEW items, SoundList(items), Gathers(items),
           items = IF x = Nothing THEN <<FeedError(asked + 1)>>
                   ELSE FeedItems(asked + 1, Symbol, x.text, connectors.rss.max_items_per_feed),
           \A i \in Nat : <<"fred", i>> \in down' <=> <<"fred", i>> \in down
    PROVE  HeardInv'
<1>1. /\ at = "rss" /\ at' = "rss" /\ asked < Len(Feeds) /\ asked' = asked + 1
      /\ connectors.rss.enabled /\ asked \in Nat /\ MarketIsSound(market)
  BY DEF AsksFeed, ObservationInv
<1>2. /\ IsSequence(heard) /\ Len(heard) = asked
      /\ \A i \in DOMAIN heard : heard[i] \in Documents \cup {Nothing}
  BY <1>1 DEF HeardInv, RssInv
<1>3. PICK macro : Collected(macro)
  BY <1>1 DEF HeardInv, RssInv
<1>4. /\ IsSequence(heard') /\ Len(heard') = asked + 1
      /\ \A i \in DOMAIN heard' : heard'[i] \in Documents \cup {Nothing}
  BY <1>2, OneAppended
<1>5. News' = News \o items
  BY <1>2, NewsGrow DEF SoundList
<1>6. IsSequence(News)
  <2> DEFINE ss == [i \in DOMAIN heard |-> Added(i)]
  <2>1. Len(heard) \in Nat /\ DOMAIN heard = 1 .. Len(heard)
    BY <1>2, SequenceFacts
  <2>2. ss = [i \in 1 .. Len(heard) |-> ss[i]] /\ \A i \in DOMAIN heard : ss[i] = Added(i)
    BY <2>1
  <2>3. News = FlattenSeq(ss)
    BY DEF News
  <2> HIDE DEF ss
  <2>4. IsSequence(ss) /\ DOMAIN ss = DOMAIN heard
    BY <2>1, <2>2, FunctionIsSequence
  <2>5. \A i \in DOMAIN ss : IsSequence(ss[i])
    BY <2>2, <2>4, AddedIsAList
  <2> QED BY <2>3, <2>4, <2>5, FlattenedIsAList
<1>7. /\ Series' = Series /\ UsesFred' = UsesFred /\ Own' = Own /\ Asks' = Asks
      /\ Feeds' = Feeds
  BY DEF Series, UsesFred, Own, Asks, Feeds
<1>8. \A item : \A i \in Nat : IsHeard(item, i)' <=> IsHeard(item, i)
  BY <1>7 DEF IsHeard
<1>9. market'.evidence = (Own \o macro) \o (News \o items)
  <2>1. market'.evidence = market.evidence \o items
    BY <1>1 DEF Gathers, MarketIsSound, Opening
  <2>2. IsSequence(Own \o macro)
    BY <1>3, OwnIsAList, JoinedSequences DEF Collected
  <2>3. ((Own \o macro) \o News) \o items = (Own \o macro) \o (News \o items)
    <3> DEFINE before == Own \o macro
    <3> HIDE DEF before
    <3>1. IsSequence(before) /\ IsSequence(News) /\ IsSequence(items)
      BY <1>6, <2>2 DEF SoundList, before
    <3>2. (before \o News) \o items = before \o (News \o items)
      BY ONLY <3>1, JoinedTwice
    <3> QED BY <3>2 DEF before
  <2> QED BY <1>3, <2>1, <2>3 DEF Collected
<1>10. Collected(macro)'
  <2>1. UsesFred => \A i \in DOMAIN Series : IsHeard(macro[i], i)'
    BY <1>3, <1>8, SeriesIsAList DEF Collected
  <2> QED BY <1>3, <1>5, <1>7, <1>9, <2>1 DEF Collected
<1>11. RssInv'
  <2>1. asked + 1 <= Len(Feeds')
    BY <1>1, <1>7, SeriesIsAList
  <2> QED BY <1>1, <1>4, <1>10, <2>1 DEF RssInv
<1> QED BY <1>1, <1>4, <1>11 DEF HeardInv, FredInv

LEMMA FeedsKeepHeard ==
    ASSUME ObservationInv, HeardInv, FeedFails \/ FeedAnswers \/ RssEnds
    PROVE  HeardInv'
<1>1. CASE FeedFails
  <2> DEFINE item == FeedError(asked + 1)
             items == <<item>>
  <2>1. SoundList(items)
    <3>1. Sound(item)
      BY OwnItemsAreSound
    <3> HIDE DEF item
    <3> QED BY <3>1, OneIsSound
  <2>2. /\ AsksFeed /\ Gathers(items) /\ heard' = Append(heard, Nothing)
        /\ down' = down \cup {<<"rss", asked + 1>>} /\ UNCHANGED <<file, connectors>>
    BY <1>1 DEF FeedFails, AsksFeed
  <2>3. \A i \in Nat : <<"fred", i>> \in down' <=> <<"fred", i>> \in down
    BY <2>2
  <2> QED BY <2>1, <2>2, <2>3, OneFeedKeepsHeard
<1>2. CASE FeedAnswers
  <2>1. PICK document \in Documents :
           /\ Gathers(FeedItems(asked + 1, Symbol, document.text,
                                connectors.rss.max_items_per_feed))
           /\ heard' = Append(heard, document)
    BY <1>2 DEF FeedAnswers
  <2> DEFINE text == document.text
             limit == connectors.rss.max_items_per_feed
             items == FeedItems(asked + 1, Symbol, text, limit)
  <2>2. IsSequence(text) /\ limit \in Int /\ document # Nothing
    BY SourceAssumption DEF ObservationInv
  <2>3. SoundList(items)
    <3> HIDE DEF text, limit
    <3> QED BY <2>2, FeedIsSound
  <2>4. AsksFeed /\ UNCHANGED <<down, file, connectors>>
    BY <1>2 DEF FeedAnswers, AsksFeed
  <2> QED BY <2>1, <2>2, <2>3, <2>4, OneFeedKeepsHeard
<1>3. CASE RssEnds
  <2>1. at = "rss" /\ at' = "features" /\ UNCHANGED <<market, down, heard, file, connectors>>
    BY <1>3 DEF RssEnds
  <2>2. Len(heard) = IF connectors.rss.enabled THEN Len(Feeds) ELSE 0
    <3>1. Len(heard) = asked /\ (~connectors.rss.enabled => heard = <<>>)
      BY <2>1 DEF HeardInv, RssInv
    <3> QED BY <1>3, <3>1, EmptyIsSequence DEF RssEnds
  <2>3. \A macro : Collected(macro)' = Collected(macro)
    BY <2>1 DEF Collected, Asks, UsesFred, Series, IsHeard, Own, News, Added
  <2>4. Feeds' = Feeds
    BY <2>1 DEF Feeds
  <2> QED BY <2>1, <2>2, <2>3, <2>4 DEF HeardInv, FredInv, RssInv
<1> QED BY <1>1, <1>2, <1>3

LEMMA HeardStays ==
    ObservationInv /\ HeardInv /\ [ObservationNext]_observationVars => HeardInv'
<1> SUFFICES ASSUME ObservationInv, HeardInv, [ObservationNext]_observationVars
             PROVE  HeardInv'
  OBVIOUS
<1>1. CASE UNCHANGED observationVars
  <2>1. \A macro : Collected(macro)' = Collected(macro)
    BY <1>1 DEF observationVars, Collected, Asks, UsesFred, Series, IsHeard, Own, News, Added
  <2>2. \A macro : FredHeard(macro, asked)' = FredHeard(macro, asked)
    BY <1>1 DEF observationVars, FredHeard, Series, IsHeard
  <2>3. Feeds' = Feeds /\ Series' = Series /\ Own' = Own /\ UsesFred' = UsesFred
    BY <1>1 DEF observationVars, Feeds, Series, Own, UsesFred
  <2> QED BY <1>1, <2>1, <2>2, <2>3 DEF observationVars, HeardInv, FredInv, RssInv
<1>2. CASE \/ \E step \in {"quote", "bars"} : SnapshotFails(step)
           \/ FetchQuote \/ FetchBars \/ ReadFile \/ Synthesize
  BY <1>2, BeginningKeepsHeard
<1>3. CASE SeriesFails \/ SeriesAnswers
  BY <1>3, FredKeepsHeard
<1>4. CASE FredEnds
  BY <1>4, FredEndsKeepsHeard
<1>5. CASE FeedFails \/ FeedAnswers \/ RssEnds
  BY <1>5, FeedsKeepHeard
<1>6. CASE BuildFeatures \/ HeuristicAssesses \/ AskModel
  BY <1>6, QuietStepsKeepHeard DEF BuildFeatures, HeuristicAssesses, AskModel
<1>7. CASE ModelAnswers
  <2>1. /\ at = "model" /\ at' \in {"failed", "assessed"}
        /\ UNCHANGED <<book, market, down, heard, file, connectors>>
    BY <1>7 DEF ModelAnswers
  <2> QED BY <2>1, QuietStepsKeepHeard
<1> QED BY <1>1, <1>2, <1>3, <1>4, <1>5, <1>6, <1>7 DEF ObservationNext

LEMMA CollectedIsHeard == ObservationInv /\ HeardInv => EverySourceIsHeard
<1> SUFFICES ASSUME ObservationInv, HeardInv,
                    at \in {"features", "adviser", "model", "assessed"}, book # Nothing
             PROVE  EverySourceIsHeard
  BY DEF EverySourceIsHeard
<1>1. PICK macro : Collected(macro)
  BY DEF HeardInv
<1>2. Len(heard) = IF connectors.rss.enabled THEN Len(Feeds) ELSE 0
  BY DEF HeardInv
<1>3. IsSequence(Own) /\ IsSequence(macro) /\ Len(macro) = Asks
  BY <1>1, OwnIsAList DEF Collected
<1>4. IsSequence(News)
  <2> DEFINE ss == [i \in DOMAIN heard |-> Added(i)]
  <2>1. Len(heard) \in Nat /\ DOMAIN heard = 1 .. Len(heard)
    BY SequenceFacts DEF HeardInv
  <2>2. ss = [i \in 1 .. Len(heard) |-> ss[i]] /\ \A i \in DOMAIN heard : ss[i] = Added(i)
    BY <2>1
  <2>3. News = FlattenSeq(ss)
    BY DEF News
  <2> HIDE DEF ss
  <2>4. IsSequence(ss) /\ DOMAIN ss = DOMAIN heard
    BY <2>1, <2>2, FunctionIsSequence
  <2>5. \A i \in DOMAIN ss : IsSequence(ss[i])
    BY <2>2, <2>4, AddedIsAList
  <2> QED BY <2>3, <2>4, <2>5, FlattenedIsAList
<1>5. market.evidence = (Own \o macro) \o News
  BY <1>1 DEF Collected
<1>6. /\ Len(market.evidence) >= Len(Own) + Asks
      /\ SubSeq(market.evidence, Len(Own) + 1, Len(Own) + Asks) = macro
      /\ SubSeq(market.evidence, Len(Own) + Asks + 1, Len(market.evidence)) = News
  <2> DEFINE own == Own
             news == News
  <2>1. IsSequence(own) /\ IsSequence(macro) /\ IsSequence(news)
    BY <1>3, <1>4
  <2> HIDE DEF own, news
  <2>2. LaidOut(own, macro, news)
    BY <2>1, PartsOfJoined
  <2> QED BY <1>3, <1>5, <2>2 DEF LaidOut, own, news
<1>7. UsesFred => \A i \in DOMAIN Series : IsHeard(macro[i], i)
  BY <1>1 DEF Collected
<1> QED BY <1>2, <1>6, <1>7 DEF EverySourceIsHeard, Own, News

(* The connectors' promise that a failure is evidence and no failure: of    *)
(* any series and feeds, each of which may answer or fail, every series     *)
(* leaves one item that says which, every feed what it holds or one item,  *)
(* in the order they are configured, and none loses another's.             *)
THEOREM SourcesAreHeard == ObservationSpec => []EverySourceIsHeard
<1>1. ObservationInit => ObservationInv /\ HeardInv
  BY ObservationStarts, HeardStarts
<1>2. ObservationInv /\ HeardInv /\ [ObservationNext]_observationVars
      => (ObservationInv /\ HeardInv)'
  BY ObservationStays, HeardStays
<1> QED BY <1>1, <1>2, CollectedIsHeard, PTL DEF ObservationSpec
================================================================================
