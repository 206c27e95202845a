---------------------------- MODULE NodesProofs ----------------------------
(***************************************************************************)
(* Theorems about who owns the memory of the tree: no walk touches what    *)
(* was freed, and nothing is left behind.  A walk is described by the set  *)
(* of nodes it has been at, which the calls still to be made determine:    *)
(* they come in the order of the tree, without a gap.                      *)
(***************************************************************************)
EXTENDS Nodes, SumsProofs, SequenceTheorems

-----------------------------------------------------------------------------
(* The order of the tree *)

LEMMA EqualPaths ==
  ASSUME NEW a \in Seq(Nat), NEW b \in Seq(Nat), Len(a) = Len(b),
         \A i \in 1 .. Len(a) : a[i] = b[i]
  PROVE  a = b
OBVIOUS

LEMMA Appended ==
  ASSUME NEW n \in Seq(Nat), NEW b \in Nat
  PROVE  LET c == Append(n, b)
         IN  /\ c \in Seq(Nat) /\ Len(c) = Len(n) + 1 /\ c[Len(n) + 1] = b
             /\ \A i \in 1 .. Len(n) : c[i] = n[i]
OBVIOUS

LEMMA Paths ==
  ASSUME Typed, NEW n \in DOMAIN nodes
  PROVE  /\ n \in Seq(Nat) /\ Len(n) \in Nat /\ Len(n) >= 1 /\ n[1] \in Roots
         /\ \A i \in 1 .. Len(n) : n[i] \in Nat
         /\ \A i \in 2 .. Len(n) : n[i] \in {0, 1}
BY DEF Typed, IsPath

\* Whatever is below an inner node is below one of its children.
LEMMA Family ==
  ASSUME Typed, NEW n \in DOMAIN nodes, NEW l \in DOMAIN nodes, NEW r \in DOMAIN nodes,
         l = Left(n), r = Right(n)
  PROVE  /\ Below(n) = {n} \cup Below(l) \cup Below(r)
         /\ LeftOf(l) = LeftOf(n) /\ LeftOf(r) = LeftOf(n) \cup Below(l)
         /\ Above(l) = Above(n) \cup {n} /\ Above(r) = Above(n) \cup {n}
         /\ n \notin Below(l) \cup Below(r) /\ n # l /\ n # r
<1>1. /\ Len(n) \in Nat /\ Len(n) >= 1
      /\ Len(l) = Len(n) + 1 /\ l[Len(n) + 1] = 0 /\ \A i \in 1 .. Len(n) : l[i] = n[i]
      /\ Len(r) = Len(n) + 1 /\ r[Len(n) + 1] = 1 /\ \A i \in 1 .. Len(n) : r[i] = n[i]
  BY Paths, Appended DEF Left, Right
<1>2. \A m \in DOMAIN nodes : /\ m \in Seq(Nat) /\ Len(m) \in Nat /\ Len(m) >= 1
                              /\ \A i \in 1 .. Len(m) : m[i] \in Nat
                              /\ \A i \in 2 .. Len(m) : m[i] \in {0, 1}
  BY Paths
<1> HIDE DEF Left, Right
<1>3. \A m \in DOMAIN nodes : Len(m) = Len(n) /\ (\A i \in 1 .. Len(n) : m[i] = n[i]) => m = n
  BY <1>2, EqualPaths
<1>4. ASSUME NEW m \in DOMAIN nodes
      PROVE  m \in Below(n) <=> m = n \/ m \in Below(l) \/ m \in Below(r)
  <2>1. ASSUME m \in Below(n), m # n PROVE m \in Below(l) \/ m \in Below(r)
    <3>1. Len(n) <= Len(m) /\ \A i \in 1 .. Len(n) : m[i] = n[i]
      BY <2>1 DEF Below
    <3>2. Len(m) # Len(n)
      BY <1>3, <2>1, <3>1
    <3> DEFINE k == Len(n) + 1
    <3>3. k \in 2 .. Len(m)
      BY <1>1, <1>2, <3>1, <3>2
    <3>4. m[k] \in {0, 1}
      BY <1>2, <3>3
    <3> HIDE DEF k
    <3>5. Len(l) = k /\ Len(r) = k /\ k <= Len(m) /\ \A i \in 1 .. k : i = k \/ i \in 1 .. Len(n)
      BY <1>1, <1>2, <3>3 DEF k
    <3>6. CASE m[k] = 0
      <4>1. \A i \in 1 .. Len(l) : m[i] = l[i]
        BY <1>1, <3>1, <3>5, <3>6 DEF k
      <4> QED BY <3>5, <4>1 DEF Below
    <3>7. CASE m[k] = 1
      <4>1. \A i \in 1 .. Len(r) : m[i] = r[i]
        BY <1>1, <3>1, <3>5, <3>7 DEF k
      <4> QED BY <3>5, <4>1 DEF Below
    <3> QED BY <3>4, <3>6, <3>7
  <2>2. ASSUME NEW c \in {l, r}, m \in Below(c) PROVE m \in Below(n)
    <3>1. Len(c) = Len(n) + 1 /\ \A i \in 1 .. Len(n) : c[i] = n[i]
      BY <1>1
    <3>2. Len(c) <= Len(m) /\ \A i \in 1 .. Len(c) : m[i] = c[i]
      BY <2>2 DEF Below
    <3>3. Len(n) <= Len(m) /\ \A i \in 1 .. Len(n) : m[i] = n[i]
      BY <1>1, <1>2, <3>1, <3>2
    <3> QED BY <3>3 DEF Below
  <2>3. n \in Below(n)
    BY <1>1 DEF Below
  <2> QED BY <2>1, <2>2, <2>3
<1>5. ASSUME NEW m \in DOMAIN nodes PROVE m \in LeftOf(l) <=> m \in LeftOf(n)
  <2>1. ASSUME m \in LeftOf(l) PROVE m \in LeftOf(n)
    <3>1. PICK j \in 1 .. Len(l) : j <= Len(m) /\ m[j] < l[j] /\ \A i \in 1 .. j - 1 : m[i] = l[i]
      BY <2>1 DEF LeftOf
    <3>2. j \in 1 .. Len(n)
      BY <1>1, <1>2, <3>1
    <3> QED BY <1>1, <3>1, <3>2 DEF LeftOf
  <2>2. ASSUME m \in LeftOf(n) PROVE m \in LeftOf(l)
    <3>1. PICK j \in 1 .. Len(n) : j <= Len(m) /\ m[j] < n[j] /\ \A i \in 1 .. j - 1 : m[i] = n[i]
      BY <2>2 DEF LeftOf
    <3>2. j \in 1 .. Len(l) /\ m[j] < l[j] /\ \A i \in 1 .. j - 1 : m[i] = l[i]
      BY <1>1, <3>1
    <3> QED BY <3>1, <3>2 DEF LeftOf
  <2> QED BY <2>1, <2>2
<1>6. ASSUME NEW m \in DOMAIN nodes
      PROVE  m \in LeftOf(r) <=> m \in LeftOf(n) \/ m \in Below(l)
  <2>1. ASSUME m \in LeftOf(r) PROVE m \in LeftOf(n) \/ m \in Below(l)
    <3>1. PICK j \in 1 .. Len(r) : j <= Len(m) /\ m[j] < r[j] /\ \A i \in 1 .. j - 1 : m[i] = r[i]
      BY <2>1 DEF LeftOf
    <3>2. CASE j \in 1 .. Len(n)
      BY <1>1, <3>1, <3>2 DEF LeftOf
    <3>3. CASE j = Len(n) + 1
      <4>1. m[j] = 0 /\ \A i \in 1 .. Len(n) : m[i] = n[i]
        BY <1>1, <1>2, <3>1, <3>3
      <4> QED BY <1>1, <3>1, <3>3, <4>1 DEF Below
    <3> QED BY <1>1, <3>2, <3>3
  <2>2. ASSUME m \in LeftOf(n) PROVE m \in LeftOf(r)
    <3>1. PICK j \in 1 .. Len(n) : j <= Len(m) /\ m[j] < n[j] /\ \A i \in 1 .. j - 1 : m[i] = n[i]
      BY <2>2 DEF LeftOf
    <3>2. j \in 1 .. Len(r) /\ m[j] < r[j] /\ \A i \in 1 .. j - 1 : m[i] = r[i]
      BY <1>1, <3>1
    <3> QED BY <3>1, <3>2 DEF LeftOf
  <2>3. ASSUME m \in Below(l) PROVE m \in LeftOf(r)
    <3> DEFINE j == Len(n) + 1
    <3>1. j \in 1 .. Len(r) /\ j <= Len(m) /\ m[j] < r[j] /\ \A i \in 1 .. j - 1 : m[i] = r[i]
      BY <1>1, <2>3 DEF Below
    <3> QED BY <3>1 DEF LeftOf
  <2> QED BY <2>1, <2>2, <2>3
<1>7. ASSUME NEW c \in {l, r}, NEW m \in DOMAIN nodes
      PROVE  m \in Above(c) <=> m \in Above(n) \/ m = n
  <2>1. /\ c \in DOMAIN nodes /\ Len(c) = Len(n) + 1
        /\ \A i \in 1 .. Len(n) : c[i] = n[i]
    BY <1>1
  <2>2. Len(m) \in Nat
    BY <1>2
  <2>3. ASSUME m \in Above(c) PROVE m \in Above(n) \/ m = n
    <3>1. Len(m) < Len(c) /\ \A i \in 1 .. Len(m) : m[i] = c[i]
      BY <2>3 DEF Above
    <3>2. Len(m) <= Len(n) /\ \A i \in 1 .. Len(m) : m[i] = n[i]
      BY <1>1, <2>1, <2>2, <3>1
    <3>3. Len(m) = Len(n) => m = n
      BY <1>3, <3>2
    <3> QED BY <1>1, <2>2, <3>2, <3>3 DEF Above
  <2>4. m \in Above(n) => m \in Above(c)
    BY <1>1, <2>1, <2>2 DEF Above
  <2>5. n \in Above(c)
    BY <1>1, <2>1 DEF Above
  <2> QED BY <2>3, <2>4, <2>5
<1>8. n \notin Below(l) \cup Below(r) /\ n # l /\ n # r
  BY <1>1 DEF Below
<1>9. /\ \A x \in {n, l, r} : Below(x) \subseteq DOMAIN nodes /\ LeftOf(x) \subseteq DOMAIN nodes
                             /\ Above(x) \subseteq DOMAIN nodes
  BY DEF Below, LeftOf, Above
<1> QED BY <1>4, <1>5, <1>6, <1>7, <1>8, <1>9

\* A node is not before itself; nor is what is below it.
LEMMA NotBefore ==
  ASSUME Typed, NEW n \in DOMAIN nodes
  PROVE  /\ n \in Below(n) /\ n \notin Before(n)
         /\ Below(n) \cap LeftOf(n) = {}
<1>1. Len(n) \in Nat /\ \A i \in 1 .. Len(n) : n[i] \in Nat
  BY Paths
<1>2. n \in Below(n) /\ n \notin Above(n)
  BY <1>1 DEF Below, Above
<1>3. ASSUME NEW m \in Below(n), m \in LeftOf(n) PROVE FALSE
  <2>1. PICK j \in 1 .. Len(n) : m[j] < n[j]
    BY <1>3 DEF LeftOf
  <2>2. m[j] = n[j]
    BY <2>1 DEF Below
  <2> QED BY <1>1, <2>1, <2>2
<1> QED BY <1>2, <1>3 DEF Before

\* Roots come one after the other.
LEMMA RootsInOrder ==
  ASSUME Typed, NEW i \in Roots
  PROVE  /\ LeftOf(<<i>>) = Earlier(i) /\ Above(<<i>>) = {}
         /\ Earlier(i + 1) = Earlier(i) \cup Below(<<i>>)
         /\ Earlier(0) = {} /\ Earlier(RootsSize) = DOMAIN nodes
<1> DEFINE n == <<i>>
<1>1. Len(n) = 1 /\ n[1] = i /\ i \in Nat
  BY NodesAssumption DEF Roots
<1>2. \A m \in DOMAIN nodes : Len(m) \in Nat /\ Len(m) >= 1 /\ m[1] \in Nat /\ m[1] < RootsSize
  BY Paths, NodesAssumption DEF Roots
<1> HIDE DEF n
<1>3. \A m \in DOMAIN nodes : m \in LeftOf(n) <=> m[1] < i
  BY <1>1, <1>2 DEF LeftOf
<1>4. \A m \in DOMAIN nodes : m \notin Above(n)
  BY <1>1, <1>2 DEF Above
<1>5. \A m \in DOMAIN nodes : m \in Below(n) <=> m[1] = i
  BY <1>1, <1>2 DEF Below
<1>6. LeftOf(n) = Earlier(i) /\ Above(n) = {}
  BY <1>3, <1>4 DEF LeftOf, Earlier, Above
<1>7. Earlier(i + 1) = Earlier(i) \cup Below(n)
  <2>1. \A m \in DOMAIN nodes : m[1] < i + 1 <=> m[1] < i \/ m[1] = i
    BY <1>1, <1>2
  <2>2. Below(n) \subseteq DOMAIN nodes
    BY DEF Below
  <2> QED BY <1>5, <2>1, <2>2 DEF Earlier
<1>8. Earlier(0) = {} /\ Earlier(RootsSize) = DOMAIN nodes
  <2>1. \A m \in DOMAIN nodes : ~(m[1] < 0) /\ m[1] < RootsSize
    BY <1>2
  <2> QED BY <2>1 DEF Earlier
<1> QED BY <1>6, <1>7, <1>8 DEF n

-----------------------------------------------------------------------------
(* The calls still to be made *)

LEMMA TailFacts ==
  ASSUME NEW C, NEW s \in Seq(C), s # << >>
  PROVE  /\ Tail(s) \in Seq(C) /\ Len(Tail(s)) = Len(s) - 1 /\ Len(s) \in Nat /\ Len(s) >= 1
         /\ Head(s) = s[1] /\ s[1] \in C
         /\ \A j \in 1 .. Len(Tail(s)) : j + 1 \in 1 .. Len(s) /\ Tail(s)[j] = s[j + 1]
         /\ Tail(s) = << >> <=> Len(s) = 1
         /\ Tail(s) # << >> => Head(Tail(s)) = Tail(s)[1]
<1>1. /\ Tail(s) \in Seq(C) /\ Len(Tail(s)) = Len(s) - 1 /\ Len(s) \in Nat /\ Len(s) >= 1
      /\ \A j \in 1 .. Len(Tail(s)) : Tail(s)[j] = s[j + 1]
  BY HeadTailProperties, EmptySeq, LenProperties
<1>2. Head(s) = s[1] /\ s[1] \in C
  BY <1>1, ElementOfSeq
<1>3. \A j \in 1 .. Len(Tail(s)) : j + 1 \in 1 .. Len(s)
  BY <1>1
<1>4. Tail(s) = << >> <=> Len(s) = 1
  BY <1>1, EmptySeq
<1>5. Tail(s) # << >> => Head(Tail(s)) = Tail(s)[1]
  BY <1>1
<1> QED BY <1>1, <1>2, <1>3, <1>4, <1>5

LEMMA ChainTail ==
  ASSUME NEW s \in Seq(Calls), s # << >>, Chained(s)
  PROVE  /\ Tail(s) \in Seq(Calls) /\ Chained(Tail(s)) /\ End(Head(s)) = Reached(Tail(s))
         /\ Head(s) = s[1] /\ Head(s) \in Calls /\ 1 \in 1 .. Len(s)
         /\ \A j \in 1 .. Len(Tail(s)) : j + 1 \in 1 .. Len(s) /\ Tail(s)[j] = s[j + 1]
<1>1. /\ Tail(s) \in Seq(Calls) /\ Len(Tail(s)) = Len(s) - 1 /\ Len(s) \in Nat /\ Len(s) >= 1
      /\ Head(s) = s[1] /\ s[1] \in Calls
      /\ \A j \in 1 .. Len(Tail(s)) : j + 1 \in 1 .. Len(s) /\ Tail(s)[j] = s[j + 1]
      /\ Tail(s) = << >> <=> Len(s) = 1
      /\ Tail(s) # << >> => Head(Tail(s)) = Tail(s)[1]
  BY TailFacts
<1>2. ASSUME NEW j \in 1 .. Len(Tail(s))
      PROVE  End(Tail(s)[j]) = IF j = Len(Tail(s)) THEN Earlier(root) ELSE Begin(Tail(s)[j + 1])
  <2>1. j + 1 \in 1 .. Len(s) /\ Tail(s)[j] = s[j + 1] /\ (j + 1 = Len(s) <=> j = Len(Tail(s)))
    BY <1>1
  <2>2. End(s[j + 1]) = IF j + 1 = Len(s) THEN Earlier(root) ELSE Begin(s[(j + 1) + 1])
    BY <2>1 DEF Chained
  <2>3. j # Len(Tail(s)) => Tail(s)[j + 1] = s[(j + 1) + 1]
    <3> DEFINE last == Len(Tail(s))
    <3>0. last \in Nat /\ j \in 1 .. last
      BY <1>1, LenProperties
    <3> HIDE DEF last
    <3>1. j # last => j + 1 \in 1 .. last
      BY <3>0
    <3> USE DEF last
    <3> QED BY <1>1, <3>1
  <2>4. CASE j = Len(Tail(s))
    BY <2>1, <2>2, <2>4
  <2>5. CASE j # Len(Tail(s))
    <3>1. End(s[j + 1]) = Begin(s[(j + 1) + 1])
      BY <2>1, <2>2, <2>5
    <3>2. End(Tail(s)[j]) = Begin(Tail(s)[j + 1])
      BY <2>1, <2>3, <2>5, <3>1, Zenon
    <3> QED BY <2>5, <3>2
  <2> QED BY <2>4, <2>5
<1>3. End(s[1]) = IF 1 = Len(s) THEN Earlier(root) ELSE Begin(s[1 + 1])
  <2>1. 1 \in 1 .. Len(s)
    BY <1>1
  <2> QED BY <2>1, Zenon DEF Chained
<1>4. Len(s) # 1 => Tail(s)[1] = s[1 + 1]
  <2>1. Len(s) # 1 => 1 \in 1 .. Len(Tail(s))
    BY <1>1
  <2> QED BY <1>1, <2>1
<1>5. End(Head(s)) = Reached(Tail(s))
  BY <1>1, <1>3, <1>4 DEF Reached
<1>6. Chained(Tail(s))
  BY <1>2 DEF Chained
<1> QED BY <1>1, <1>5, <1>6

LEMMA ChainPush ==
  ASSUME NEW s \in Seq(Calls), Chained(s), NEW c \in Calls, End(c) = Reached(s)
  PROVE  LET t == <<c>> \o s
         IN  /\ t \in Seq(Calls) /\ Chained(t) /\ Reached(t) = Begin(c)
             /\ t # << >> /\ t[1] = c
             /\ \A j \in 1 .. Len(t) : t[j] = c \/ \E k \in 1 .. Len(s) : t[j] = s[k]
<1> DEFINE t == <<c>> \o s
<1>1. /\ t \in Seq(Calls) /\ Len(t) = Len(s) + 1 /\ Len(s) \in Nat /\ t # << >>
      /\ Head(t) = c /\ t[1] = c /\ \A j \in 2 .. Len(t) : j - 1 \in 1 .. Len(s) /\ t[j] = s[j - 1]
      /\ s # << >> => Head(s) = s[1] /\ Len(s) >= 1
      /\ s = << >> => Len(s) = 0
  OBVIOUS
<1> HIDE DEF t
<1>2. ASSUME NEW j \in 1 .. Len(t)
      PROVE  End(t[j]) = IF j = Len(t) THEN Earlier(root) ELSE Begin(t[j + 1])
  <2>1. CASE j = 1
    <3>1. s # << >> => t[2] = s[1]
      BY <1>1
    <3> QED BY <1>1, <2>1, <3>1 DEF Reached
  <2>2. CASE j # 1
    <3> DEFINE k == j - 1
    <3>1. k \in 1 .. Len(s) /\ t[j] = s[k] /\ j = k + 1 /\ (j = Len(t) <=> k = Len(s))
      BY <1>1, <2>2
    <3>2. End(s[k]) = IF k = Len(s) THEN Earlier(root) ELSE Begin(s[k + 1])
      BY <3>1 DEF Chained
    <3>3. j # Len(t) => t[j + 1] = s[k + 1]
      <4>1. j # Len(t) => j + 1 \in 2 .. Len(t) /\ (j + 1) - 1 = k + 1
        BY <1>1, <3>1
      <4> QED BY <1>1, <4>1
    <3> HIDE DEF k
    <3> QED BY <3>1, <3>2, <3>3
  <2> QED BY <2>1, <2>2
<1>3. Chained(t) /\ Reached(t) = Begin(c)
  BY <1>1, <1>2 DEF Chained, Reached
<1>4. ASSUME NEW j \in 1 .. Len(t) PROVE t[j] = c \/ \E k \in 1 .. Len(s) : t[j] = s[k]
  BY <1>1
<1> QED BY <1>1, <1>3, <1>4 DEF t

LEMMA EmptyChain ==
  Chained(<< >>) /\ Reached(<< >>) = Earlier(root) /\ << >> \in Seq(Calls)
BY DEF Chained, Reached

LEMMA Pushed ==
  ASSUME NEW C, NEW a \in C, NEW b \in C, NEW c \in C, NEW s \in Seq(C)
  PROVE  /\ <<a, b>> \o s = <<a>> \o (<<b>> \o s)
         /\ <<a, b>> \o <<c>> \o s = <<a>> \o (<<b>> \o (<<c>> \o s))
         /\ << >> \o <<c>> \o s = <<c>> \o s
<1>1. <<a>> \in Seq(C) /\ <<b>> \in Seq(C) /\ <<c>> \in Seq(C) /\ <<a, b>> \in Seq(C)
  OBVIOUS
<1>2. <<a, b>> = <<a>> \o <<b>>
  <2> DEFINE t == <<a>> \o <<b>>
  <2>1. t \in Seq(C) /\ Len(t) = 2 /\ t[1] = a /\ t[2] = b
    BY <1>1, ConcatProperties
  <2>2. Len(<<a, b>>) = 2 /\ <<a, b>>[1] = a /\ <<a, b>>[2] = b
    OBVIOUS
  <2> HIDE DEF t
  <2>3. \A i \in 1 .. 2 : <<a, b>>[i] = t[i]
    <3>1. \A i \in 1 .. 2 : i = 1 \/ i = 2
      OBVIOUS
    <3> QED BY <2>1, <2>2, <3>1
  <2>4. <<a, b>> = t
    BY <1>1, <2>1, <2>2, <2>3, SeqEqual
  <2> QED BY <2>4 DEF t
<1>3. \A t \in Seq(C) : (<<a>> \o <<b>>) \o t = <<a>> \o (<<b>> \o t)
  BY <1>1, ConcatAssociative
<1>4. <<c>> \o s \in Seq(C) /\ (<<a, b>> \o <<c>>) \o s = <<a, b>> \o (<<c>> \o s)
  BY <1>1, ConcatAssociative, ConcatProperties
<1>5. << >> \o <<c>> = <<c>>
  BY <1>1, ConcatEmptySeq
<1> QED BY <1>2, <1>3, <1>4, <1>5

LEMMA PushedCalls ==
  \A a, b, c \in Calls : \A s \in Seq(Calls) :
    /\ <<a, b>> \o s = <<a>> \o (<<b>> \o s)
    /\ <<a, b>> \o <<c>> \o s = <<a>> \o (<<b>> \o (<<c>> \o s))
    /\ << >> \o <<c>> \o s = <<c>> \o s
BY Pushed, Zenon

-----------------------------------------------------------------------------
(* Walks leave the tree as it is *)

SameTree ==
  /\ DOMAIN nodes' = DOMAIN nodes
  /\ \A n \in DOMAIN nodes :
       /\ nodes'[n].left = nodes[n].left /\ nodes'[n].right = nodes[n].right
       /\ nodes'[n].size = nodes[n].size
       /\ nodes'[n].sax = nodes[n].sax /\ nodes'[n].masks = nodes[n].masks

LEMMA OrderFrame ==
  ASSUME DOMAIN nodes' = DOMAIN nodes
  PROVE  /\ \A n : /\ Below(n)' = Below(n) /\ Above(n)' = Above(n)
                   /\ LeftOf(n)' = LeftOf(n) /\ Before(n)' = Before(n)
         /\ \A i : Earlier(i)' = Earlier(i)
         /\ \A c : Begin(c)' = Begin(c) /\ End(c)' = End(c)
         /\ Calls' = Calls
<1>1. \A n : Below(n)' = Below(n) /\ Above(n)' = Above(n) /\ LeftOf(n)' = LeftOf(n)
  BY DEF Below, Above, LeftOf
<1>2. \A n : Before(n)' = Before(n)
  BY <1>1 DEF Before
<1>3. \A i : Earlier(i)' = Earlier(i)
  BY DEF Earlier
<1>4. \A c : Begin(c)' = Begin(c) /\ End(c)' = End(c)
  BY <1>1, <1>2 DEF Begin, End, Frees
<1>5. Calls' = Calls
  BY DEF Calls
<1> QED BY <1>1, <1>2, <1>3, <1>4, <1>5

LEMMA TreeFrame ==
  ASSUME Shape, Shared, SameTree
  PROVE  /\ Shape' /\ Shared' /\ sizes' = sizes /\ Inserted' = Inserted
         /\ \A n \in DOMAIN nodes : IsLeaf(n)' <=> IsLeaf(n)
         /\ \A S \in SUBSET DOMAIN nodes : Filed(S)' = Filed(S)
<1>1. \A n \in DOMAIN nodes : IsLeaf(n)' <=> IsLeaf(n)
  BY DEF SameTree, IsLeaf
<1>2. \A n : Below(n)' = Below(n)
  BY OrderFrame DEF SameTree
<1>3. sizes' = sizes
  BY DEF SameTree, sizes
<1>4. Shape'
  BY <1>1, <1>2 DEF SameTree, Shape
<1>5. ASSUME NEW n \in DOMAIN nodes
      PROVE  /\ \E r \in DOMAIN nodes : nodes'[n].sax = <<"sax", r>> /\ Shares(n, r)'
             /\ IF Len(n) = 1 THEN nodes'[n].masks = RootMasks
                ELSE \E p \in DOMAIN nodes : /\ ~IsLeaf(p)' /\ n \in {Left(p), Right(p)}
                                             /\ nodes'[n].masks = <<"masks", p>>
  <2>1. nodes'[n].sax = nodes[n].sax /\ nodes'[n].masks = nodes[n].masks
    BY DEF SameTree
  <2>2. \A r : Shares(n, r)' <=> Shares(n, r)
    BY <1>2 DEF SameTree, Shares
  <2>3. \E r \in DOMAIN nodes : nodes'[n].sax = <<"sax", r>> /\ Shares(n, r)'
    BY <2>1, <2>2 DEF Shared
  <2>4. IF Len(n) = 1 THEN nodes'[n].masks = RootMasks
        ELSE \E p \in DOMAIN nodes : /\ ~IsLeaf(p)' /\ n \in {Left(p), Right(p)}
                                     /\ nodes'[n].masks = <<"masks", p>>
    BY <1>1, <2>1 DEF Shared
  <2> QED BY <2>3, <2>4
<1>6. DOMAIN nodes' = DOMAIN nodes
  BY DEF SameTree
<1>7. Shared'
  BY <1>5, <1>6 DEF Shared
<1>8. \A S \in SUBSET DOMAIN nodes : Filed(S)' = Filed(S)
  BY DEF SameTree, Filed
<1>9. Inserted' = Inserted
  BY <1>3, <1>6 DEF Inserted
<1> QED BY <1>1, <1>3, <1>4, <1>7, <1>8, <1>9

LEMMA CallForms ==
  ASSUME NEW c \in Calls
  PROVE  /\ c.node \in DOMAIN nodes
         /\ Frees(c) => /\ c \in [function : {"freeNode", "free"}, node : DOMAIN nodes,
                                  free_mask : BOOLEAN, free_sax : BOOLEAN]
                        /\ c.function = "free" \/ c.function = "freeNode"
         /\ ~Frees(c) => /\ c \in [function : {"fetchPermutation", "squeezeNode", "inspectNode",
                                               "enqueueLeaf"}, node : DOMAIN nodes]
                         /\ c.function # "free" /\ c.function # "freeNode"
BY DEF Calls, Walks, Frees

LEMMA PlainCall ==
  ASSUME NEW f \in {"fetchPermutation", "squeezeNode", "inspectNode", "enqueueLeaf"},
         NEW n \in DOMAIN nodes
  PROVE  Call(f, n) \in Calls
BY DEF Calls, Walks, Call

LEMMA FreeingCall ==
  ASSUME NEW n \in DOMAIN nodes, NEW m \in BOOLEAN, NEW s \in BOOLEAN
  PROVE  FreeCall(n, m, s) \in Calls
BY DEF Calls, FreeCall

LEMMA Calling_ ==
  ASSUME Typed, Stack, todo # << >>
  PROVE  /\ Head(todo) \in Calls /\ Callee \in DOMAIN nodes /\ Fits(Head(todo))
         /\ Tail(todo) \in Seq(Calls) /\ Chained(Tail(todo))
         /\ End(Head(todo)) = Reached(Tail(todo)) /\ Done = Begin(Head(todo))
         /\ \A j \in 1 .. Len(Tail(todo)) : Fits(Tail(todo)[j])
         /\ phase \in DOMAIN Walks /\ root > 0
<1>1. todo \in Seq(Calls) /\ Chained(todo) /\ \A j \in 1 .. Len(todo) : Fits(todo[j])
  BY DEF Typed, Stack
<1>2. /\ Tail(todo) \in Seq(Calls) /\ Chained(Tail(todo)) /\ End(Head(todo)) = Reached(Tail(todo))
      /\ Head(todo) = todo[1] /\ Head(todo) \in Calls /\ 1 \in 1 .. Len(todo)
      /\ \A j \in 1 .. Len(Tail(todo)) : j + 1 \in 1 .. Len(todo) /\ Tail(todo)[j] = todo[j + 1]
  BY <1>1, ChainTail
<1>3. Callee \in DOMAIN nodes
  BY <1>2, CallForms DEF Callee
<1>4. Done = Begin(Head(todo))
  BY DEF Done, Reached
<1> QED BY <1>1, <1>2, <1>3, <1>4 DEF Stack

LEMMA FitsFrame ==
  ASSUME UNCHANGED <<phase, root, roots>>
  PROVE  \A c : Fits(c)' <=> Fits(c)
<1>1. \A n : InTree(n)' <=> InTree(n)
  BY DEF InTree
<1>2. \A i : FirstRoot(i)' <=> FirstRoot(i)
  BY DEF FirstRoot
<1> QED BY <1>1, <1>2 DEF Fits

\* A new stack of calls, of which each fits.
LEMMA NewStack ==
  ASSUME Typed, Stack, todo # << >>, SameTree, UNCHANGED <<phase, root, roots>>,
         NEW t \in Seq(Calls), todo' = t, Chained(t), \A j \in 1 .. Len(t) : Fits(t[j])
  PROVE  Stack' /\ Done' = Reached(t) /\ todo' \in Seq(Calls')
<1>1. /\ \A c : Begin(c)' = Begin(c) /\ End(c)' = End(c)
      /\ \A i : Earlier(i)' = Earlier(i)
      /\ Calls' = Calls
  BY OrderFrame DEF SameTree
<1>2. \A c : Fits(c)' <=> Fits(c)
  BY FitsFrame
<1>3. Chained(todo)'
  BY <1>1 DEF Chained
<1>4. (\A j \in 1 .. Len(todo) : Fits(todo[j]))'
  BY <1>2
<1>5. phase' \in DOMAIN Walks /\ root' > 0
  BY Calling_
<1>6. Stack'
  BY <1>3, <1>4, <1>5 DEF Stack
<1>7. Done' = Reached(t)
  BY <1>1 DEF Done, Reached
<1> QED BY <1>1, <1>6, <1>7

LEMMA ReturnStack ==
  ASSUME Typed, Stack, todo # << >>, SameTree, UNCHANGED <<phase, root, roots>>, Return
  PROVE  Stack' /\ Done' = End(Head(todo)) /\ todo' \in Seq(Calls')
<1>1. todo' = Tail(todo)
  BY DEF Return
<1> QED BY <1>1, Calling_, NewStack

\* Of a plain call at an inner node, the node itself is done.
LEMMA RecurseStack ==
  ASSUME Typed, Shape, Stack, todo # << >>, SameTree, UNCHANGED <<phase, root, roots>>, Recurse,
         ~Frees(Head(todo)), ~IsLeaf(Callee)
  PROVE  Stack' /\ Done' = Done \cup {Callee} /\ todo' \in Seq(Calls')
<1> DEFINE c == Head(todo)
           n == Callee
           l == Left(n)
           r == Right(n)
           a == [c EXCEPT !.node = l]
           b == [c EXCEPT !.node = r]
           rest == Tail(todo)
<1>1. /\ c \in Calls /\ n \in DOMAIN nodes /\ c.node = n /\ Fits(c)
      /\ rest \in Seq(Calls) /\ Chained(rest) /\ End(c) = Reached(rest) /\ Done = Begin(c)
      /\ \A j \in 1 .. Len(rest) : Fits(rest[j])
  BY Calling_ DEF Callee
<1>2. l \in DOMAIN nodes /\ r \in DOMAIN nodes /\ nodes[n].left = l /\ nodes[n].right = r
  BY <1>1 DEF Shape
<1>3. /\ c = Call(c.function, n) /\ ~Frees(c)
      /\ c.function \in {"fetchPermutation", "squeezeNode", "inspectNode", "enqueueLeaf"}
  BY <1>1, CallForms DEF Call
<1>4. a = Call(c.function, l) /\ b = Call(c.function, r)
  BY <1>3 DEF Call
<1>5. todo' = <<a, b>> \o rest
  BY <1>2 DEF Recurse
<1>6. /\ a.function = c.function /\ a.node = l /\ ~Frees(a)
      /\ b.function = c.function /\ b.node = r /\ ~Frees(b)
  BY <1>3, <1>4 DEF Call, Frees
<1>7. a \in Calls /\ b \in Calls
  BY <1>2, <1>3, <1>4, PlainCall
<1>8. /\ Below(n) = {n} \cup Below(l) \cup Below(r)
      /\ LeftOf(l) = LeftOf(n) /\ LeftOf(r) = LeftOf(n) \cup Below(l)
      /\ Above(l) = Above(n) \cup {n} /\ Above(r) = Above(n) \cup {n}
  BY <1>1, <1>2, Family
<1> HIDE DEF c, n, l, r, a, b, rest
<1>9. /\ Begin(c) = LeftOf(n) \cup Above(n) /\ End(c) = LeftOf(n) \cup Below(n) \cup Above(n)
      /\ Begin(a) = LeftOf(l) \cup Above(l) /\ End(a) = LeftOf(l) \cup Below(l) \cup Above(l)
      /\ Begin(b) = LeftOf(r) \cup Above(r) /\ End(b) = LeftOf(r) \cup Below(r) \cup Above(r)
  BY <1>1, <1>3, <1>6 DEF Begin, End, Before, Frees
<1>10. Begin(a) = Begin(c) \cup {n} /\ End(a) = Begin(b) /\ End(b) = End(c)
  BY <1>8, <1>9
<1>11. l[1] = n[1] /\ r[1] = n[1]
  BY <1>1, Paths, Appended DEF l, r, Left, Right
<1>12. Fits(a) /\ Fits(b)
  BY <1>1, <1>3, <1>6, <1>11 DEF Fits, InTree
<1> DEFINE t == <<b>> \o rest
           u == <<a>> \o t
<1>13. /\ t \in Seq(Calls) /\ Chained(t) /\ Reached(t) = Begin(b)
       /\ \A j \in 1 .. Len(t) : t[j] = b \/ \E k \in 1 .. Len(rest) : t[j] = rest[k]
  BY <1>1, <1>7, <1>10, ChainPush
<1>14. \A j \in 1 .. Len(t) : Fits(t[j])
  BY <1>1, <1>12, <1>13
<1> HIDE DEF t
<1>15. /\ u \in Seq(Calls) /\ Chained(u) /\ Reached(u) = Begin(a)
       /\ \A j \in 1 .. Len(u) : u[j] = a \/ \E k \in 1 .. Len(t) : u[j] = t[k]
  BY <1>7, <1>10, <1>13, ChainPush
<1>16. \A j \in 1 .. Len(u) : Fits(u[j])
  BY <1>12, <1>14, <1>15
<1>17. todo' = u
  <2>1. <<a, b>> \o rest = <<a>> \o (<<b>> \o rest)
    BY <1>1, <1>7, PushedCalls, Zenon
  <2> QED BY <1>5, <2>1 DEF t
<1> HIDE DEF u
<1>18. Stack' /\ Done' = Reached(u) /\ todo' \in Seq(Calls')
  BY <1>15, <1>16, <1>17, NewStack
<1>19. Done' = Done \cup {n}
  BY <1>1, <1>10, <1>15, <1>18
<1> QED BY <1>18, <1>19 DEF n

\* A call of freeNode only puts off the node until its children are gone.
LEMMA FreeNodeStack ==
  ASSUME Typed, Shape, Stack, FreeNode
  PROVE  Stack' /\ Done' = Done /\ todo' \in Seq(Calls')
<1> DEFINE c == Head(todo)
           n == Callee
           l == Left(n)
           r == Right(n)
           a == FreeCall(l, FALSE, FALSE)
           b == FreeCall(r, TRUE, TRUE)
           f == [c EXCEPT !.function = "free"]
           rest == Tail(todo)
<1>0. /\ todo # << >> /\ c.function = "freeNode" /\ SameTree /\ UNCHANGED <<phase, root, roots>>
      /\ todo' = FreeChildren(n) \o <<f>> \o rest
  BY DEF FreeNode, Calling, memory, SameTree
<1>1. /\ c \in Calls /\ n \in DOMAIN nodes /\ c.node = n /\ Fits(c)
      /\ rest \in Seq(Calls) /\ Chained(rest) /\ End(c) = Reached(rest) /\ Done = Begin(c)
      /\ \A j \in 1 .. Len(rest) : Fits(rest[j])
  BY <1>0, Calling_ DEF Callee
<1>2. Frees(c)
  BY <1>0 DEF Frees
<1>3. c \in [function : {"freeNode", "free"}, node : DOMAIN nodes,
             free_mask : BOOLEAN, free_sax : BOOLEAN]
  BY <1>1, <1>2, CallForms
<1>4. /\ f \in [function : {"freeNode", "free"}, node : DOMAIN nodes,
                free_mask : BOOLEAN, free_sax : BOOLEAN]
      /\ f.function = "free" /\ f.node = n /\ f.free_mask = c.free_mask /\ f.free_sax = c.free_sax
  BY <1>1, <1>3
<1>5. f \in Calls /\ Frees(f)
  BY <1>4 DEF Calls, Frees
<1>6. IsLeaf(n) => Below(n) = {n}
  BY <1>1, NotBefore DEF Shape
<1>7. ~IsLeaf(n) =>
        l \in DOMAIN nodes /\ r \in DOMAIN nodes /\ nodes[n].left = l /\ nodes[n].right = r
  BY <1>1 DEF Shape
<1>8. Below(n) \cap LeftOf(n) = {} /\ n \in Below(n)
  BY <1>1, NotBefore
<1>9. FreeChildren(n) = IF IsLeaf(n) THEN << >> ELSE <<a, b>>
  BY <1>7 DEF FreeChildren
<1>10. /\ Len(n) \in Nat /\ Len(l) = Len(n) + 1 /\ l[Len(n) + 1] = 0 /\ l[1] = n[1]
       /\ Len(r) = Len(n) + 1 /\ r[Len(n) + 1] = 1 /\ r[1] = n[1] /\ Len(n) >= 1
  BY <1>1, Paths, Appended DEF Left, Right
<1>11. /\ a.function = "freeNode" /\ a.node = l /\ a.free_mask = FALSE /\ a.free_sax = FALSE
       /\ b.function = "freeNode" /\ b.node = r /\ b.free_mask = TRUE /\ b.free_sax = TRUE
  BY DEF FreeCall
<1>12. ~IsLeaf(n) => a \in Calls /\ b \in Calls
  BY <1>7, FreeingCall
<1>13. ~IsLeaf(n) =>
         /\ Below(n) = {n} \cup Below(l) \cup Below(r)
         /\ LeftOf(l) = LeftOf(n) /\ LeftOf(r) = LeftOf(n) \cup Below(l)
         /\ n \notin Below(l) \cup Below(r)
  BY <1>1, <1>7, Family
<1> HIDE DEF c, n, l, r, a, b, f, rest
<1>14. /\ Begin(c) = LeftOf(n) /\ End(c) = LeftOf(n) \cup Below(n)
       /\ Begin(f) = LeftOf(n) \cup (Below(n) \ {n}) /\ End(f) = LeftOf(n) \cup Below(n)
       /\ Begin(a) = LeftOf(l) /\ End(a) = LeftOf(l) \cup Below(l)
       /\ Begin(b) = LeftOf(r) /\ End(b) = LeftOf(r) \cup Below(r)
  BY <1>0, <1>1, <1>4, <1>11 DEF Begin, End, Frees
<1>15. Fits(f)
  BY <1>1, <1>2, <1>4, <1>5 DEF Fits
<1> DEFINE s == <<f>> \o rest
<1>16. End(f) = Reached(rest)
  BY <1>1, <1>14
<1>17. /\ s \in Seq(Calls) /\ Chained(s) /\ Reached(s) = Begin(f)
       /\ \A j \in 1 .. Len(s) : s[j] = f \/ \E k \in 1 .. Len(rest) : s[j] = rest[k]
  BY <1>1, <1>5, <1>16, ChainPush
<1>18. \A j \in 1 .. Len(s) : Fits(s[j])
  BY <1>1, <1>15, <1>17
<1>19. CASE IsLeaf(n)
  <2>1. << >> \o <<f>> \o rest = s
    BY <1>1, <1>5, PushedCalls, Zenon
  <2>2. todo' = s
    BY <1>0, <1>9, <1>19, <2>1
  <2> HIDE DEF s
  <2>3. Stack' /\ Done' = Reached(s) /\ todo' \in Seq(Calls')
    BY <1>0, <1>17, <1>18, <2>2, NewStack
  <2>4. Begin(f) = Begin(c)
    BY <1>6, <1>14, <1>19
  <2> QED BY <1>1, <1>17, <2>3, <2>4
<1>20. CASE ~IsLeaf(n)
  <2> DEFINE t == <<b>> \o s
             u == <<a>> \o t
  <2>1. <<a, b>> \o <<f>> \o rest = u
    BY <1>1, <1>5, <1>12, <1>20, PushedCalls, Zenon
  <2>2. todo' = u
    BY <1>0, <1>9, <1>20, <2>1
  <2> HIDE DEF s
  <2>3. End(b) = Begin(f) /\ End(a) = Begin(b) /\ Begin(a) = Begin(c)
    BY <1>8, <1>13, <1>14, <1>20
  <2>4. Fits(a) /\ Fits(b)
    <3>1. ~OwnsSax(l) /\ OwnsSax(r) /\ Len(l) # 1 /\ Len(r) # 1 /\ l[Len(l)] = 0 /\ r[Len(r)] = 1
      BY <1>10 DEF OwnsSax
    <3>2. InTree(l) <=> InTree(n)
      BY <1>10 DEF InTree
    <3>3. InTree(r) <=> InTree(n)
      BY <1>10 DEF InTree
    <3>4. Frees(a) /\ Frees(b)
      BY <1>11 DEF Frees
    <3>5. n[1] = root - 1 /\ (phase = "free" \/ (phase = "fetch" /\ ~InTree(n)))
          /\ (phase = "free" => InTree(n))
      BY <1>1, <1>2 DEF Fits
    <3>6. Fits(a)
      BY <1>10, <1>11, <3>1, <3>2, <3>4, <3>5 DEF Fits
    <3>7. Fits(b)
      BY <1>10, <1>11, <3>1, <3>3, <3>4, <3>5 DEF Fits
    <3> QED BY <3>6, <3>7
  <2>5. /\ t \in Seq(Calls) /\ Chained(t) /\ Reached(t) = Begin(b)
        /\ \A j \in 1 .. Len(t) : t[j] = b \/ \E k \in 1 .. Len(s) : t[j] = s[k]
    BY <1>12, <1>17, <1>20, <2>3, ChainPush
  <2>6. \A j \in 1 .. Len(t) : Fits(t[j])
    BY <1>18, <2>4, <2>5
  <2> HIDE DEF t
  <2>7. /\ u \in Seq(Calls) /\ Chained(u) /\ Reached(u) = Begin(a)
        /\ \A j \in 1 .. Len(u) : u[j] = a \/ \E k \in 1 .. Len(t) : u[j] = t[k]
    BY <1>12, <1>20, <2>3, <2>5, ChainPush
  <2>8. \A j \in 1 .. Len(u) : Fits(u[j])
    BY <2>4, <2>6, <2>7
  <2> HIDE DEF u
  <2>9. Stack' /\ Done' = Reached(u) /\ todo' \in Seq(Calls')
    BY <1>0, <2>2, <2>7, <2>8, NewStack
  <2> QED BY <1>1, <2>3, <2>7, <2>9
<1> QED BY <1>19, <1>20

\* A call that returns is done with its node: a leaf, or a node to be freed.
LEMMA ReturnDone ==
  ASSUME Typed, Shape, Stack, todo # << >>, SameTree, UNCHANGED <<phase, root, roots>>, Return,
         (IsLeaf(Callee) /\ ~Frees(Head(todo))) \/ Head(todo).function = "free"
  PROVE  Stack' /\ Done' = Done \cup {Callee} /\ todo' \in Seq(Calls')
<1>1. Stack' /\ Done' = End(Head(todo)) /\ todo' \in Seq(Calls')
  BY ReturnStack
<1>2. Head(todo).node = Callee /\ Callee \in DOMAIN nodes /\ Done = Begin(Head(todo))
  BY Calling_ DEF Callee
<1>3. Callee \in Below(Callee)
  BY <1>2, NotBefore
<1>4. CASE IsLeaf(Callee) /\ ~Frees(Head(todo))
  <2>1. Below(Callee) = {Callee}
    BY <1>2, <1>3, <1>4 DEF Shape
  <2> QED BY <1>1, <1>2, <1>4, <2>1 DEF Begin, End, Before, Frees
<1>5. CASE Head(todo).function = "free"
  BY <1>1, <1>2, <1>3, <1>5 DEF Begin, End, Frees
<1> QED BY <1>4, <1>5

\* The node of a call is not done yet.
LEMMA NotDone ==
  ASSUME Typed, Stack, todo # << >>
  PROVE  Callee \notin Done
<1>1. Head(todo).node = Callee /\ Callee \in DOMAIN nodes /\ Done = Begin(Head(todo))
  BY Calling_ DEF Callee
<1>2. Callee \in Below(Callee) /\ Callee \notin Before(Callee) /\ Below(Callee) \cap LeftOf(Callee) = {}
  BY <1>1, NotBefore
<1> QED BY <1>1, <1>2 DEF Begin, Before

-----------------------------------------------------------------------------
(* What a step of a walk changes, and what it leaves alone *)

PlainFunctions == {"fetchPermutation", "squeezeNode", "inspectNode", "enqueueLeaf"}

\* A step of a walk that frees nothing has been at one more node.
PlainMove ==
  /\ SameTree /\ UNCHANGED <<phase, root, roots>>
  /\ Shape' /\ Shared' /\ Dropped' /\ Stack' /\ todo' \in Seq(Calls')
  /\ Done' = Done \cup {Callee} /\ Callee \in DOMAIN nodes /\ Callee \notin Done
  /\ InTree(Callee) /\ Head(todo).function = Walks[phase]
  /\ phase \in {"fetch", "squeeze", "inspect", "enqueue"}
  /\ Standing' = Standing /\ (RootMasksLive' <=> RootMasksLive)

LEMMA DroppedFrame ==
  ASSUME Typed, Dropped, SameTree, UNCHANGED <<phase, root, roots>>
  PROVE  Dropped' /\ \A n : InTree(n)' <=> InTree(n)
<1>1. \A i \in Roots : <<i>> \in DOMAIN nodes
  BY DEF Typed
<1>2. \A n \in DOMAIN nodes : (IsLeaf(n)' <=> IsLeaf(n)) /\ nodes'[n].size = nodes[n].size
  BY DEF SameTree, IsLeaf
<1>3. \A n : InTree(n)' <=> InTree(n)
  BY DEF InTree
<1> QED BY <1>1, <1>2, <1>3 DEF Dropped

LEMMA PlainMoves ==
  ASSUME Typed, Shape, Shared, Dropped, Stack, todo # << >>,
         SameTree, UNCHANGED <<phase, root, roots>>, Head(todo).function \in PlainFunctions,
         (IsLeaf(Callee) /\ Return) \/ (~IsLeaf(Callee) /\ Recurse)
  PROVE  PlainMove
<1>1. ~Frees(Head(todo))
  BY DEF PlainFunctions, Frees
<1>2. Stack' /\ Done' = Done \cup {Callee} /\ todo' \in Seq(Calls')
  BY <1>1, ReturnDone, RecurseStack
<1>3. Fits(Head(todo)) /\ Head(todo).node = Callee /\ Callee \in DOMAIN nodes /\ phase \in DOMAIN Walks
  BY Calling_ DEF Callee
<1>4. /\ InTree(Callee) /\ Head(todo).function = Walks[phase]
      /\ ~(phase = "free" \/ (phase = "fetch" /\ ~InTree(Callee)))
  BY <1>1, <1>3 DEF Fits
<1>5. Callee \notin Done
  BY NotDone
<1>6. phase \in {"fetch", "squeeze", "inspect", "enqueue"}
  BY <1>3, <1>4 DEF Walks
<1>7. Shape' /\ Shared'
  BY TreeFrame
<1>8. Dropped' /\ \A n : InTree(n)' <=> InTree(n)
  BY DroppedFrame
<1>9. RootMasksLive' <=> RootMasksLive
  BY <1>6 DEF RootMasksLive
<1>10. Standing' = Standing
  <2>1. DOMAIN nodes' = DOMAIN nodes /\ phase' = phase
    BY DEF SameTree
  <2>2. ASSUME NEW n \in DOMAIN nodes
        PROVE  InTree(n)' \/ (phase' = "fetch" /\ n \notin Done') <=>
               InTree(n) \/ (phase = "fetch" /\ n \notin Done)
    BY <1>2, <1>4, <1>8, <2>1
  <2> QED BY <1>6, <2>1, <2>2 DEF Standing
<1> QED BY <1>2, <1>3, <1>4, <1>5, <1>6, <1>7, <1>8, <1>9, <1>10 DEF PlainMove

\* Blocks and nodes are named differently; none is NULL.
LEMMA BlockNames ==
  ASSUME NEW n \in Seq(Nat)
  PROVE  /\ <<"node", n>> # NULL /\ <<"lock", n>> # NULL /\ <<"sax", n>> # NULL
         /\ <<"masks", n>> # NULL /\ <<"ids", n>> # NULL /\ <<"squeezed_masks", n>> # NULL
<1> DEFINE B == Kinds \X Seq(Nat)
<1>1. /\ <<"node", n>> \in B /\ <<"lock", n>> \in B /\ <<"sax", n>> \in B
      /\ <<"masks", n>> \in B /\ <<"ids", n>> \in B /\ <<"squeezed_masks", n>> \in B
  BY DEF Kinds
<1>2. NULL \notin B
  BY NullAssumption
<1> HIDE DEF B
<1> QED BY <1>1, <1>2, Zenon

LEMMA RootMasksName == RootMasks # NULL
<1>1. << >> \in Seq(Nat)
  OBVIOUS
<1> QED BY <1>1, BlockNames, Zenon DEF RootMasks

LEMMA NodeFields ==
  ASSUME Typed, NEW n \in DOMAIN nodes
  PROVE  /\ n \in Seq(Nat) /\ NodeTyped(n, nodes[n])
         /\ nodes[n].size \in Nat /\ nodes[n].start_id \in Int
         /\ nodes[n].ids \in {NULL, <<"ids", n>>}
         /\ nodes[n].squeezed_masks \in {NULL, <<"squeezed_masks", n>>}
         /\ nodes[n].left \in {NULL, Left(n)} /\ nodes[n].right \in {NULL, Right(n)}
BY DEF Typed, NodeTyped, IsPath, OrNull

LEMMA TypedFrame ==
  ASSUME Typed, SameTree, UNCHANGED <<phase, root, roots>>, todo' \in Seq(Calls'),
         \A n \in DOMAIN nodes : NodeTyped(n, nodes'[n]),
         leaves' \in Seq(DOMAIN nodes), num_leaves' \in Nat, counter' \in Int
  PROVE  Typed'
<1>1. DOMAIN nodes' = DOMAIN nodes
  BY DEF SameTree
<1> QED BY <1>1 DEF Typed, IsPath

LEMMA FetchedTree ==
  ASSUME Typed, FetchPermutation, Callee \in DOMAIN nodes
  PROVE  /\ SameTree /\ \A n \in DOMAIN nodes : NodeTyped(n, nodes'[n])
         /\ \A n \in DOMAIN nodes : n # Callee => nodes'[n] = nodes[n]
         /\ IsLeaf(Callee) => /\ nodes'[Callee].start_id = counter /\ nodes'[Callee].ids = NULL
                              /\ nodes'[Callee].squeezed_masks = nodes[Callee].squeezed_masks
<1>1. \A n \in DOMAIN nodes : NodeTyped(n, nodes[n])
  BY DEF Typed
<1>2. CASE ~IsLeaf(Callee)
  BY <1>1, <1>2 DEF FetchPermutation, SameTree
<1>3. CASE IsLeaf(Callee)
  <2> DEFINE n == Callee
             node == [nodes[n] EXCEPT !.start_id = counter, !.ids = NULL]
  <2>1. DOMAIN nodes' = DOMAIN nodes /\ nodes'[n] = node
        /\ \A m \in DOMAIN nodes : m # n => nodes'[m] = nodes[m]
    BY <1>3 DEF FetchPermutation
  <2>2. NodeTyped(n, nodes[n]) /\ n \in DOMAIN nodes /\ counter \in Int
    BY <1>1 DEF Typed
  <2> HIDE DEF n
  <2>3. NodeTyped(n, node) /\ node.start_id = counter /\ node.ids = NULL
        /\ node.squeezed_masks = nodes[n].squeezed_masks
        /\ node.left = nodes[n].left /\ node.right = nodes[n].right
        /\ node.size = nodes[n].size
        /\ node.sax = nodes[n].sax /\ node.masks = nodes[n].masks
    BY <2>2 DEF NodeTyped, OrNull
  <2> HIDE DEF node
  <2>4. SameTree
    BY <2>1, <2>3 DEF SameTree
  <2>5. \A m \in DOMAIN nodes : NodeTyped(m, nodes'[m])
    BY <1>1, <2>1, <2>3
  <2> QED BY <2>1, <2>3, <2>4, <2>5 DEF n
<1> QED BY <1>2, <1>3

LEMMA SqueezedTree ==
  ASSUME Typed, SqueezeNode, Callee \in DOMAIN nodes
  PROVE  /\ SameTree /\ \A n \in DOMAIN nodes : NodeTyped(n, nodes'[n])
         /\ \A n \in DOMAIN nodes : n # Callee => nodes'[n] = nodes[n]
         /\ nodes'[Callee].start_id = nodes[Callee].start_id /\ nodes'[Callee].ids = nodes[Callee].ids
         /\ IsLeaf(Callee) => nodes'[Callee].squeezed_masks = <<"squeezed_masks", Callee>>
<1>1. \A n \in DOMAIN nodes : NodeTyped(n, nodes[n])
  BY DEF Typed
<1>2. CASE ~IsLeaf(Callee)
  BY <1>1, <1>2 DEF SqueezeNode, SameTree
<1>3. CASE IsLeaf(Callee)
  <2> DEFINE n == Callee
             node == [nodes[n] EXCEPT !.squeezed_masks = <<"squeezed_masks", n>>]
  <2>1. DOMAIN nodes' = DOMAIN nodes /\ nodes'[n] = node
        /\ \A m \in DOMAIN nodes : m # n => nodes'[m] = nodes[m]
    BY <1>3 DEF SqueezeNode
  <2>2. NodeTyped(n, nodes[n]) /\ n \in DOMAIN nodes
    BY <1>1
  <2> HIDE DEF n
  <2>3. NodeTyped(n, node) /\ node.start_id = nodes[n].start_id /\ node.ids = nodes[n].ids
        /\ node.squeezed_masks = <<"squeezed_masks", n>>
        /\ node.left = nodes[n].left /\ node.right = nodes[n].right
        /\ node.size = nodes[n].size
        /\ node.sax = nodes[n].sax /\ node.masks = nodes[n].masks
    BY <2>2 DEF NodeTyped, OrNull
  <2> HIDE DEF node
  <2>4. SameTree
    BY <2>1, <2>3 DEF SameTree
  <2>5. \A m \in DOMAIN nodes : NodeTyped(m, nodes'[m])
    BY <1>1, <2>1, <2>3
  <2> QED BY <2>1, <2>3, <2>4, <2>5 DEF n
<1> QED BY <1>2, <1>3

LEMMA CallingFetch ==
  ASSUME IInv, FetchPermutation
  PROVE  PlainMove /\ phase = "fetch"
<1>1. Typed /\ Shape /\ Shared /\ Dropped /\ Stack
  BY DEF IInv
<1>2. /\ todo # << >> /\ Head(todo).function = "fetchPermutation" /\ UNCHANGED <<phase, root, roots>>
      /\ (IsLeaf(Callee) /\ Return) \/ (~IsLeaf(Callee) /\ Recurse)
  BY DEF FetchPermutation, Calling
<1>3. Callee \in DOMAIN nodes
  BY <1>1, <1>2, Calling_
<1>5. SameTree
  BY <1>1, <1>3, FetchedTree
<1>6. PlainMove
  BY <1>1, <1>2, <1>5, PlainMoves DEF PlainFunctions
<1> QED BY <1>2, <1>6 DEF PlainMove, Walks

LEMMA CallingSqueeze ==
  ASSUME IInv, SqueezeNode
  PROVE  PlainMove /\ phase = "squeeze"
<1>1. Typed /\ Shape /\ Shared /\ Dropped /\ Stack
  BY DEF IInv
<1>2. /\ todo # << >> /\ Head(todo).function = "squeezeNode" /\ UNCHANGED <<phase, root, roots>>
      /\ (IsLeaf(Callee) /\ Return) \/ (~IsLeaf(Callee) /\ Recurse)
  BY DEF SqueezeNode, Calling
<1>3. Callee \in DOMAIN nodes
  BY <1>1, <1>2, Calling_
<1>5. SameTree
  BY <1>1, <1>3, SqueezedTree
<1>6. PlainMove
  BY <1>1, <1>2, <1>5, PlainMoves DEF PlainFunctions
<1> QED BY <1>2, <1>6 DEF PlainMove, Walks

\* A node with series is a leaf.
LEMMA FiledLeaf ==
  ASSUME Typed, Shape, NEW n \in DOMAIN nodes, nodes[n].size # 0
  PROVE  IsLeaf(n)
BY DEF Shape

LEMMA CallingInspect ==
  ASSUME IInv, InspectNode
  PROVE  PlainMove /\ phase = "inspect"
<1>1. Typed /\ Shape /\ Shared /\ Dropped /\ Stack
  BY DEF IInv
<1>2. /\ todo # << >> /\ Head(todo).function = "inspectNode" /\ UNCHANGED <<phase, root, memory>>
  BY DEF InspectNode, Calling
<1>3. Callee \in DOMAIN nodes
  BY <1>1, <1>2, Calling_
<1>4. (IsLeaf(Callee) /\ Return) \/ (~IsLeaf(Callee) /\ Recurse)
  BY <1>1, <1>3, FiledLeaf DEF InspectNode
<1>5. SameTree /\ UNCHANGED <<phase, root, roots>>
  BY <1>2 DEF memory, SameTree
<1>6. PlainMove
  BY <1>1, <1>2, <1>4, <1>5, PlainMoves DEF PlainFunctions
<1> QED BY <1>2, <1>6 DEF PlainMove, Walks

LEMMA CallingEnqueue ==
  ASSUME IInv, EnqueueLeaf
  PROVE  PlainMove /\ phase = "enqueue"
<1>1. Typed /\ Shape /\ Shared /\ Dropped /\ Stack
  BY DEF IInv
<1>2. /\ todo # << >> /\ Head(todo).function = "enqueueLeaf" /\ UNCHANGED <<phase, root, memory>>
  BY DEF EnqueueLeaf, Calling
<1>3. Callee \in DOMAIN nodes
  BY <1>1, <1>2, Calling_
<1>4. (IsLeaf(Callee) /\ Return) \/ (~IsLeaf(Callee) /\ Recurse)
  BY <1>1, <1>3, FiledLeaf DEF EnqueueLeaf
<1>5. SameTree /\ UNCHANGED <<phase, root, roots>>
  BY <1>2 DEF memory, SameTree
<1>6. PlainMove
  BY <1>1, <1>2, <1>4, <1>5, PlainMoves DEF PlainFunctions
<1> QED BY <1>2, <1>6 DEF PlainMove, Walks

-----------------------------------------------------------------------------
(* What was counted *)

\* Sets of nodes: how many series they have, and how many of them have any.
LEMMA Counted ==
  ASSUME Typed, NEW S \in SUBSET DOMAIN nodes
  PROVE  /\ SumOver(sizes, S) \in Int /\ IsFiniteSet(Filed(S)) /\ Cardinality(Filed(S)) \in Nat
         /\ \A n \in DOMAIN nodes \ S :
              /\ SumOver(sizes, S \cup {n}) = SumOver(sizes, S) + nodes[n].size
              /\ Cardinality(Filed(S \cup {n})) =
                   Cardinality(Filed(S)) + IF nodes[n].size = 0 THEN 0 ELSE 1
<1>1. /\ IsFiniteSet(S) /\ DOMAIN sizes = DOMAIN nodes
      /\ \A n \in DOMAIN nodes : sizes[n] = nodes[n].size /\ sizes[n] \in Int
  BY FS_Subset, NodeFields DEF Typed, sizes
<1>2. SumOver(sizes, S) \in Int
  BY <1>1, SumType
<1>3. IsFiniteSet(Filed(S)) /\ Cardinality(Filed(S)) \in Nat
  BY <1>1, FS_Subset, FS_CardinalityType DEF Filed
<1>4. ASSUME NEW n \in DOMAIN nodes, n \notin S
      PROVE  /\ SumOver(sizes, S \cup {n}) = SumOver(sizes, S) + nodes[n].size
             /\ Cardinality(Filed(S \cup {n})) =
                  Cardinality(Filed(S)) + IF nodes[n].size = 0 THEN 0 ELSE 1
  <2>1. SumOver(sizes, S \cup {n}) = SumOver(sizes, S) + nodes[n].size
    <3>1. \A y \in S \cup {n} : sizes[y] \in Int
      BY <1>1, <1>4
    <3>2. SumOver(sizes, S \cup {n}) = SumOver(sizes, S) + sizes[n]
      BY <1>1, <1>4, <3>1, SumWith
    <3> QED BY <1>1, <3>2
  <2>2. CASE nodes[n].size = 0
    <3>1. Filed(S \cup {n}) = Filed(S)
      BY <2>2 DEF Filed
    <3> QED BY <1>3, <2>1, <2>2, <3>1
  <2>3. CASE nodes[n].size # 0
    <3>1. Filed(S \cup {n}) = Filed(S) \cup {n} /\ n \notin Filed(S)
      BY <1>4, <2>3 DEF Filed
    <3>2. Cardinality(Filed(S) \cup {n}) = Cardinality(Filed(S)) + 1
      BY <1>3, <3>1, FS_AddElement
    <3> QED BY <2>1, <2>3, <3>1, <3>2
  <2> QED BY <2>2, <2>3
<1> QED BY <1>2, <1>3, <1>4

LEMMA DoneNodes ==
  ASSUME Typed, Stack
  PROVE  Done \subseteq DOMAIN nodes
BY DEF Done, Reached, Begin, Earlier, Before, LeftOf, Above, Below

LEMMA PlainCounts ==
  ASSUME Typed, Shape, Shared, Stack, PlainMove
  PROVE  /\ SumOver(sizes, Done)' = SumOver(sizes, Done) + nodes[Callee].size
         /\ Cardinality(Filed(Done))' =
              Cardinality(Filed(Done)) + IF nodes[Callee].size = 0 THEN 0 ELSE 1
         /\ SumOver(sizes, Done) \in Int /\ Cardinality(Filed(Done)) \in Nat
         /\ Inserted' = Inserted /\ sizes' = sizes
         /\ Cardinality(Filed(DOMAIN nodes))' = Cardinality(Filed(DOMAIN nodes))
         /\ DOMAIN nodes' = DOMAIN nodes
<1>1. Done \subseteq DOMAIN nodes
  BY DoneNodes
<1>2. /\ SameTree /\ Done' = Done \cup {Callee} /\ Callee \in DOMAIN nodes /\ Callee \notin Done
      /\ DOMAIN nodes' = DOMAIN nodes
  BY DEF PlainMove, SameTree
<1>3. sizes' = sizes /\ Inserted' = Inserted
      /\ \A S \in SUBSET DOMAIN nodes : Filed(S)' = Filed(S)
  BY <1>2, TreeFrame
<1>4. /\ SumOver(sizes, Done \cup {Callee}) = SumOver(sizes, Done) + nodes[Callee].size
      /\ Cardinality(Filed(Done \cup {Callee})) =
           Cardinality(Filed(Done)) + IF nodes[Callee].size = 0 THEN 0 ELSE 1
      /\ SumOver(sizes, Done) \in Int /\ Cardinality(Filed(Done)) \in Nat
  BY <1>1, <1>2, Counted
<1>5. SumOver(sizes, Done)' = SumOver(sizes, Done \cup {Callee})
  BY <1>2, <1>3
<1>6. Filed(Done)' = Filed(Done \cup {Callee})
  BY <1>1, <1>2 DEF SameTree, Filed
<1>7. Filed(DOMAIN nodes)' = Filed(DOMAIN nodes)
  BY <1>2 DEF SameTree, Filed
<1> QED BY <1>2, <1>3, <1>4, <1>5, <1>6, <1>7

-----------------------------------------------------------------------------
(* The invariant after a step of each walk that frees nothing *)

LEMMA SameMemory ==
  ASSUME Memory, PlainMove, live' = live,
         \A n \in DOMAIN nodes : /\ nodes'[n].ids = nodes[n].ids
                                 /\ nodes'[n].squeezed_masks = nodes[n].squeezed_masks
  PROVE  Memory'
<1>1. /\ DOMAIN nodes' = DOMAIN nodes /\ Standing' = Standing /\ (RootMasksLive' <=> RootMasksLive)
      /\ \A n \in DOMAIN nodes : IsLeaf(n)' <=> IsLeaf(n)
  BY DEF PlainMove, SameTree, IsLeaf
<1> QED BY <1>1 DEF Memory

LEMMA PassedStep ==
  ASSUME PlainMove, NEW p, NEW n
  PROVE  Passed(p, n)' <=> Passed(p, n) \/ (p = phase /\ n = Callee)
BY DEF PlainMove, Passed, After

LEMMA FetchInvariant ==
  ASSUME IInv, FetchPermutation
  PROVE  IInv'
<1> DEFINE n == Callee
<1>1. PlainMove /\ phase = "fetch"
  BY CallingFetch
<1>2. Typed /\ Shape /\ Shared /\ Dropped /\ Stack /\ Memory /\ LeavesDone /\ Counts
  BY DEF IInv
<1>3. /\ SameTree /\ n \in DOMAIN nodes /\ Shape' /\ Shared' /\ Dropped' /\ Stack'
      /\ UNCHANGED <<phase, root, roots>> /\ todo' \in Seq(Calls') /\ DOMAIN nodes' = DOMAIN nodes
      /\ Done' = Done \cup {n} /\ n \notin Done
      /\ Standing' = Standing /\ (RootMasksLive' <=> RootMasksLive)
  BY <1>1 DEF PlainMove, SameTree
<1>4. UNCHANGED <<content, num_leaves, leaves>>
  BY DEF FetchPermutation
<1>5. /\ \A m \in DOMAIN nodes : NodeTyped(m, nodes'[m])
      /\ \A m \in DOMAIN nodes : m # n => nodes'[m] = nodes[m]
      /\ IsLeaf(n) => /\ nodes'[n].start_id = counter /\ nodes'[n].ids = NULL
                      /\ nodes'[n].squeezed_masks = nodes[n].squeezed_masks
  BY <1>2, <1>3, FetchedTree
<1>6. ~IsLeaf(n) => nodes' = nodes /\ live' = live /\ counter' = counter /\ nodes[n].size = 0
  BY <1>2, <1>3 DEF FetchPermutation, Shape
<1>7. IsLeaf(n) => live' = live \ {nodes[n].ids} /\ counter' = counter + nodes[n].size
  BY DEF FetchPermutation
<1>8. counter = SumOver(sizes, Done) /\ counter \in Int /\ nodes[n].size \in Nat
  BY <1>1, <1>2, <1>3, NodeFields DEF Counts, Typed
<1>9. counter' = counter + nodes[n].size
  BY <1>6, <1>7, <1>8
<1>10. \A m \in DOMAIN nodes : (IsLeaf(m)' <=> IsLeaf(m)) /\ (InTree(m)' <=> InTree(m))
  BY <1>3 DEF SameTree, IsLeaf, InTree
<1>11. Typed'
  <2>1. leaves' \in Seq(DOMAIN nodes) /\ num_leaves' \in Nat /\ counter' \in Int
    BY <1>2, <1>4, <1>8, <1>9 DEF Typed
  <2> QED BY <1>2, <1>3, <1>5, <2>1, TypedFrame
<1>12. Memory'
  <2>1. CASE ~IsLeaf(n)
    BY <1>1, <1>2, <1>6, <2>1, SameMemory
  <2>2. CASE IsLeaf(n)
    <3> HIDE DEF n
    <3>1. nodes[n].ids \in {NULL, <<"ids", n>>}
      BY <1>2, <1>3, NodeFields
    <3>2. live' = live \ {nodes[n].ids} /\ nodes'[n].ids = NULL
      BY <1>5, <1>7, <2>2
    <3>3. \A m \in DOMAIN nodes : m \in Seq(Nat)
      BY <1>2, NodeFields
    <3>4. \A m \in DOMAIN nodes :
            /\ <<"node", m>> # NULL /\ <<"lock", m>> # NULL /\ <<"sax", m>> # NULL
            /\ <<"masks", m>> # NULL /\ <<"ids", m>> # NULL /\ <<"squeezed_masks", m>> # NULL
      BY <3>3, BlockNames, Zenon
    <3>5. RootMasks # NULL
      BY RootMasksName
    <3>6. \A m \in DOMAIN nodes :
            /\ <<"node", m>> \in live' <=> <<"node", m>> \in live
            /\ <<"lock", m>> \in live' <=> <<"lock", m>> \in live
            /\ <<"sax", m>> \in live' <=> <<"sax", m>> \in live
            /\ <<"masks", m>> \in live' <=> <<"masks", m>> \in live
            /\ <<"squeezed_masks", m>> \in live' <=> <<"squeezed_masks", m>> \in live
            /\ m # n => (<<"ids", m>> \in live' <=> <<"ids", m>> \in live)
      BY <3>1, <3>2, <3>4
    <3>7. RootMasks \in live' <=> RootMasks \in live
      BY <3>1, <3>2, <3>5 DEF RootMasks
    <3>8. <<"ids", n>> \notin live'
      BY <1>2, <1>3, <3>1, <3>2 DEF Memory
    <3>9. \A m \in DOMAIN nodes : /\ nodes'[m].squeezed_masks = nodes[m].squeezed_masks
                                  /\ m # n => nodes'[m].ids = nodes[m].ids
      BY <1>5, <2>2
    <3>10. live' \subseteq (Kinds \X DOMAIN nodes) \cup {RootMasks}
      BY <1>2, <3>2 DEF Memory
    <3>11. /\ RootMasks \in live <=> RootMasksLive
           /\ \A m \in DOMAIN nodes :
                /\ <<"node", m>> \in live <=> m \in Standing
                /\ <<"lock", m>> \in live <=> m \in Standing
                /\ <<"sax", m>> \in live <=> m \in Standing /\ OwnsSax(m)
                /\ <<"masks", m>> \in live <=> ~IsLeaf(m) /\ Right(m) \in Standing
                /\ <<"ids", m>> \in live <=> m \in Standing /\ nodes[m].ids # NULL
                /\ <<"squeezed_masks", m>> \in live <=>
                     m \in Standing /\ nodes[m].squeezed_masks # NULL
      BY <1>2 DEF Memory
    <3>12. \A m \in DOMAIN nodes : <<"masks", m>> \in live' <=> ~IsLeaf(m)' /\ Right(m) \in Standing'
      BY <1>3, <1>10, <3>6, <3>11
    <3>13. \A m \in DOMAIN nodes : <<"ids", m>> \in live' <=> m \in Standing' /\ nodes'[m].ids # NULL
      BY <1>3, <3>2, <3>6, <3>8, <3>9, <3>11
    <3> QED BY <1>3, <3>6, <3>7, <3>9, <3>10, <3>11, <3>12, <3>13 DEF Memory
  <2> QED BY <2>1, <2>2
<1>13. LeavesDone'
  <2>1. ASSUME NEW m \in DOMAIN nodes, IsLeaf(m), InTree(m), Passed("fetch", m)'
        PROVE  nodes'[m].start_id = SumOver(sizes', Before(m)')
    <3>1. sizes' = sizes /\ Before(m)' = Before(m)
      BY <1>2, <1>3, TreeFrame, OrderFrame
    <3>2. CASE m = n
      <4>1. Done = Before(n)
        <5>1. Fits(Head(todo)) /\ Head(todo).node = n /\ Done = Begin(Head(todo)) /\ todo # << >>
          BY <1>2, Calling_ DEF FetchPermutation, Calling, Callee
        <5>2. Head(todo).function = "fetchPermutation"
          BY DEF FetchPermutation, Calling
        <5> QED BY <5>1, <5>2 DEF Begin
      <4> QED BY <1>5, <1>8, <2>1, <3>1, <3>2, <4>1
    <3>3. CASE m # n
      <4>1. Passed("fetch", m)
        BY <1>1, <2>1, <3>3, PassedStep
      <4> QED BY <1>2, <1>5, <2>1, <3>1, <3>3, <4>1 DEF LeavesDone
    <3> QED BY <3>2, <3>3
  <2>2. \A m : ~Passed("squeeze", m)'
    BY <1>1, <1>3 DEF Passed, After
  <2> QED BY <1>3, <1>10, <2>1, <2>2 DEF LeavesDone
<1>14. Counts'
  <2>1. /\ SumOver(sizes, Done)' = SumOver(sizes, Done) + nodes[n].size /\ Inserted' = Inserted
    BY <1>1, <1>2, PlainCounts
  <2>2. phase' = "fetch"
    BY <1>1, <1>3
  <2> QED BY <1>1, <1>2, <1>4, <1>8, <1>9, <2>1, <2>2 DEF Counts
<1> QED BY <1>3, <1>11, <1>12, <1>13, <1>14 DEF IInv

\* Only ancestors share a sax: what squeezeNode overwrites bounds no other leaf.
LEMMA LeafSaxes ==
  ASSUME Typed, Shape, Shared, NEW n \in DOMAIN nodes, NEW m \in DOMAIN nodes,
         IsLeaf(n), IsLeaf(m), nodes[n].sax = nodes[m].sax
  PROVE  n = m
<1>1. PICK r \in DOMAIN nodes : nodes[n].sax = <<"sax", r>> /\ Shares(n, r)
  BY DEF Shared
<1>2. PICK q \in DOMAIN nodes : nodes[m].sax = <<"sax", q>> /\ Shares(m, q)
  BY DEF Shared
<1>3. q = r
  <2>1. <<"sax", r>> = <<"sax", q>>
    BY <1>1, <1>2, Zenon
  <2>2. <<"sax", r>>[2] = <<"sax", q>>[2]
    BY <2>1, Zenon
  <2> QED BY <2>2
<1>4. /\ Len(r) <= Len(n) /\ (\A i \in 1 .. Len(r) : n[i] = r[i])
      /\ \A i \in Len(r) + 1 .. Len(n) : n[i] = 0
  BY <1>1 DEF Shares, Below
<1>5. /\ Len(r) <= Len(m) /\ (\A i \in 1 .. Len(r) : m[i] = r[i])
      /\ \A i \in Len(r) + 1 .. Len(m) : m[i] = 0
  BY <1>2, <1>3 DEF Shares, Below
<1>6. Len(n) \in Nat /\ Len(m) \in Nat /\ Len(r) \in Nat
  BY Paths
<1>7. \A i \in Nat : i <= Len(n) /\ i <= Len(m) /\ i >= 1 => n[i] = m[i]
  <2>1. ASSUME NEW i \in Nat, i <= Len(n), i <= Len(m), i >= 1 PROVE n[i] = m[i]
    <3>1. CASE i <= Len(r)
      BY <1>4, <1>5, <1>6, <2>1, <3>1
    <3>2. CASE ~(i <= Len(r))
      BY <1>4, <1>5, <1>6, <2>1, <3>2
    <3> QED BY <3>1, <3>2
  <2> QED BY <2>1
<1>8. CASE Len(n) <= Len(m)
  <2>1. m \in Below(n)
    BY <1>6, <1>7, <1>8 DEF Below
  <2> QED BY <2>1 DEF Shape
<1>9. CASE Len(m) <= Len(n)
  <2>1. n \in Below(m)
    BY <1>6, <1>7, <1>9 DEF Below
  <2> QED BY <2>1 DEF Shape
<1> QED BY <1>6, <1>8, <1>9

LEMMA SqueezeInvariant ==
  ASSUME IInv, SqueezeNode
  PROVE  IInv'
<1> DEFINE n == Callee
<1>1. PlainMove /\ phase = "squeeze"
  BY CallingSqueeze
<1>2. Typed /\ Shape /\ Shared /\ Dropped /\ Stack /\ Memory /\ LeavesDone /\ Counts
  BY DEF IInv
<1>3. /\ SameTree /\ n \in DOMAIN nodes /\ Shape' /\ Shared' /\ Dropped' /\ Stack'
      /\ UNCHANGED <<phase, root, roots>> /\ todo' \in Seq(Calls') /\ DOMAIN nodes' = DOMAIN nodes
      /\ Done' = Done \cup {n} /\ n \notin Done /\ InTree(n)
      /\ Standing' = Standing /\ (RootMasksLive' <=> RootMasksLive)
  BY <1>1 DEF PlainMove, SameTree
<1>4. UNCHANGED <<counter, num_leaves, leaves>>
  BY DEF SqueezeNode
<1>5. /\ \A m \in DOMAIN nodes : NodeTyped(m, nodes'[m])
      /\ \A m \in DOMAIN nodes : m # n => nodes'[m] = nodes[m]
      /\ nodes'[n].start_id = nodes[n].start_id /\ nodes'[n].ids = nodes[n].ids
      /\ IsLeaf(n) => nodes'[n].squeezed_masks = <<"squeezed_masks", n>>
  BY <1>2, <1>3, SqueezedTree
<1>6. ~IsLeaf(n) => nodes' = nodes /\ live' = live /\ content' = content
  BY DEF SqueezeNode
<1>7. IsLeaf(n) =>
        /\ live' = live \cup {<<"squeezed_masks", n>>}
        /\ content' = [b \in DOMAIN content \cup {nodes[n].sax} |->
                         IF b = nodes[n].sax THEN nodes[n].start_id ELSE content[b]]
  BY DEF SqueezeNode
<1>8. \A m \in DOMAIN nodes : (IsLeaf(m)' <=> IsLeaf(m)) /\ (InTree(m)' <=> InTree(m))
  BY <1>3 DEF SameTree, IsLeaf, InTree
<1>9. Typed'
  <2>1. leaves' \in Seq(DOMAIN nodes) /\ num_leaves' \in Nat /\ counter' \in Int
    BY <1>2, <1>4 DEF Typed
  <2> QED BY <1>2, <1>3, <1>5, <2>1, TypedFrame
<1> HIDE DEF n
<1>10. <<"squeezed_masks", n>> # NULL
  BY <1>2, <1>3, NodeFields, BlockNames, Zenon
<1>11. Memory'
  <2>1. CASE ~IsLeaf(n)
    BY <1>1, <1>2, <1>6, <2>1, SameMemory
  <2>2. CASE IsLeaf(n)
    <3>1. live' = live \cup {<<"squeezed_masks", n>>}
      BY <1>7, <2>2
    <3>2. \A m \in DOMAIN nodes :
            /\ <<"node", m>> \in live' <=> <<"node", m>> \in live
            /\ <<"lock", m>> \in live' <=> <<"lock", m>> \in live
            /\ <<"sax", m>> \in live' <=> <<"sax", m>> \in live
            /\ <<"masks", m>> \in live' <=> <<"masks", m>> \in live
            /\ <<"ids", m>> \in live' <=> <<"ids", m>> \in live
            /\ m # n => (<<"squeezed_masks", m>> \in live' <=> <<"squeezed_masks", m>> \in live)
      BY <3>1
    <3>3. RootMasks \in live' <=> RootMasks \in live
      BY <3>1 DEF RootMasks
    <3>4. <<"squeezed_masks", n>> \in live' /\ nodes'[n].squeezed_masks # NULL
      BY <1>5, <1>10, <2>2, <3>1
    <3>5. \A m \in DOMAIN nodes :
            /\ nodes'[m].ids = nodes[m].ids
            /\ m # n => nodes'[m].squeezed_masks = nodes[m].squeezed_masks
      BY <1>5
    <3>6. live' \subseteq (Kinds \X DOMAIN nodes) \cup {RootMasks}
      BY <1>2, <1>3, <3>1 DEF Memory, Kinds
    <3>7. /\ RootMasks \in live <=> RootMasksLive
          /\ \A m \in DOMAIN nodes :
               /\ <<"node", m>> \in live <=> m \in Standing
               /\ <<"lock", m>> \in live <=> m \in Standing
               /\ <<"sax", m>> \in live <=> m \in Standing /\ OwnsSax(m)
               /\ <<"masks", m>> \in live <=> ~IsLeaf(m) /\ Right(m) \in Standing
               /\ <<"ids", m>> \in live <=> m \in Standing /\ nodes[m].ids # NULL
               /\ <<"squeezed_masks", m>> \in live <=>
                    m \in Standing /\ nodes[m].squeezed_masks # NULL
      BY <1>2 DEF Memory
    <3>8. n \in Standing
      BY <1>1, <1>3 DEF Standing
    <3>9. \A m \in DOMAIN nodes : <<"masks", m>> \in live' <=> ~IsLeaf(m)' /\ Right(m) \in Standing'
      BY <1>3, <1>8, <3>2, <3>7
    <3>10. \A m \in DOMAIN nodes :
             <<"squeezed_masks", m>> \in live' <=> m \in Standing' /\ nodes'[m].squeezed_masks # NULL
      BY <1>3, <3>2, <3>4, <3>5, <3>7, <3>8
    <3> QED BY <1>3, <3>2, <3>3, <3>5, <3>6, <3>7, <3>9, <3>10 DEF Memory
  <2> QED BY <2>1, <2>2
<1>12. LeavesDone'
  <2>1. sizes' = sizes /\ \A m \in DOMAIN nodes : Before(m)' = Before(m)
                                                  /\ nodes'[m].sax = nodes[m].sax
    BY <1>2, <1>3, TreeFrame, OrderFrame DEF SameTree
  <2>2. ASSUME NEW m \in DOMAIN nodes, IsLeaf(m), InTree(m)
        PROVE  nodes'[m].start_id = SumOver(sizes', Before(m)')
    <3>1. Passed("fetch", m)
      BY <1>1 DEF Passed, After
    <3>2. nodes'[m].start_id = nodes[m].start_id
      BY <1>5
    <3> QED BY <1>2, <2>1, <2>2, <3>1, <3>2 DEF LeavesDone
  <2>3. ASSUME NEW m \in DOMAIN nodes, IsLeaf(m), InTree(m), Passed("squeeze", m)'
        PROVE  /\ nodes'[m].squeezed_masks # NULL /\ nodes'[m].sax \in DOMAIN content'
               /\ content'[nodes'[m].sax] = nodes'[m].start_id
    <3>1. CASE m = n
      <4>1. /\ nodes'[n].squeezed_masks = <<"squeezed_masks", n>>
            /\ nodes[n].sax \in DOMAIN content' /\ content'[nodes[n].sax] = nodes[n].start_id
        BY <1>5, <1>7, <2>3, <3>1
      <4> QED BY <1>3, <1>5, <1>10, <2>1, <3>1, <4>1
    <3>2. CASE m # n
      <4>1. Passed("squeeze", m)
        BY <1>1, <2>3, <3>2, PassedStep DEF n
      <4>2. /\ nodes[m].squeezed_masks # NULL /\ nodes[m].sax \in DOMAIN content
            /\ content[nodes[m].sax] = nodes[m].start_id
        BY <1>2, <2>3, <4>1 DEF LeavesDone
      <4>3. nodes'[m] = nodes[m]
        BY <1>5, <3>2
      <4>4. CASE IsLeaf(n)
        <5>1. nodes[m].sax # nodes[n].sax
          BY <1>2, <1>3, <2>3, <3>2, <4>4, LeafSaxes
        <5>2. nodes[m].sax \in DOMAIN content' /\ content'[nodes[m].sax] = content[nodes[m].sax]
          BY <1>7, <4>2, <4>4, <5>1
        <5> QED BY <4>2, <4>3, <5>2
      <4>5. CASE ~IsLeaf(n)
        BY <1>6, <4>2, <4>3, <4>5
      <4> QED BY <4>4, <4>5
    <3> QED BY <3>1, <3>2
  <2> QED BY <1>3, <1>8, <2>2, <2>3 DEF LeavesDone
<1>13. Counts'
  <2>1. Inserted' = Inserted /\ phase' = "squeeze"
    BY <1>1, <1>2, <1>3, PlainCounts
  <2> QED BY <1>1, <1>2, <1>4, <2>1 DEF Counts
<1> QED BY <1>3, <1>9, <1>11, <1>12, <1>13 DEF IInv

LEMMA InspectInvariant ==
  ASSUME IInv, InspectNode
  PROVE  IInv'
<1>1. PlainMove /\ phase = "inspect"
  BY CallingInspect
<1>2. Typed /\ Shape /\ Shared /\ Dropped /\ Stack /\ Memory /\ LeavesDone /\ Counts
  BY DEF IInv
<1>3. /\ SameTree /\ Shape' /\ Shared' /\ Dropped' /\ Stack' /\ Callee \in DOMAIN nodes
      /\ UNCHANGED <<phase, root, roots>> /\ todo' \in Seq(Calls') /\ DOMAIN nodes' = DOMAIN nodes
  BY <1>1 DEF PlainMove, SameTree
<1>4. UNCHANGED <<nodes, live, content, counter, leaves>>
  BY DEF InspectNode, memory
<1>5. num_leaves' = num_leaves + IF nodes[Callee].size = 0 THEN 0 ELSE 1
  BY <1>2 DEF InspectNode, Typed
<1>6. Typed'
  <2>1. leaves' \in Seq(DOMAIN nodes) /\ num_leaves' \in Nat /\ counter' \in Int
    BY <1>2, <1>4, <1>5 DEF Typed
  <2>2. \A m \in DOMAIN nodes : NodeTyped(m, nodes'[m])
    BY <1>2, <1>4 DEF Typed
  <2> QED BY <1>2, <1>3, <2>1, <2>2, TypedFrame
<1>7. Memory'
  BY <1>1, <1>2, <1>4, SameMemory
<1>8. LeavesDone'
  <2>1. sizes' = sizes /\ \A m : Before(m)' = Before(m)
    BY <1>2, <1>3, TreeFrame, OrderFrame
  <2>2. \A m : (IsLeaf(m)' <=> IsLeaf(m)) /\ (InTree(m)' <=> InTree(m))
    BY <1>3, <1>4 DEF IsLeaf, InTree
  <2>3. \A m : Passed("fetch", m) /\ Passed("squeeze", m)
    BY <1>1 DEF Passed, After
  <2> QED BY <1>2, <1>4, <2>1, <2>2, <2>3 DEF LeavesDone
<1>9. Counts'
  <2>1. /\ Inserted' = Inserted
        /\ Cardinality(Filed(Done))' =
             Cardinality(Filed(Done)) + IF nodes[Callee].size = 0 THEN 0 ELSE 1
    BY <1>1, <1>2, PlainCounts
  <2>2. phase' = "inspect" /\ num_leaves = Cardinality(Filed(Done)) /\ leaves = << >>
    BY <1>1, <1>2, <1>3 DEF Counts
  <2>3. num_leaves' = Cardinality(Filed(Done))'
    BY <1>5, <2>1, <2>2
  <2> QED BY <1>1, <1>2, <1>4, <2>1, <2>2, <2>3 DEF Counts
<1> QED BY <1>3, <1>6, <1>7, <1>8, <1>9 DEF IInv

LEMMA EnqueueInvariant ==
  ASSUME IInv, EnqueueLeaf
  PROVE  IInv'
<1> DEFINE n == Callee
<1>1. PlainMove /\ phase = "enqueue"
  BY CallingEnqueue
<1>2. Typed /\ Shape /\ Shared /\ Dropped /\ Stack /\ Memory /\ LeavesDone /\ Counts
  BY DEF IInv
<1>3. /\ SameTree /\ Shape' /\ Shared' /\ Dropped' /\ Stack' /\ n \in DOMAIN nodes
      /\ UNCHANGED <<phase, root, roots>> /\ todo' \in Seq(Calls') /\ DOMAIN nodes' = DOMAIN nodes
      /\ InTree(n)
  BY <1>1 DEF PlainMove, SameTree
<1>4. UNCHANGED <<nodes, live, content, counter, num_leaves>>
  BY DEF EnqueueLeaf, memory
<1>5. leaves' = IF nodes[n].size # 0 THEN Append(leaves, n) ELSE leaves
  BY DEF EnqueueLeaf
<1>6. Typed'
  <2>1. leaves' \in Seq(DOMAIN nodes) /\ num_leaves' \in Nat /\ counter' \in Int
    <3>1. leaves \in Seq(DOMAIN nodes) /\ num_leaves \in Nat /\ counter \in Int
      BY <1>2 DEF Typed
    <3> HIDE DEF n
    <3>2. Append(leaves, n) \in Seq(DOMAIN nodes)
      BY <1>3, <3>1
    <3> QED BY <1>4, <1>5, <3>1, <3>2
  <2>2. \A m \in DOMAIN nodes : NodeTyped(m, nodes'[m])
    BY <1>2, <1>4 DEF Typed
  <2> QED BY <1>2, <1>3, <2>1, <2>2, TypedFrame
<1>7. Memory'
  BY <1>1, <1>2, <1>4, SameMemory
<1>8. LeavesDone'
  <2>1. sizes' = sizes /\ \A m : Before(m)' = Before(m)
    BY <1>2, <1>3, TreeFrame, OrderFrame
  <2>2. \A m : (IsLeaf(m)' <=> IsLeaf(m)) /\ (InTree(m)' <=> InTree(m))
    BY <1>3, <1>4 DEF IsLeaf, InTree
  <2>3. \A m : Passed("fetch", m) /\ Passed("squeeze", m)
    BY <1>1 DEF Passed, After
  <2> QED BY <1>2, <1>4, <2>1, <2>2, <2>3 DEF LeavesDone
<1>9. Counts'
  <2>1. /\ Inserted' = Inserted /\ sizes' = sizes
        /\ SumOver(sizes, Done)' = SumOver(sizes, Done) + nodes[n].size
        /\ Cardinality(Filed(Done))' =
             Cardinality(Filed(Done)) + IF nodes[n].size = 0 THEN 0 ELSE 1
        /\ SumOver(sizes, Done) \in Int
        /\ Cardinality(Filed(DOMAIN nodes))' = Cardinality(Filed(DOMAIN nodes))
    BY <1>1, <1>2, PlainCounts
  <2>2. /\ phase' = "enqueue" /\ num_leaves = Cardinality(Filed(DOMAIN nodes))
        /\ Len(leaves) = Cardinality(Filed(Done))
        /\ SumOver(sizes, Done) = IF leaves = << >> THEN 0 ELSE EndOf(leaves[Len(leaves)])
        /\ \A j \in 1 .. Len(leaves) :
             nodes[leaves[j]].start_id = IF j = 1 THEN 0 ELSE EndOf(leaves[j - 1])
        /\ Inserted = DatabaseSize
    BY <1>1, <1>2, <1>3 DEF Counts
  <2>3. leaves \in Seq(DOMAIN nodes) /\ Len(leaves) \in Nat /\ nodes[n].size \in Nat
    BY <1>2, <1>3, NodeFields DEF Typed
  <2>4. \A m : EndOf(m)' = EndOf(m)
    BY <1>4 DEF EndOf
  <2>5. /\ Len(leaves') = Cardinality(Filed(Done))'
        /\ SumOver(sizes, Done)' = IF leaves' = << >> THEN 0 ELSE EndOf(leaves'[Len(leaves')])
        /\ \A j \in 1 .. Len(leaves') :
             nodes[leaves'[j]].start_id = IF j = 1 THEN 0 ELSE EndOf(leaves'[j - 1])
    <3>1. CASE nodes[n].size = 0
      BY <1>5, <2>1, <2>2, <3>1
    <3>2. CASE nodes[n].size # 0
      <4>1. nodes[n].start_id = SumOver(sizes, Done)
        <5>1. IsLeaf(n) /\ Passed("fetch", n)
          BY <1>1, <1>2, <1>3, <3>2, FiledLeaf DEF Passed, After
        <5>2. Done = Before(n)
          <6>1. Head(todo).node = n /\ Done = Begin(Head(todo)) /\ Head(todo).function = "enqueueLeaf"
            BY <1>2, Calling_ DEF EnqueueLeaf, Calling, Callee
          <6> QED BY <6>1 DEF Begin
        <5> QED BY <1>2, <1>3, <5>1, <5>2 DEF LeavesDone
      <4> DEFINE more == leaves'
                 k == Len(leaves)
      <4>2. /\ Len(more) = k + 1 /\ more[k + 1] = n /\ more # << >>
            /\ \A j \in 1 .. k : more[j] = leaves[j]
        BY <1>3, <1>5, <2>3, <3>2
      <4>3. k = 0 <=> leaves = << >>
        BY <2>3
      <4> HIDE DEF more, k
      <4>4. k \in Nat
        BY <2>3 DEF k
      <4>5. EndOf(more[k + 1]) = SumOver(sizes, Done) + nodes[n].size
        BY <4>1, <4>2 DEF EndOf
      <4>6. ASSUME NEW j \in 1 .. k + 1
            PROVE  nodes[more[j]].start_id = IF j = 1 THEN 0 ELSE EndOf(more[j - 1])
        <5>1. CASE j = k + 1
          <6>1. nodes[more[j]].start_id = IF k = 0 THEN 0 ELSE EndOf(leaves[k])
            BY <2>2, <4>1, <4>2, <4>3, <5>1 DEF k
          <6>2. k # 0 => more[j - 1] = leaves[k] /\ j # 1
            BY <4>2, <4>4, <5>1
          <6> QED BY <4>4, <5>1, <6>1, <6>2
        <5>2. CASE j \in 1 .. k
          <6>1. nodes[leaves[j]].start_id = IF j = 1 THEN 0 ELSE EndOf(leaves[j - 1])
            BY <2>2, <5>2 DEF k
          <6>2. j # 1 => j - 1 \in 1 .. k
            BY <4>4, <5>2
          <6> QED BY <4>2, <5>2, <6>1, <6>2
        <5> QED BY <4>4, <5>1, <5>2
      <4>7. Len(more) = Cardinality(Filed(Done))'
        BY <2>1, <2>2, <3>2, <4>2 DEF k
      <4>8. SumOver(sizes, Done)' = EndOf(more[Len(more)])
        BY <2>1, <4>2, <4>5
      <4> QED BY <4>2, <4>6, <4>7, <4>8 DEF more
    <3> QED BY <3>1, <3>2
  <2>6. /\ num_leaves' = Cardinality(Filed(DOMAIN nodes))' /\ Inserted' = DatabaseSize
    BY <1>4, <2>1, <2>2
  <2> HIDE DEF n
  <2>7. (\A j \in 1 .. Len(leaves) :
           nodes[leaves[j]].start_id = IF j = 1 THEN 0 ELSE EndOf(leaves[j - 1]))'
    BY <1>4, <2>5 DEF EndOf
  <2>8. (SumOver(sizes, Done) = IF leaves = << >> THEN 0 ELSE EndOf(leaves[Len(leaves)]))'
    BY <1>4, <2>5 DEF EndOf
  <2>9. phase' # "build" /\ phase' # "query" /\ phase' # "fetch" /\ phase' # "squeeze" /\ phase' # "inspect"
    BY <2>2
  <2>10. (Len(leaves) = Cardinality(Filed(Done)))'
    BY <2>5
  <2> QED BY <2>2, <2>6, <2>7, <2>8, <2>9, <2>10 DEF Counts
<1> QED BY <1>3, <1>6, <1>7, <1>8, <1>9 DEF IInv

-----------------------------------------------------------------------------
(* The invariant after a step of a walk that frees *)

LEMMA CallingFree ==
  ASSUME IInv, todo # << >>, Frees(Head(todo))
  PROVE  LET c == Head(todo)
             n == Callee
         IN  /\ n \in DOMAIN nodes /\ n \notin Done /\ n \in Standing /\ c.node = n
             /\ c.free_sax \in BOOLEAN /\ c.free_mask \in BOOLEAN
             /\ c.free_sax <=> OwnsSax(n)
             /\ c.free_mask <=> IF Len(n) = 1 THEN phase = "free" /\ FirstRoot(n[1])
                                ELSE n[Len(n)] = 1
             /\ (phase = "free" /\ InTree(n)) \/ (phase = "fetch" /\ ~InTree(n))
<1>1. Typed /\ Stack
  BY DEF IInv
<1>2. /\ Head(todo) \in Calls /\ Callee \in DOMAIN nodes /\ Fits(Head(todo))
      /\ Head(todo).node = Callee /\ Callee \notin Done
  BY <1>1, Calling_, NotDone DEF Callee
<1>3. Head(todo).free_sax \in BOOLEAN /\ Head(todo).free_mask \in BOOLEAN
  BY <1>2, CallForms
<1>4. /\ Head(todo).free_sax <=> OwnsSax(Callee)
      /\ Head(todo).free_mask <=>
           IF Len(Callee) = 1 THEN phase = "free" /\ FirstRoot(Callee[1]) ELSE Callee[Len(Callee)] = 1
      /\ (phase = "free" /\ InTree(Callee)) \/ (phase = "fetch" /\ ~InTree(Callee))
  BY <1>2 DEF Fits
<1>5. Callee \in Standing
  BY <1>2, <1>4 DEF Standing
<1> QED BY <1>2, <1>3, <1>4, <1>5

LEMMA FreeNodeInvariant ==
  ASSUME IInv, FreeNode
  PROVE  IInv'
<1>1. Typed /\ Shape /\ Shared /\ Dropped /\ Stack /\ Memory /\ LeavesDone /\ Counts
  BY DEF IInv
<1>2. /\ UNCHANGED <<phase, root, roots, nodes, live, content, counter, num_leaves, leaves>>
      /\ SameTree
  BY DEF FreeNode, memory, SameTree
<1>3. Stack' /\ Done' = Done /\ todo' \in Seq(Calls')
  BY <1>1, FreeNodeStack
<1>4. Shape' /\ Shared' /\ Dropped' /\ sizes' = sizes /\ Inserted' = Inserted
      /\ (\A m : InTree(m)' <=> InTree(m)) /\ \A m : IsLeaf(m)' <=> IsLeaf(m)
  BY <1>1, <1>2, TreeFrame, DroppedFrame DEF IsLeaf
<1>5. Typed'
  BY <1>1, <1>2, <1>3, TypedFrame DEF Typed
<1>6. Memory'
  <2>1. Standing' = Standing
    BY <1>2, <1>3, <1>4 DEF Standing
  <2>2. \A i : FirstRoot(i)' <=> FirstRoot(i)
    BY <1>2 DEF FirstRoot
  <2>3. RootMasksLive' <=> RootMasksLive
    BY <1>2, <1>3, <1>4, <2>2 DEF RootMasksLive
  <2> QED BY <1>1, <1>2, <1>4, <2>1, <2>3 DEF Memory
<1>7. LeavesDone'
  <2>1. \A m : Before(m)' = Before(m)
    BY <1>2, OrderFrame
  <2>2. \A p, m : Passed(p, m)' <=> Passed(p, m)
    BY <1>2, <1>3 DEF Passed
  <2> QED BY <1>1, <1>2, <1>4, <2>1, <2>2 DEF LeavesDone
<1>8. Counts'
  <2>1. /\ Filed(Done)' = Filed(Done) /\ Filed(DOMAIN nodes)' = Filed(DOMAIN nodes)
        /\ \A m : EndOf(m)' = EndOf(m)
    BY <1>2, <1>3 DEF Filed, EndOf
  <2> QED BY <1>1, <1>2, <1>3, <1>4, <2>1 DEF Counts
<1> QED BY <1>3, <1>4, <1>5, <1>6, <1>7, <1>8 DEF IInv

LEMMA Children ==
  ASSUME Typed, NEW m \in DOMAIN nodes
  PROVE  /\ Len(Left(m)) = Len(m) + 1 /\ Len(Right(m)) = Len(m) + 1
         /\ Len(m) \in Nat /\ Len(m) >= 1
         /\ Left(m)[Len(m) + 1] = 0 /\ Right(m)[Len(m) + 1] = 1
         /\ Left(m)[1] = m[1] /\ Right(m)[1] = m[1]
         /\ \A p \in DOMAIN nodes : Right(m) = Right(p) => m = p
<1>1. \A p \in DOMAIN nodes : p \in Seq(Nat) /\ Len(p) \in Nat /\ Len(p) >= 1
  BY Paths
<1>2. \A p \in DOMAIN nodes :
        /\ Len(Left(p)) = Len(p) + 1 /\ Left(p)[Len(p) + 1] = 0
        /\ \A i \in 1 .. Len(p) : Left(p)[i] = p[i]
  BY <1>1, Appended DEF Left
<1>3. \A p \in DOMAIN nodes :
        /\ Len(Right(p)) = Len(p) + 1 /\ Right(p)[Len(p) + 1] = 1
        /\ \A i \in 1 .. Len(p) : Right(p)[i] = p[i]
  BY <1>1, Appended DEF Right
<1>4. ASSUME NEW p \in DOMAIN nodes, Right(m) = Right(p) PROVE m = p
  <2>1. Len(m) = Len(p)
    BY <1>1, <1>3, <1>4
  <2>2. \A i \in 1 .. Len(m) : m[i] = p[i]
    BY <1>3, <1>4, <2>1
  <2> QED BY <1>1, <2>1, <2>2, EqualPaths
<1> QED BY <1>1, <1>2, <1>3, <1>4

LEMMA OwnSax ==
  ASSUME Typed, Shared, NEW n \in DOMAIN nodes, OwnsSax(n)
  PROVE  nodes[n].sax = <<"sax", n>>
<1>1. PICK r \in DOMAIN nodes : nodes[n].sax = <<"sax", r>> /\ Shares(n, r)
  BY DEF Shared
<1>2. /\ Len(r) <= Len(n) /\ (\A i \in 1 .. Len(r) : n[i] = r[i])
      /\ \A i \in Len(r) + 1 .. Len(n) : n[i] = 0
  BY <1>1 DEF Shares, Below
<1>3. n \in Seq(Nat) /\ r \in Seq(Nat) /\ Len(n) \in Nat /\ Len(r) \in Nat /\ Len(r) >= 1 /\ Len(n) >= 1
  BY Paths
<1>4. Len(n) = Len(r)
  <2>1. CASE Len(n) = 1
    BY <1>2, <1>3, <2>1
  <2>2. CASE Len(n) # 1
    <3>1. n[Len(n)] = 1
      BY <2>2 DEF OwnsSax
    <3>2. Len(n) \notin Len(r) + 1 .. Len(n)
      BY <1>2, <3>1
    <3> QED BY <1>2, <1>3, <3>2
  <2> QED BY <2>1, <2>2
<1>5. n = r
  BY <1>2, <1>3, <1>4, EqualPaths
<1> QED BY <1>1, <1>5

\* What a call frees: all the node owns, the masks of its siblings with the right
\* one, and those of the roots with the first of them.
LEMMA FreedBlocks ==
  ASSUME IInv, todo # << >>, Head(todo).function = "free"
  PROVE  LET n == Callee
             F == Freed(Head(todo))
         IN  /\ \A m \in DOMAIN nodes :
                  /\ <<"node", m>> \in F <=> m = n
                  /\ <<"lock", m>> \in F <=> m = n
                  /\ <<"sax", m>> \in F <=> m = n /\ OwnsSax(m)
                  /\ <<"masks", m>> \in F <=> Right(m) = n /\ ~IsLeaf(m)
                  /\ <<"ids", m>> \in F <=> m = n /\ nodes[m].ids # NULL
                  /\ <<"squeezed_masks", m>> \in F <=> m = n /\ nodes[m].squeezed_masks # NULL
             /\ RootMasks \in F <=> Len(n) = 1 /\ Head(todo).free_mask
             /\ \A b \in F : b = RootMasks \/ b \in Kinds \X DOMAIN nodes
<1> DEFINE n == Callee
           c == Head(todo)
           M == IF c.free_mask THEN {nodes[n].masks} ELSE {}
           X == IF c.free_sax THEN {nodes[n].sax} ELSE {}
           O == {nodes[n].squeezed_masks, nodes[n].ids} \ {NULL}
<1>1. Typed /\ Shape /\ Shared
  BY DEF IInv
<1>2. Frees(c)
  BY DEF Frees
<1>3. /\ n \in DOMAIN nodes /\ c.node = n /\ c.free_sax \in BOOLEAN /\ c.free_mask \in BOOLEAN
      /\ c.free_sax <=> OwnsSax(n)
      /\ c.free_mask <=> IF Len(n) = 1 THEN phase = "free" /\ FirstRoot(n[1]) ELSE n[Len(n)] = 1
  BY <1>2, CallingFree
<1>4. Freed(c) = {<<"node", n>>, <<"lock", n>>} \cup O \cup M \cup X
  BY <1>3 DEF Freed, Blocks
<1> HIDE DEF c, n
<1>5. X = IF OwnsSax(n) THEN {<<"sax", n>>} ELSE {}
  BY <1>1, <1>3, OwnSax
<1>6. /\ nodes[n].ids \in {NULL, <<"ids", n>>}
      /\ nodes[n].squeezed_masks \in {NULL, <<"squeezed_masks", n>>}
      /\ n \in Seq(Nat)
  BY <1>1, <1>3, NodeFields
<1>7. <<"ids", n>> # NULL /\ <<"squeezed_masks", n>> # NULL
  BY <1>6, BlockNames, Zenon
<1>8. O = (IF nodes[n].ids # NULL THEN {<<"ids", n>>} ELSE {})
            \cup IF nodes[n].squeezed_masks # NULL THEN {<<"squeezed_masks", n>>} ELSE {}
  BY <1>6, <1>7
<1>9. \A m \in DOMAIN nodes : Len(m) \in Nat /\ Len(m) >= 1 /\ m # << >>
                              /\ Len(Right(m)) = Len(m) + 1 /\ Right(m)[Len(m) + 1] = 1
                              /\ Len(Left(m)) = Len(m) + 1 /\ Left(m)[Len(m) + 1] = 0
  BY <1>1, Paths, Children
<1>10. /\ \A m \in DOMAIN nodes : <<"masks", m>> \in M <=> Right(m) = n /\ ~IsLeaf(m)
       /\ RootMasks \in M <=> Len(n) = 1 /\ c.free_mask
       /\ \A b \in M : b = RootMasks \/ \E p \in DOMAIN nodes : b = <<"masks", p>>
  <2>1. CASE Len(n) = 1
    <3>1. nodes[n].masks = RootMasks
      BY <1>1, <1>3, <2>1 DEF Shared
    <3>2. \A m \in DOMAIN nodes : Right(m) # n /\ <<"masks", m>> # RootMasks
      BY <1>3, <1>9, <2>1 DEF RootMasks
    <3> QED BY <2>1, <3>1, <3>2
  <2>2. CASE Len(n) # 1 /\ n[Len(n)] = 1
    <3>1. PICK p \in DOMAIN nodes : /\ ~IsLeaf(p) /\ n \in {Left(p), Right(p)}
                                    /\ nodes[n].masks = <<"masks", p>>
      BY <1>1, <1>3, <2>2 DEF Shared
    <3>2. n = Right(p)
      BY <1>9, <2>2, <3>1
    <3>3. \A m \in DOMAIN nodes : Right(m) = n => m = p
      BY <1>1, <3>2, Children
    <3>4. M = {<<"masks", p>>}
      BY <1>3, <2>2, <3>1
    <3>5. \A m \in DOMAIN nodes : <<"masks", m>> \in M <=> m = p
      BY <3>4
    <3>6. RootMasks \notin M
      BY <1>9, <3>4 DEF RootMasks
    <3> HIDE DEF M
    <3> QED BY <2>2, <3>1, <3>2, <3>3, <3>4, <3>5, <3>6
  <2>3. CASE Len(n) # 1 /\ n[Len(n)] # 1
    <3>1. M = {}
      BY <1>3, <2>3
    <3>2. \A m \in DOMAIN nodes : Right(m) # n
      BY <1>9, <2>3
    <3> HIDE DEF M
    <3> QED BY <2>3, <3>1, <3>2
  <2> QED BY <2>1, <2>2, <2>3
<1> HIDE DEF M, X, O
<1>11. \A m \in DOMAIN nodes :
         /\ <<"masks", m>> \notin O \cup X \cup {<<"node", n>>, <<"lock", n>>}
         /\ \A b \in M : b # <<"node", m>> /\ b # <<"lock", m>> /\ b # <<"sax", m>>
                         /\ b # <<"ids", m>> /\ b # <<"squeezed_masks", m>>
  BY <1>5, <1>8, <1>10 DEF RootMasks
<1>12. \A m \in DOMAIN nodes :
         /\ <<"node", m>> \in Freed(c) <=> m = n
         /\ <<"lock", m>> \in Freed(c) <=> m = n
         /\ <<"masks", m>> \in Freed(c) <=> Right(m) = n /\ ~IsLeaf(m)
  BY <1>4, <1>5, <1>8, <1>10, <1>11
<1>13. \A m \in DOMAIN nodes :
         /\ <<"sax", m>> \in Freed(c) <=> m = n /\ OwnsSax(m)
         /\ <<"ids", m>> \in Freed(c) <=> m = n /\ nodes[m].ids # NULL
         /\ <<"squeezed_masks", m>> \in Freed(c) <=> m = n /\ nodes[m].squeezed_masks # NULL
  BY <1>3, <1>4, <1>5, <1>8, <1>11
<1>14. RootMasks \in Freed(c) <=> Len(n) = 1 /\ c.free_mask
  <2>1. RootMasks \notin O \cup X \cup {<<"node", n>>, <<"lock", n>>}
    BY <1>5, <1>8 DEF RootMasks
  <2> QED BY <1>4, <1>10, <2>1
<1>15. \A b \in Freed(c) : b = RootMasks \/ b \in Kinds \X DOMAIN nodes
  BY <1>3, <1>4, <1>5, <1>8, <1>10 DEF Kinds
<1> QED BY <1>12, <1>13, <1>14, <1>15 DEF c, n

\* A root that was dropped is a leaf without series.
LEMMA DroppedRoot ==
  ASSUME Typed, Shape, Dropped, NEW n \in DOMAIN nodes, ~InTree(n)
  PROVE  IsLeaf(n) /\ nodes[n].size = 0 /\ n = <<n[1]>>
<1> DEFINE r == <<n[1]>>
<1>1. n[1] \in Roots /\ Len(n) \in Nat /\ Len(n) >= 1
  BY Paths
<1>2. r \in DOMAIN nodes /\ IsLeaf(r) /\ nodes[r].size = 0
  BY <1>1 DEF Typed, Dropped, InTree
<1>3. Len(r) = 1 /\ r[1] = n[1]
  OBVIOUS
<1> HIDE DEF r
<1>4. n \in Below(r)
  BY <1>1, <1>3 DEF Below
<1>5. n = r
  BY <1>2, <1>4 DEF Shape
<1> QED BY <1>2, <1>5 DEF r

LEMMA FreeInvariant ==
  ASSUME IInv, Free
  PROVE  IInv'
<1> DEFINE n == Callee
           c == Head(todo)
<1>1. Typed /\ Shape /\ Shared /\ Dropped /\ Stack /\ Memory /\ LeavesDone /\ Counts
  BY DEF IInv
<1>2. /\ UNCHANGED <<phase, root, roots, nodes, content, counter, num_leaves, leaves>>
      /\ SameTree /\ todo # << >> /\ c.function = "free" /\ Return /\ live' = live \ Freed(c)
  BY DEF Free, Calling, SameTree
<1>3. Frees(c)
  BY <1>2 DEF Frees
<1>4. Stack' /\ Done' = Done \cup {n} /\ todo' \in Seq(Calls')
  BY <1>1, <1>2, ReturnDone
<1>5. /\ n \in DOMAIN nodes /\ n \notin Done /\ n \in Standing
      /\ c.free_mask \in BOOLEAN
      /\ c.free_mask <=> IF Len(n) = 1 THEN phase = "free" /\ FirstRoot(n[1]) ELSE n[Len(n)] = 1
      /\ (phase = "free" /\ InTree(n)) \/ (phase = "fetch" /\ ~InTree(n))
  BY <1>2, <1>3, CallingFree
<1>6. Shape' /\ Shared' /\ Dropped' /\ sizes' = sizes /\ Inserted' = Inserted
      /\ (\A m : InTree(m)' <=> InTree(m)) /\ \A m : IsLeaf(m)' <=> IsLeaf(m)
  BY <1>1, <1>2, TreeFrame, DroppedFrame DEF IsLeaf
<1>7. Typed'
  BY <1>1, <1>2, <1>4, TypedFrame DEF Typed
<1>8. Memory'
  <2>1. Standing' = Standing \ {n}
    <3> HIDE DEF n
    <3>1. \A m \in DOMAIN nodes : m \in Standing' <=> m \in Standing /\ m # n
      BY <1>2, <1>4, <1>5, <1>6 DEF Standing
    <3>2. Standing' \subseteq DOMAIN nodes /\ Standing \subseteq DOMAIN nodes
      BY <1>2 DEF Standing
    <3> QED BY <3>1, <3>2
  <2>2. \A i : FirstRoot(i)' <=> FirstRoot(i)
    BY <1>2 DEF FirstRoot
  <2>3. Len(n) = 1 => n = <<n[1]>> /\ n[1] \in Roots
    <3>1. Len(n) = 1 => \A i \in 1 .. Len(n) : n[i] = <<n[1]>>[i]
      OBVIOUS
    <3>2. n \in Seq(Nat) /\ <<n[1]>> \in Seq(Nat) /\ Len(<<n[1]>>) = 1 /\ n[1] \in Roots
      <4>1. n \in Seq(Nat) /\ n[1] \in Roots /\ n[1] \in Nat
        BY <1>1, <1>5, Paths
      <4> QED BY <4>1
    <3> QED BY <3>1, <3>2, EqualPaths
  <2>4. \A i \in Roots : Len(<<i>>) = 1 /\ <<i>>[1] = i
    OBVIOUS
  <2>5. RootMasksLive' <=> RootMasksLive /\ ~(Len(n) = 1 /\ c.free_mask)
    <3> HIDE DEF n, c
    <3>1. CASE phase = "fetch"
      BY <1>2, <1>5, <3>1 DEF RootMasksLive
    <3>2. CASE phase = "free"
      <4>1. CASE Len(n) = 1
        BY <1>2, <1>4, <1>5, <1>6, <2>2, <2>3, <2>4, <3>2, <4>1 DEF RootMasksLive
      <4>2. CASE Len(n) # 1
        BY <1>2, <1>4, <1>5, <1>6, <2>2, <2>4, <3>2, <4>2 DEF RootMasksLive
      <4> QED BY <4>1, <4>2
    <3> QED BY <1>5, <3>1, <3>2
  <2> DEFINE F == Freed(c)
  <2>6. /\ \A m \in DOMAIN nodes :
             /\ <<"node", m>> \in F <=> m = n
             /\ <<"lock", m>> \in F <=> m = n
             /\ <<"sax", m>> \in F <=> m = n /\ OwnsSax(m)
             /\ <<"masks", m>> \in F <=> Right(m) = n /\ ~IsLeaf(m)
             /\ <<"ids", m>> \in F <=> m = n /\ nodes[m].ids # NULL
             /\ <<"squeezed_masks", m>> \in F <=> m = n /\ nodes[m].squeezed_masks # NULL
        /\ RootMasks \in F <=> Len(n) = 1 /\ c.free_mask
    BY <1>2, FreedBlocks
  <2>7. live' = live \ F
    BY <1>2
  <2> HIDE DEF n, c, F
  <2>8. live' \subseteq (Kinds \X DOMAIN nodes') \cup {RootMasks}
    BY <1>1, <1>2, <2>7 DEF Memory
  <2>9. RootMasks \in live' <=> RootMasksLive'
    BY <1>1, <2>5, <2>6, <2>7 DEF Memory
  <2>10. \A m \in DOMAIN nodes :
           /\ <<"node", m>> \in live' <=> m \in Standing'
           /\ <<"lock", m>> \in live' <=> m \in Standing'
           /\ <<"sax", m>> \in live' <=> m \in Standing' /\ OwnsSax(m)
           /\ <<"masks", m>> \in live' <=> ~IsLeaf(m) /\ Right(m) \in Standing'
           /\ <<"ids", m>> \in live' <=> m \in Standing' /\ nodes[m].ids # NULL
           /\ <<"squeezed_masks", m>> \in live' <=> m \in Standing' /\ nodes[m].squeezed_masks # NULL
    BY <1>1, <2>1, <2>6, <2>7 DEF Memory
  <2> QED BY <1>2, <1>6, <2>8, <2>9, <2>10 DEF Memory
<1>9. LeavesDone'
  <2>1. \A m : Before(m)' = Before(m)
    BY <1>2, OrderFrame
  <2>2. \A p, m : InTree(m) /\ Passed(p, m)' => Passed(p, m)
    BY <1>2, <1>4, <1>5 DEF Passed, After
  <2> QED BY <1>1, <1>2, <1>6, <2>1, <2>2 DEF LeavesDone
<1>10. Counts'
  <2>1. CASE phase = "fetch"
    <3>1. nodes[n].size = 0
      BY <1>1, <1>5, <2>1, DroppedRoot
    <3>2. Done \subseteq DOMAIN nodes
      BY <1>1, DoneNodes
    <3>3. SumOver(sizes, Done \cup {n}) = SumOver(sizes, Done) + 0 /\ SumOver(sizes, Done) \in Int
      BY <1>1, <1>5, <3>1, <3>2, Counted
    <3>4. SumOver(sizes, Done)' = SumOver(sizes, Done)
      BY <1>4, <1>6, <3>3
    <3>5. phase' = "fetch"
      BY <1>2, <2>1
    <3> QED BY <1>1, <1>2, <1>6, <2>1, <3>4, <3>5 DEF Counts
  <2>2. CASE phase = "free"
    <3>1. phase' = "free"
      BY <1>2, <2>2
    <3> QED BY <1>1, <1>6, <2>2, <3>1 DEF Counts
  <2> QED BY <1>5, <2>1, <2>2
<1> QED BY <1>4, <1>6, <1>7, <1>8, <1>9, <1>10 DEF IInv

-----------------------------------------------------------------------------
(* The loops of main *)

\* The calls that a loop over the roots may make at one of them.
RootCall(i) ==
  [squeeze |-> Call("squeezeNode", <<i>>), inspect |-> Call("inspectNode", <<i>>),
   enqueue |-> Call("enqueueLeaf", <<i>>), free |-> FreeCall(<<i>>, FirstRoot(i), TRUE)]

\* Either a call is made at the root, or it was dropped before and is skipped.
LEMMA RootCalled ==
  ASSUME Typed, Dropped, NextRoot
  PROVE  /\ root \in Roots /\ <<root>> \in DOMAIN nodes /\ todo = << >>
         /\ phase \in {"fetch", "squeeze", "inspect", "enqueue", "free"}
         /\ UNCHANGED <<phase, nodes, live, content, counter, num_leaves, leaves>>
         /\ root' = root + 1
         /\ \/ /\ ~InTree(<<root>>) /\ phase # "fetch" /\ todo' = << >> /\ roots' = roots
            \/ /\ InTree(<<root>>) /\ phase # "fetch" /\ todo' = <<RootCall(root)[phase]>>
               /\ roots' = roots
            \/ /\ InTree(<<root>>) /\ phase = "fetch" /\ roots' = roots
               /\ todo' = <<Call("fetchPermutation", <<root>>)>>
            \/ /\ InTree(<<root>>) /\ phase = "fetch" /\ todo' = <<FreeCall(<<root>>, FALSE, TRUE)>>
               /\ roots' = [roots EXCEPT ![root] = NULL]
               /\ nodes[<<root>>].size = 0 /\ IsLeaf(<<root>>)
<1>1. /\ root \in Roots /\ todo = << >> /\ root' = root + 1
      /\ phase \in {"fetch", "squeeze", "inspect", "enqueue", "free"}
      /\ UNCHANGED <<phase, nodes, live, content, counter, num_leaves, leaves>>
  <2>1. root \in 0 .. RootsSize /\ root < RootsSize
    BY DEF NextRoot, Typed
  <2>2. root \in Roots
    BY <2>1, NodesAssumption DEF Roots
  <2> QED BY <2>2 DEF NextRoot
<1>2. <<root>> \in DOMAIN nodes /\ roots[root] \in {<<root>>, NULL} /\ root < RootsSize
  BY <1>1 DEF Typed, NextRoot
<1>3. <<root>>[1] = root /\ (InTree(<<root>>) <=> roots[root] # NULL)
  BY DEF InTree
<1>4. CASE phase = "fetch"
  <2>1. root \in Nat /\ ~(root < root)
    BY <1>1 DEF Roots
  <2>2. roots[root] # NULL
    BY <1>1, <1>4, <2>1 DEF Dropped
  <2>3. FinalizeRoot(<<root>>)
    BY <1>2, <1>4, <2>2 DEF NextRoot
  <2> QED BY <1>1, <1>2, <1>3, <1>4, <2>2, <2>3 DEF FinalizeRoot
<1>5. CASE phase # "fetch" /\ roots[root] = NULL
  <2>1. todo' = << >> /\ roots' = roots
    BY <1>5 DEF NextRoot
  <2> QED BY <1>1, <1>2, <1>3, <1>5, <2>1
<1>6. CASE phase # "fetch" /\ roots[root] # NULL
  <2>1. roots[root] = <<root>>
    BY <1>2, <1>6
  <2>2. phase \in {"squeeze", "inspect", "enqueue", "free"}
    BY <1>1, <1>6
  <2>3. todo' = <<RootCall(root)[phase]>> /\ roots' = roots
    <3>1. roots' = roots /\ <<root>> # NULL
      BY <1>6, <2>1 DEF NextRoot
    <3>2. CASE phase = "squeeze"
      <4>1. todo' = <<Call("squeezeNode", <<root>>)>>
        BY <2>1, <3>1, <3>2 DEF NextRoot
      <4> QED BY <3>1, <3>2, <4>1 DEF RootCall
    <3>3. CASE phase = "inspect"
      <4>1. todo' = <<Call("inspectNode", <<root>>)>>
        BY <2>1, <3>1, <3>3 DEF NextRoot
      <4> QED BY <3>1, <3>3, <4>1 DEF RootCall
    <3>4. CASE phase = "enqueue"
      <4>1. todo' = <<Call("enqueueLeaf", <<root>>)>>
        BY <2>1, <3>1, <3>4 DEF NextRoot
      <4> QED BY <3>1, <3>4, <4>1 DEF RootCall
    <3>5. CASE phase = "free"
      <4>1. todo' = <<FreeCall(<<root>>, FirstRoot(root), TRUE)>>
        BY <2>1, <3>1, <3>5 DEF NextRoot
      <4> QED BY <3>1, <3>5, <4>1 DEF RootCall
    <3> QED BY <2>2, <3>2, <3>3, <3>4, <3>5
  <2> QED BY <1>1, <1>2, <1>3, <1>6, <2>3
<1> QED BY <1>4, <1>5, <1>6

LEMMA RootOrder ==
  ASSUME Typed, UNCHANGED nodes, root' = root + 1, NEW t, todo' = t
  PROVE  /\ Done' = IF t = << >> THEN Earlier(root + 1) ELSE Begin(Head(t))
         /\ Chained(todo)' <=>
              \A j \in 1 .. Len(t) :
                End(t[j]) = IF j = Len(t) THEN Earlier(root + 1) ELSE Begin(t[j + 1])
         /\ Calls' = Calls
<1>1. /\ \A c : Begin(c)' = Begin(c) /\ End(c)' = End(c)
      /\ \A i : Earlier(i)' = Earlier(i)
      /\ Calls' = Calls
  BY OrderFrame
<1>2. Done' = IF t = << >> THEN Earlier(root + 1) ELSE Begin(Head(t))
  BY <1>1 DEF Done, Reached
<1>3. Chained(todo)' <=>
        \A j \in 1 .. Len(t) :
          End(t[j]) = IF j = Len(t) THEN Earlier(root + 1) ELSE Begin(t[j + 1])
  BY <1>1 DEF Chained
<1> QED BY <1>1, <1>2, <1>3

\* The call at a root starts behind the roots before and ends with the nodes below it.
LEMMA RootStack ==
  ASSUME Typed, Dropped, Stack, NextRoot, NEW c, todo' = <<c>>, c \in Calls, c.node = <<root>>,
         c.function # "free", Fits(c)'
  PROVE  Stack' /\ Done' = Done /\ todo' \in Seq(Calls')
<1>1. /\ root \in Roots /\ todo = << >> /\ root' = root + 1 /\ UNCHANGED <<phase, nodes>>
      /\ phase \in {"fetch", "squeeze", "inspect", "enqueue", "free"}
  BY RootCalled
<1>2. /\ LeftOf(<<root>>) = Earlier(root) /\ Above(<<root>>) = {}
      /\ Earlier(root + 1) = Earlier(root) \cup Below(<<root>>)
  BY <1>1, RootsInOrder
<1>3. Begin(c) = Earlier(root) /\ End(c) = Earlier(root + 1)
  BY <1>2 DEF Begin, End, Before, Frees
<1> DEFINE t == <<c>>
<1>4. /\ Done' = IF t = << >> THEN Earlier(root + 1) ELSE Begin(Head(t))
      /\ Chained(todo)' <=>
           \A j \in 1 .. Len(t) :
             End(t[j]) = IF j = Len(t) THEN Earlier(root + 1) ELSE Begin(t[j + 1])
      /\ Calls' = Calls
  BY <1>1, RootOrder
<1>5. Len(t) = 1 /\ t[1] = c /\ t # << >> /\ Head(t) = c /\ \A j \in 1 .. Len(t) : j = 1
  OBVIOUS
<1> HIDE DEF t
<1>6. Done' = Done
  BY <1>1, <1>3, <1>4, <1>5 DEF Done, Reached
<1>7. Chained(todo)'
  BY <1>3, <1>4, <1>5
<1>8. (\A j \in 1 .. Len(todo) : Fits(todo[j]))'
  BY <1>5 DEF t
<1>9. phase' \in DOMAIN Walks /\ root' > 0
  BY <1>1 DEF Walks, Roots
<1>10. todo' \in Seq(Calls')
  BY <1>4
<1> QED BY <1>6, <1>7, <1>8, <1>9, <1>10 DEF Stack

LEMMA SkipStack ==
  ASSUME Typed, Shape, Dropped, Stack, NextRoot, ~InTree(<<root>>), todo' = << >>
  PROVE  Stack' /\ Done' = Done \cup {<<root>>} /\ todo' \in Seq(Calls') /\ <<root>> \notin Done
<1>1. /\ root \in Roots /\ todo = << >> /\ root' = root + 1 /\ UNCHANGED <<phase, nodes>>
      /\ phase \in {"fetch", "squeeze", "inspect", "enqueue", "free"}
      /\ <<root>> \in DOMAIN nodes
  BY RootCalled
<1>2. /\ LeftOf(<<root>>) = Earlier(root) /\ Above(<<root>>) = {}
      /\ Earlier(root + 1) = Earlier(root) \cup Below(<<root>>)
  BY <1>1, RootsInOrder
<1>3. Below(<<root>>) = {<<root>>} /\ <<root>> \notin LeftOf(<<root>>)
  BY <1>1, DroppedRoot, NotBefore DEF Shape
<1> DEFINE t == << >>
<1>4. /\ Done' = IF t = << >> THEN Earlier(root + 1) ELSE Begin(Head(t))
      /\ Chained(todo)' <=>
           \A j \in 1 .. Len(t) :
             End(t[j]) = IF j = Len(t) THEN Earlier(root + 1) ELSE Begin(t[j + 1])
  BY <1>1, RootOrder
<1>5. Done = Earlier(root)
  BY <1>1 DEF Done, Reached
<1>6. Stack'
  BY <1>4 DEF Stack
<1>7. todo' \in Seq(Calls')
  OBVIOUS
<1> QED BY <1>2, <1>3, <1>4, <1>5, <1>6, <1>7

LEMMA RootSteps ==
  ASSUME Typed, Shape, Dropped, Stack, NextRoot
  PROVE  /\ Stack' /\ todo' \in Seq(Calls')
         /\ \/ Done' = Done
            \/ /\ Done' = Done \cup {<<root>>} /\ <<root>> \notin Done /\ ~InTree(<<root>>)
               /\ roots' = roots /\ phase # "fetch"
         /\ \/ roots' = roots
            \/ /\ roots' = [roots EXCEPT ![root] = NULL] /\ phase = "fetch" /\ Done' = Done
               /\ nodes[<<root>>].size = 0 /\ IsLeaf(<<root>>) /\ <<root>> \notin Done
<1>0. PICK i \in Roots : i = root
  BY RootCalled
<1> DEFINE n == <<i>>
<1>1. /\ root \in Roots /\ n \in DOMAIN nodes /\ todo = << >> /\ root' = root + 1
      /\ phase \in {"fetch", "squeeze", "inspect", "enqueue", "free"}
      /\ UNCHANGED <<phase, nodes>>
  BY <1>0, RootCalled
<1>2. \/ ~InTree(n) /\ phase # "fetch" /\ todo' = << >> /\ roots' = roots
      \/ InTree(n) /\ phase # "fetch" /\ todo' = <<RootCall(root)[phase]>> /\ roots' = roots
      \/ /\ InTree(n) /\ phase = "fetch" /\ roots' = roots
         /\ todo' = <<Call("fetchPermutation", n)>>
      \/ /\ InTree(n) /\ phase = "fetch" /\ todo' = <<FreeCall(n, FALSE, TRUE)>>
         /\ roots' = [roots EXCEPT ![root] = NULL]
         /\ nodes[n].size = 0 /\ IsLeaf(n)
  BY <1>0, RootCalled
<1>3. n[1] = i /\ n[1] = root' - 1 /\ Len(n) = 1 /\ OwnsSax(n) /\ n = <<root>>
  BY <1>0, <1>1 DEF OwnsSax, Roots
<1> HIDE DEF n
<1>4. CASE ~InTree(n) /\ phase # "fetch" /\ todo' = << >> /\ roots' = roots
  BY <1>3, <1>4, SkipStack
<1>5. CASE InTree(n) /\ phase # "fetch" /\ todo' = <<RootCall(root)[phase]>> /\ roots' = roots
  <2>0. PICK c : c = RootCall(root)[phase]
    OBVIOUS
  <2>1. InTree(n)' /\ (FirstRoot(n[1])' <=> FirstRoot(root))
    BY <1>0, <1>3, <1>5 DEF InTree, FirstRoot
  <2>2. CASE phase = "free"
    <3>1. c = FreeCall(n, FirstRoot(root), TRUE) /\ FirstRoot(root) \in BOOLEAN
      BY <1>3, <2>0, <2>2 DEF RootCall, FirstRoot
    <3>2. /\ c \in Calls /\ c.node = n /\ c.function = "freeNode"
          /\ c.free_sax = TRUE /\ c.free_mask = FirstRoot(root)
      <4>1. c \in Calls
        BY <1>1, <3>1, FreeingCall
      <4> QED BY <3>1, <4>1 DEF FreeCall
    <3>3. Fits(c)'
      BY <1>1, <1>3, <2>1, <2>2, <3>2 DEF Fits, Frees
    <3>4. todo' = <<c>>
      BY <1>5, <2>0
    <3>5. Stack' /\ Done' = Done /\ todo' \in Seq(Calls')
      BY <3>2, <3>3, <3>4, RootStack, <1>3
    <3> QED BY <1>5, <3>5
  <2>3. CASE phase # "free"
    <3>1. phase \in {"squeeze", "inspect", "enqueue"}
      BY <1>1, <1>5, <2>3
    <3>2. c = Call(Walks[phase], n) /\ Walks[phase] \in PlainFunctions
      BY <1>3, <2>0, <3>1 DEF RootCall, Walks, PlainFunctions
    <3>3. c \in Calls /\ c.node = n /\ c.function = Walks[phase]
      <4>1. c \in Calls
        BY <1>1, <3>2, PlainCall DEF PlainFunctions
      <4> QED BY <3>2, <4>1 DEF Call
    <3>4. ~Frees(c)
      BY <3>2, <3>3 DEF Frees, PlainFunctions
    <3>5. Fits(c)'
      BY <1>1, <1>3, <1>5, <2>1, <2>3, <3>3, <3>4 DEF Fits, Frees
    <3>6. todo' = <<c>> /\ c.function # "free"
      BY <1>5, <2>0, <3>4 DEF Frees
    <3>7. Stack' /\ Done' = Done /\ todo' \in Seq(Calls')
      BY <3>3, <3>5, <3>6, RootStack, <1>3
    <3> QED BY <1>5, <3>7
  <2> QED BY <2>2, <2>3
<1>6. CASE /\ InTree(n) /\ phase = "fetch" /\ roots' = roots
           /\ todo' = <<Call("fetchPermutation", n)>>
  <2>0. PICK c : c = Call("fetchPermutation", n)
    OBVIOUS
  <2>1. InTree(n)'
    BY <1>3, <1>6 DEF InTree
  <2>2. c \in Calls /\ c.node = n /\ c.function = "fetchPermutation"
    <3>1. c \in Calls
      BY <1>1, <2>0, PlainCall
    <3> QED BY <2>0, <3>1 DEF Call
  <2>3. Fits(c)'
    BY <1>1, <1>3, <1>6, <2>1, <2>2 DEF Fits, Frees, Walks
  <2>4. todo' = <<c>>
    BY <1>6, <2>0
  <2>5. Stack' /\ Done' = Done /\ todo' \in Seq(Calls')
    BY <2>2, <2>3, <2>4, RootStack, <1>3
  <2> QED BY <1>6, <2>5
<1>7. CASE /\ InTree(n) /\ phase = "fetch" /\ todo' = <<FreeCall(n, FALSE, TRUE)>>
           /\ roots' = [roots EXCEPT ![root] = NULL]
           /\ nodes[n].size = 0 /\ IsLeaf(n)
  <2>0. PICK c : c = FreeCall(n, FALSE, TRUE)
    OBVIOUS
  <2>1. ~InTree(n)'
    BY <1>0, <1>1, <1>3, <1>7 DEF InTree, Typed
  <2>2. /\ c \in Calls /\ c.node = n /\ c.function = "freeNode"
        /\ c.free_sax = TRUE /\ c.free_mask = FALSE
    <3>1. c \in Calls
      BY <1>1, <2>0, FreeingCall
    <3> QED BY <2>0, <3>1 DEF FreeCall
  <2>3. Fits(c)'
    BY <1>1, <1>3, <1>7, <2>1, <2>2 DEF Fits, Frees
  <2>4. todo' = <<c>>
    BY <1>7, <2>0
  <2>5. Stack' /\ Done' = Done /\ todo' \in Seq(Calls')
    BY <2>2, <2>3, <2>4, RootStack, <1>3
  <2>6. n \notin Done
    BY <1>0, <1>1, <1>3 DEF Done, Reached, Earlier, Roots
  <2> QED BY <1>3, <1>7, <2>5, <2>6
<1> QED BY <1>2, <1>4, <1>5, <1>6, <1>7

LEMMA NextRootInvariant ==
  ASSUME IInv, NextRoot
  PROVE  IInv'
<1> DEFINE n == <<root>>
<1>1. Typed /\ Shape /\ Shared /\ Dropped /\ Stack /\ Memory /\ LeavesDone /\ Counts
  BY DEF IInv
<1>2. /\ root \in Roots /\ n \in DOMAIN nodes /\ root' = root + 1
      /\ phase \in {"fetch", "squeeze", "inspect", "enqueue", "free"}
      /\ UNCHANGED <<phase, nodes, live, content, counter, num_leaves, leaves>>
      /\ SameTree
  BY <1>1, RootCalled DEF SameTree
<1>3. /\ Stack' /\ todo' \in Seq(Calls')
      /\ \/ Done' = Done
         \/ /\ Done' = Done \cup {n} /\ n \notin Done /\ ~InTree(n)
            /\ roots' = roots /\ phase # "fetch"
      /\ \/ roots' = roots
         \/ /\ roots' = [roots EXCEPT ![root] = NULL] /\ phase = "fetch" /\ Done' = Done
            /\ nodes[n].size = 0 /\ IsLeaf(n) /\ n \notin Done
  BY <1>1, RootSteps
<1>4. n[1] = root
  OBVIOUS
<1>5. \A m \in DOMAIN nodes : m[1] = root /\ IsLeaf(n) => m = n
  <2>1. \A m \in DOMAIN nodes : Len(m) \in Nat /\ Len(m) >= 1
    BY <1>1, Paths
  <2>2. Len(n) = 1
    OBVIOUS
  <2> HIDE DEF n
  <2>3. \A m \in DOMAIN nodes : m[1] = root => m \in Below(n)
    BY <1>4, <2>1, <2>2 DEF Below
  <2> QED BY <1>1, <1>2, <2>3 DEF Shape
<1>6. Shape' /\ Shared' /\ sizes' = sizes /\ Inserted' = Inserted /\ \A m : IsLeaf(m)' <=> IsLeaf(m)
  BY <1>1, <1>2, TreeFrame DEF IsLeaf
<1>7. \A i \in Roots : roots'[i] = roots[i] \/ (i = root /\ roots'[i] = NULL /\ roots' # roots)
  BY <1>1, <1>3 DEF Typed
<1> HIDE DEF n
<1>8. \A m \in DOMAIN nodes :
        /\ InTree(m)' => InTree(m)
        /\ InTree(m) => InTree(m)' \/ (phase = "fetch" /\ m = n /\ n \notin Done /\ Done' = Done)
  <2>1. \A m \in DOMAIN nodes : m[1] \in Roots
    BY <1>1, Paths
  <2> QED BY <1>3, <1>5, <1>7, <2>1 DEF InTree
<1>9. Typed'
  <2>1. root' \in 0 .. RootsSize
    BY <1>2, NodesAssumption DEF Roots
  <2>2. roots' \in [Roots -> Seq(Nat) \cup {NULL}] /\ \A i \in Roots : roots'[i] \in {<<i>>, NULL}
    BY <1>1, <1>3, <1>7 DEF Typed
  <2> QED BY <1>1, <1>2, <1>3, <2>1, <2>2 DEF Typed
<1>10. Dropped'
  <2>1. \A i \in Roots : i \in Int /\ (i < root \/ i = root => i < root + 1)
    BY <1>2 DEF Roots
  <2> QED BY <1>1, <1>2, <1>3, <1>6, <1>7, <2>1 DEF Dropped, n
<1>11. Memory'
  <2>1. Standing' = Standing
    <3>1. \A m \in DOMAIN nodes : m \in Standing' <=> m \in Standing
      BY <1>2, <1>3, <1>8 DEF Standing
    <3>2. Standing' \subseteq DOMAIN nodes /\ Standing \subseteq DOMAIN nodes
      BY <1>2 DEF Standing
    <3> QED BY <3>1, <3>2
  <2>2. RootMasksLive' <=> RootMasksLive
    <3>1. CASE phase = "free"
      <4>1. roots' = roots
        BY <1>3, <3>1
      <4>2. (\A i : FirstRoot(i)' <=> FirstRoot(i)) /\ \A m : InTree(m)' <=> InTree(m)
        BY <4>1 DEF FirstRoot, InTree
      <4>3. \A m : InTree(m) => (m \in Done' <=> m \in Done)
        BY <1>3
      <4> QED BY <1>2, <4>2, <4>3 DEF RootMasksLive
    <3>2. CASE phase # "free"
      BY <1>2, <3>2 DEF RootMasksLive
    <3> QED BY <3>1, <3>2
  <2> QED BY <1>1, <1>2, <1>6, <2>1, <2>2 DEF Memory
<1>12. LeavesDone'
  <2>1. \A m : Before(m)' = Before(m)
    BY <1>2, OrderFrame
  <2>2. \A p, m : InTree(m) /\ Passed(p, m)' => Passed(p, m)
    BY <1>2, <1>3 DEF Passed, After
  <2> QED BY <1>1, <1>2, <1>6, <1>8, <2>1, <2>2 DEF LeavesDone
<1>13. Counts'
  <2>1. /\ SumOver(sizes, Done)' = SumOver(sizes, Done)
        /\ Cardinality(Filed(Done))' = Cardinality(Filed(Done))
    <3>1. CASE Done' = Done
      <4>1. Filed(Done)' = Filed(Done)
        BY <1>2, <3>1 DEF Filed
      <4> QED BY <1>6, <3>1, <4>1
    <3>2. CASE Done' = Done \cup {n} /\ n \notin Done /\ ~InTree(n)
      <4>1. nodes[n].size = 0
        BY <1>1, <1>2, <3>2, DroppedRoot
      <4>2. Done \subseteq DOMAIN nodes
        BY <1>1, DoneNodes
      <4>3. /\ SumOver(sizes, Done \cup {n}) = SumOver(sizes, Done)
            /\ Cardinality(Filed(Done \cup {n})) = Cardinality(Filed(Done))
        BY <1>1, <1>2, <3>2, <4>1, <4>2, Counted
      <4>4. Filed(Done)' = Filed(Done \cup {n})
        BY <1>2, <3>2 DEF Filed
      <4> QED BY <1>6, <3>2, <4>3, <4>4
    <3> QED BY <1>3, <3>1, <3>2
  <2>2. Filed(DOMAIN nodes)' = Filed(DOMAIN nodes) /\ \A m : EndOf(m)' = EndOf(m)
    BY <1>2 DEF Filed, EndOf
  <2> QED BY <1>1, <1>2, <1>6, <2>1, <2>2 DEF Counts
<1> QED BY <1>3, <1>6, <1>9, <1>10, <1>11, <1>12, <1>13 DEF IInv

\* Some root is left when the database is not empty, and so a first one is.
LEMMA RootLeft ==
  ASSUME Typed, Shape, Dropped, Inserted = DatabaseSize
  PROVE  \E i \in Roots : InTree(<<i>>) /\ FirstRoot(i)
<1>1. PICK n \in DOMAIN nodes : nodes[n].size # 0
  <2>1. ASSUME \A n \in DOMAIN nodes : nodes[n].size = 0 PROVE FALSE
    <3>1. IsFiniteSet(DOMAIN nodes) /\ \A n \in DOMAIN nodes : sizes[n] = 0
      BY <2>1 DEF Typed, sizes
    <3>2. Inserted = 0
      BY <3>1, SumOfZeros DEF Inserted
    <3> QED BY <3>2, NodesAssumption
  <2> QED BY <2>1
<1>2. InTree(n) /\ n[1] \in Roots
  BY <1>1, DroppedRoot, Paths
<1> DEFINE I == {i \in Roots : roots[i] # NULL}
<1>3. n[1] \in I /\ I \in SUBSET Nat
  BY <1>2, NodesAssumption DEF InTree, Roots
<1>4. PICK i \in I : \A j \in I : i <= j
  BY <1>3, Least
<1>5. \A j \in 0 .. i - 1 : j \in Roots /\ ~(i <= j)
  BY <1>3, NodesAssumption DEF Roots
<1>6. FirstRoot(i)
  BY <1>4, <1>5 DEF FirstRoot
<1>7. InTree(<<i>>)
  BY DEF InTree
<1> QED BY <1>4, <1>6, <1>7

LEMMA NextPhaseInvariant ==
  ASSUME IInv, NextPhase
  PROVE  IInv'
<1>1. Typed /\ Shape /\ Shared /\ Dropped /\ Stack /\ Memory /\ LeavesDone /\ Counts
  BY DEF IInv
<1>2. /\ UNCHANGED <<todo, roots, nodes, live, content, counter, num_leaves, leaves>>
      /\ root' = 0 /\ phase' = Following[phase] /\ PhaseDone
  BY DEF NextPhase, memory
<1>3. /\ \/ phase = "build" /\ phase' = "fetch" /\ Inserted = DatabaseSize
         \/ phase = "fetch" /\ phase' = "squeeze" /\ root = RootsSize
         \/ phase = "squeeze" /\ phase' = "inspect" /\ root = RootsSize
         \/ phase = "inspect" /\ phase' = "enqueue" /\ root = RootsSize
         \/ phase = "enqueue" /\ phase' = "query" /\ root = RootsSize
         \/ phase = "query" /\ phase' = "free"
         \/ phase = "free" /\ phase' = "done" /\ root = RootsSize
      /\ todo = << >>
  <2>1. phase \in {"build", "fetch", "squeeze", "inspect", "enqueue", "query", "free", "done"}
    BY <1>1 DEF Typed, Following
  <2>2. phase \in {"build", "query"} => todo = << >>
    BY <1>1 DEF Stack, Walks
  <2> QED BY <1>2, <2>1, <2>2 DEF PhaseDone, Following
<1>4. SameTree
  BY <1>2 DEF SameTree
<1>5. Shape' /\ Shared' /\ sizes' = sizes /\ Inserted' = Inserted
      /\ (\A m : IsLeaf(m)' <=> IsLeaf(m)) /\ \A m : InTree(m)' <=> InTree(m)
  BY <1>1, <1>2, <1>4, TreeFrame DEF IsLeaf, InTree
<1>6. root = RootsSize => Done = DOMAIN nodes
  <2>1. 0 \in Roots
    BY NodesAssumption DEF Roots
  <2>2. Earlier(RootsSize) = DOMAIN nodes
    BY <1>1, <2>1, RootsInOrder
  <2> QED BY <1>3, <2>2 DEF Done, Reached
<1>7. Done' = {}
  <2>1. \A m \in DOMAIN nodes : m[1] \in Nat
    BY <1>1, Paths, NodesAssumption DEF Roots
  <2> QED BY <1>2, <1>3, <2>1 DEF Done, Reached, Earlier
<1>8. Typed'
  <2>1. phase' \in DOMAIN Following \cup {"done"} /\ root' \in 0 .. RootsSize
    BY <1>2, <1>3, NodesAssumption DEF Following
  <2>2. Calls' = Calls
    BY <1>2, OrderFrame
  <2> QED BY <1>1, <1>2, <2>1, <2>2 DEF Typed
<1>9. Dropped'
  <2>1. \A i \in Roots : roots[i] = NULL => phase # "build"
    BY <1>1 DEF Dropped
  <2> QED BY <1>1, <1>2, <1>3, <1>5, <2>1 DEF Dropped
<1>10. Stack'
  BY <1>2, <1>3 DEF Stack, Chained
<1>11. Memory'
  <2>1. \A m \in DOMAIN nodes : phase = "build" => InTree(m)
    BY <1>1, Paths DEF Dropped, InTree
  <2>2. Standing' = Standing
    <3>1. \A m \in DOMAIN nodes : m \in Standing' <=> m \in Standing
      BY <1>2, <1>3, <1>5, <1>6, <1>7, <2>1 DEF Standing
    <3>2. Standing' \subseteq DOMAIN nodes /\ Standing \subseteq DOMAIN nodes
      BY <1>2 DEF Standing
    <3> QED BY <3>1, <3>2
  <2>3. RootMasksLive' <=> RootMasksLive
    <3>1. CASE phase = "free"
      <4>1. PICK i \in Roots : InTree(<<i>>) /\ FirstRoot(i)
        BY <1>1, <3>1, RootLeft DEF Counts
      <4>2. <<i>> \in Done
        BY <1>1, <1>3, <1>6, <3>1 DEF Typed
      <4>3. ~RootMasksLive
        BY <3>1, <4>1, <4>2 DEF RootMasksLive
      <4>4. phase' = "done"
        BY <1>3, <3>1
      <4> QED BY <4>3, <4>4 DEF RootMasksLive
    <3>2. CASE phase # "free"
      BY <1>3, <1>7, <3>2 DEF RootMasksLive
    <3> QED BY <3>1, <3>2
  <2> QED BY <1>1, <1>2, <1>5, <2>2, <2>3 DEF Memory
<1>12. LeavesDone'
  <2>1. \A m : Before(m)' = Before(m)
    BY <1>2, OrderFrame
  <2>2. \A m \in DOMAIN nodes : Passed("fetch", m)' => Passed("fetch", m)
    BY <1>3, <1>6, <1>7 DEF Passed, After
  <2>3. \A m \in DOMAIN nodes : Passed("squeeze", m)' => Passed("squeeze", m)
    BY <1>3, <1>6, <1>7 DEF Passed, After
  <2> QED BY <1>1, <1>2, <1>5, <2>1, <2>2, <2>3 DEF LeavesDone
<1>13. Counts'
  <2>1. Filed(Done)' = {} /\ Filed(DOMAIN nodes)' = Filed(DOMAIN nodes)
        /\ \A m : EndOf(m)' = EndOf(m)
    BY <1>2, <1>7 DEF Filed, EndOf
  <2>2. Cardinality({}) = 0 /\ SumOver(sizes, {}) = 0
    BY FS_EmptySet, SumOfNothing
  <2>3. Cardinality(Filed(Done))' = 0 /\ SumOver(sizes, Done)' = 0
    BY <1>5, <1>7, <2>1, <2>2
  <2>4. CASE phase = "build"
    BY <1>1, <1>2, <1>3, <1>5, <2>3, <2>4 DEF Counts
  <2>5. CASE phase = "fetch"
    BY <1>1, <1>2, <1>3, <1>5, <2>3, <2>5 DEF Counts
  <2>6. CASE phase = "squeeze"
    BY <1>1, <1>2, <1>3, <1>5, <2>3, <2>6 DEF Counts
  <2>7. CASE phase = "inspect"
    <3>1. phase' = "enqueue" /\ leaves' = << >> /\ Inserted' = DatabaseSize
      BY <1>1, <1>2, <1>3, <1>5, <2>7 DEF Counts
    <3>2. num_leaves' = Cardinality(Filed(DOMAIN nodes))'
      <4>1. num_leaves = Cardinality(Filed(DOMAIN nodes))
        BY <1>1, <1>3, <1>6, <2>7 DEF Counts
      <4> QED BY <1>2, <2>1, <4>1
    <3>3. Len(leaves') = 0 /\ 1 .. Len(leaves') = {}
      BY <3>1
    <3> QED BY <2>3, <3>1, <3>2, <3>3 DEF Counts
  <2>8. CASE phase = "enqueue"
    BY <1>1, <1>2, <1>3, <1>5, <1>6, <2>1, <2>8 DEF Counts
  <2>9. CASE phase \in {"query", "free"}
    BY <1>1, <1>2, <1>3, <1>5, <2>9 DEF Counts
  <2> QED BY <1>3, <2>4, <2>5, <2>6, <2>7, <2>8, <2>9
<1> QED BY <1>5, <1>8, <1>9, <1>10, <1>11, <1>12, <1>13 DEF IInv

-----------------------------------------------------------------------------
(* The tree grows *)

\* While it does no root was dropped, and nothing of what comes later has begun.
LEMMA Building ==
  ASSUME IInv, phase = "build"
  PROVE  /\ todo = << >> /\ counter = 0 /\ num_leaves = 0 /\ leaves = << >>
         /\ \A n \in DOMAIN nodes : InTree(n)
         /\ Standing = DOMAIN nodes /\ RootMasksLive
<1>1. todo = << >> /\ counter = 0 /\ num_leaves = 0 /\ leaves = << >>
  BY DEF IInv, Stack, Walks, Counts
<1>2. \A n \in DOMAIN nodes : InTree(n)
  BY Paths DEF IInv, Dropped, InTree
<1>3. Standing = DOMAIN nodes /\ RootMasksLive
  BY <1>2 DEF Standing, RootMasksLive
<1> QED BY <1>1, <1>2, <1>3

\* What remains to be shown of a step that builds.
LEMMA StillBuilding ==
  ASSUME IInv, phase = "build",
         UNCHANGED <<phase, root, todo, roots, content, counter, num_leaves, leaves>>,
         DOMAIN nodes \subseteq DOMAIN nodes'
  PROVE  /\ Dropped' /\ Stack' /\ LeavesDone' /\ Counts'
         /\ Standing' = {n \in DOMAIN nodes' : InTree(n)} /\ RootMasksLive'
         /\ todo' \in Seq(Calls') /\ leaves' \in Seq(DOMAIN nodes')
<1>1. /\ todo = << >> /\ counter = 0 /\ num_leaves = 0 /\ leaves = << >>
      /\ \A n \in DOMAIN nodes : InTree(n)
  BY Building
<1>2. \A i \in Roots : roots[i] # NULL
  BY DEF IInv, Dropped
<1>3. Dropped'
  BY <1>2 DEF Dropped
<1>4. Stack'
  BY <1>1 DEF Stack, Walks, Chained
<1>5. LeavesDone'
  <2>1. \A p, m : p \in {"fetch", "squeeze"} => ~Passed(p, m)'
    BY DEF Passed, After
  <2> QED BY <2>1 DEF LeavesDone
<1>6. Counts'
  BY <1>1 DEF Counts
<1>7. Standing' = {n \in DOMAIN nodes' : InTree(n)} /\ RootMasksLive'
  BY DEF Standing, RootMasksLive, InTree
<1>8. todo' \in Seq(Calls') /\ leaves' \in Seq(DOMAIN nodes')
  BY <1>1
<1> QED BY <1>3, <1>4, <1>5, <1>6, <1>7, <1>8

LEMMA FilledNode ==
  ASSUME NEW n, NEW node, NodeTyped(n, node), NEW k \in Nat, NEW f, f = Filled(node, n, k)
  PROVE  /\ NodeTyped(n, f)
         /\ k = 0 => f = node
         /\ k # 0 => f.ids = <<"ids", n>> /\ f.size = k
         /\ f.left = node.left /\ f.right = node.right
         /\ f.sax = node.sax /\ f.masks = node.masks
         /\ f.squeezed_masks = node.squeezed_masks
<1>1. CASE k = 0
  BY <1>1 DEF Filled
<1>2. CASE k # 0
  <2>1. f = [node EXCEPT !.ids = <<"ids", n>>, !.size = k]
    BY <1>2 DEF Filled
  <2>2. NodeTyped(n, f)
    <3>1. <<"ids", n>> \in OrNull(<<"ids", n>>)
      BY DEF OrNull
    <3> QED BY <2>1, <3>1 DEF NodeTyped
  <2>3. /\ f.ids = <<"ids", n>> /\ f.size = k
        /\ f.left = node.left /\ f.right = node.right
        /\ f.sax = node.sax /\ f.masks = node.masks
        /\ f.squeezed_masks = node.squeezed_masks
    BY <2>1 DEF NodeTyped
  <2> QED BY <1>2, <2>2, <2>3
<1> QED BY <1>1, <1>2

LEMMA InsertNodeInvariant ==
  ASSUME IInv, NEW n \in DOMAIN nodes, InsertNode(n)
  PROVE  IInv'
<1>1. Typed /\ Shape /\ Shared /\ Memory
  BY DEF IInv
<1>2. /\ phase = "build" /\ IsLeaf(n)
      /\ UNCHANGED <<phase, root, todo, roots, content, counter, num_leaves, leaves>>
      /\ nodes' = [nodes EXCEPT ![n] = Filled(nodes[n], n, nodes[n].size + 1)]
      /\ live' = live \cup {<<"ids", n>>}
  BY DEF InsertNode
<1>3. NodeTyped(n, nodes[n]) /\ nodes[n].size \in Nat /\ n \in Seq(Nat)
  BY <1>1, NodeFields
<1>4. PICK k, node : /\ k \in Nat \ {0} /\ k = nodes[n].size + 1
                     /\ node = Filled(nodes[n], n, k)
  <2>1. nodes[n].size + 1 \in Nat \ {0}
    BY <1>3
  <2> QED BY <2>1
<1>5. /\ NodeTyped(n, node) /\ node.ids = <<"ids", n>> /\ node.size = k
      /\ node.left = nodes[n].left /\ node.right = nodes[n].right
      /\ node.sax = nodes[n].sax /\ node.masks = nodes[n].masks
      /\ node.squeezed_masks = nodes[n].squeezed_masks
  <2>1. NodeTyped(n, nodes[n])
    BY <1>3
  <2>2. NodeTyped(n, node) /\ node.left = nodes[n].left /\ node.right = nodes[n].right
    BY <1>4, <2>1, FilledNode
  <2>3. node.sax = nodes[n].sax /\ node.masks = nodes[n].masks
        /\ node.squeezed_masks = nodes[n].squeezed_masks
    BY <1>4, <2>1, FilledNode
  <2>4. node.ids = <<"ids", n>> /\ node.size = k
    BY <1>4, <2>1, FilledNode
  <2> QED BY <2>2, <2>3, <2>4
<1>6. /\ DOMAIN nodes' = DOMAIN nodes /\ nodes'[n] = node
      /\ \A m \in DOMAIN nodes : m # n => nodes'[m] = nodes[m]
  BY <1>2, <1>4
<1>7. /\ Dropped' /\ Stack' /\ LeavesDone' /\ Counts'
      /\ Standing' = {m \in DOMAIN nodes' : InTree(m)} /\ RootMasksLive'
      /\ todo' \in Seq(Calls') /\ leaves' \in Seq(DOMAIN nodes')
  BY <1>2, <1>6, StillBuilding
<1>8. Typed'
  <2>1. \A m \in DOMAIN nodes : NodeTyped(m, nodes'[m])
    BY <1>1, <1>5, <1>6 DEF Typed
  <2> QED BY <1>1, <1>2, <1>6, <1>7, <2>1 DEF Typed, IsPath
<1>9. \A m \in DOMAIN nodes : (IsLeaf(m)' <=> IsLeaf(m)) /\ Below(m)' = Below(m)
  BY <1>5, <1>6 DEF IsLeaf, Below
<1>10. Shape'
  <2>1. \A m \in DOMAIN nodes : ~IsLeaf(m) => m # n /\ nodes'[m] = nodes[m]
    BY <1>2, <1>6
  <2> QED BY <1>1, <1>6, <1>9, <2>1 DEF Shape
<1>11. Shared'
  <2>1. \A m \in DOMAIN nodes : nodes'[m].sax = nodes[m].sax /\ nodes'[m].masks = nodes[m].masks
    BY <1>5, <1>6
  <2>2. \A m, r : Shares(m, r)' <=> Shares(m, r)
    <3>1. \A r : Below(r)' = Below(r)
      BY <1>6 DEF Below
    <3> QED BY <1>6, <3>1 DEF Shares
  <2>3. \A m \in DOMAIN nodes : \E r \in DOMAIN nodes : nodes'[m].sax = <<"sax", r>> /\ Shares(m, r)'
    BY <1>1, <2>1, <2>2 DEF Shared
  <2>4. \A m \in DOMAIN nodes :
          IF Len(m) = 1 THEN nodes'[m].masks = RootMasks
          ELSE \E p \in DOMAIN nodes : /\ ~IsLeaf(p)' /\ m \in {Left(p), Right(p)}
                                       /\ nodes'[m].masks = <<"masks", p>>
    BY <1>1, <1>9, <2>1 DEF Shared
  <2> QED BY <1>6, <2>3, <2>4 DEF Shared
<1>12. Memory'
  <2>1. Standing' = DOMAIN nodes /\ Standing = DOMAIN nodes /\ RootMasksLive
    BY <1>2, <1>6, <1>7, Building
  <2>2. <<"ids", n>> # NULL
    BY <1>3, BlockNames, Zenon
  <2>3. /\ RootMasks \in live
        /\ \A m \in DOMAIN nodes :
             /\ <<"node", m>> \in live <=> m \in Standing
             /\ <<"lock", m>> \in live <=> m \in Standing
             /\ <<"sax", m>> \in live <=> m \in Standing /\ OwnsSax(m)
             /\ <<"masks", m>> \in live <=> ~IsLeaf(m) /\ Right(m) \in Standing
             /\ <<"ids", m>> \in live <=> m \in Standing /\ nodes[m].ids # NULL
             /\ <<"squeezed_masks", m>> \in live <=> m \in Standing /\ nodes[m].squeezed_masks # NULL
    BY <1>1, <2>1 DEF Memory
  <2>4. /\ RootMasks \in live'
        /\ \A m \in DOMAIN nodes :
             /\ <<"node", m>> \in live' <=> <<"node", m>> \in live
             /\ <<"lock", m>> \in live' <=> <<"lock", m>> \in live
             /\ <<"sax", m>> \in live' <=> <<"sax", m>> \in live
             /\ <<"masks", m>> \in live' <=> <<"masks", m>> \in live
             /\ <<"squeezed_masks", m>> \in live' <=> <<"squeezed_masks", m>> \in live
             /\ m # n => (<<"ids", m>> \in live' <=> <<"ids", m>> \in live)
             /\ <<"ids", n>> \in live'
    BY <1>2, <2>3
  <2>5. live' \subseteq (Kinds \X DOMAIN nodes) \cup {RootMasks}
    BY <1>1, <1>2 DEF Memory, Kinds
  <2>6. \A m \in DOMAIN nodes :
          /\ nodes'[m].squeezed_masks = nodes[m].squeezed_masks
          /\ IF m = n THEN nodes'[m].ids # NULL ELSE nodes'[m].ids = nodes[m].ids
    BY <1>5, <1>6, <2>2
  <2>7. \A m \in DOMAIN nodes : <<"ids", m>> \in live' <=> m \in Standing' /\ nodes'[m].ids # NULL
    BY <2>1, <2>3, <2>4, <2>6
  <2>8. \A m \in DOMAIN nodes : <<"masks", m>> \in live' <=> ~IsLeaf(m)' /\ Right(m) \in Standing'
    BY <1>9, <2>1, <2>3, <2>4
  <2> QED BY <1>6, <1>7, <2>1, <2>3, <2>4, <2>5, <2>6, <2>7, <2>8 DEF Memory
<1> QED BY <1>7, <1>8, <1>10, <1>11, <1>12 DEF IInv

LEMMA NewNode ==
  ASSUME NEW m \in Seq(Nat), NEW sax \in Kinds \X Seq(Nat), NEW masks \in Kinds \X Seq(Nat),
         NEW node, node = initializeNode(sax, masks), NEW k \in Nat, NEW f, f = Filled(node, m, k)
  PROVE  /\ NodeTyped(m, f) /\ f.left = NULL
         /\ f.sax = sax /\ f.masks = masks /\ f.squeezed_masks = NULL
         /\ IdsOf(m, k) = IF f.ids # NULL THEN {<<"ids", m>>} ELSE {}
<1>1. NodeTyped(m, node)
  BY DEF initializeNode, NodeTyped, OrNull
<1>2. /\ node.left = NULL /\ node.sax = sax /\ node.masks = masks
      /\ node.squeezed_masks = NULL /\ node.ids = NULL
  BY DEF initializeNode
<1>3. /\ NodeTyped(m, f)
      /\ k = 0 => f = node
      /\ k # 0 => f.ids = <<"ids", m>> /\ f.size = k
      /\ f.left = node.left /\ f.right = node.right
      /\ f.sax = node.sax /\ f.masks = node.masks
      /\ f.squeezed_masks = node.squeezed_masks
  <2>1. CASE k = 0
    BY <1>1, <2>1 DEF Filled
  <2>2. CASE k # 0
    <3>1. f = [node EXCEPT !.ids = <<"ids", m>>, !.size = k]
      BY <2>2 DEF Filled
    <3>2. NodeTyped(m, f)
      BY <1>1, FilledNode
    <3>3. /\ f.ids = <<"ids", m>> /\ f.size = k
          /\ f.left = node.left /\ f.right = node.right
          /\ f.sax = node.sax /\ f.masks = node.masks
          /\ f.squeezed_masks = node.squeezed_masks
      BY <1>1, <3>1 DEF NodeTyped
    <3> QED BY <2>2, <3>2, <3>3
  <2> QED BY <2>1, <2>2
<1>4. IdsOf(m, k) = IF f.ids # NULL THEN {<<"ids", m>>} ELSE {}
  <2>1. <<"ids", m>> # NULL
    BY BlockNames, Zenon
  <2> QED BY <1>2, <1>3, <2>1 DEF IdsOf
<1> QED BY <1>2, <1>3, <1>4

\* A split as what it does to each node and each block.
SplitInto(n, l, r) ==
  /\ phase = "build" /\ IsLeaf(n)
  /\ UNCHANGED <<phase, root, todo, roots, content, counter, num_leaves, leaves>>
  /\ l \in Seq(Nat) /\ r \in Seq(Nat) /\ n \in Seq(Nat) /\ l # n /\ r # n /\ l # r
  /\ l \notin DOMAIN nodes /\ r \notin DOMAIN nodes /\ DOMAIN nodes' = DOMAIN nodes \cup {l, r}
  /\ \A m \in DOMAIN nodes : m # n => nodes'[m] = nodes[m]
  /\ NodeTyped(n, nodes'[n]) /\ nodes'[n].left = l /\ nodes'[n].right = r
  /\ nodes'[n].size = 0 /\ nodes'[n].ids = NULL
  /\ nodes'[n].sax = nodes[n].sax /\ nodes'[n].masks = nodes[n].masks
  /\ nodes'[n].squeezed_masks = nodes[n].squeezed_masks
  /\ NodeTyped(l, nodes'[l]) /\ NodeTyped(r, nodes'[r])
  /\ \A c \in {l, r} : /\ nodes'[c].left = NULL /\ nodes'[c].squeezed_masks = NULL
                       /\ nodes'[c].masks = <<"masks", n>>
                       /\ nodes'[c].sax = IF c = l THEN nodes[n].sax ELSE <<"sax", r>>
  /\ live' = (live \ {nodes[n].ids}) \cup {<<"masks", n>>, <<"sax", r>>}
               \cup Blocks(l) \cup Blocks(r)
               \cup (IF nodes'[l].ids # NULL THEN {<<"ids", l>>} ELSE {})
               \cup (IF nodes'[r].ids # NULL THEN {<<"ids", r>>} ELSE {})

LEMMA Splitting ==
  ASSUME IInv, NEW n \in DOMAIN nodes, SplitNode(n), NEW l, l = Left(n), NEW r, r = Right(n)
  PROVE  SplitInto(n, l, r)
<1>1. Typed /\ Shape
  BY DEF IInv
<1>2. /\ phase = "build" /\ IsLeaf(n)
      /\ UNCHANGED <<phase, root, todo, roots, content, counter, num_leaves, leaves>>
  BY DEF SplitNode
<1>3. /\ n \in Seq(Nat) /\ NodeTyped(n, nodes[n])
  BY <1>1, NodeFields
<1>4. /\ l \in Seq(Nat) /\ r \in Seq(Nat) /\ Len(n) \in Nat
      /\ Len(l) = Len(n) + 1 /\ l[Len(n) + 1] = 0 /\ \A i \in 1 .. Len(n) : l[i] = n[i]
      /\ Len(r) = Len(n) + 1 /\ r[Len(n) + 1] = 1 /\ \A i \in 1 .. Len(n) : r[i] = n[i]
  BY <1>3, Appended DEF Left, Right
<1>5. l # n /\ r # n /\ l # r
  BY <1>4
<1>6. l \notin DOMAIN nodes /\ r \notin DOMAIN nodes
  <2>1. \A m \in {l, r} : m \in DOMAIN nodes => m \in Below(n)
    BY <1>4 DEF Below
  <2> QED BY <1>1, <1>2, <1>5, <2>1 DEF Shape
<1>7. PICK right \in 0 .. LeafSize :
        LET masks == <<"masks", n>>
            parent == [nodes[n] EXCEPT !.left = l, !.right = r, !.size = 0, !.ids = NULL]
            left_node  == Filled(initializeNode(nodes[n].sax, masks), l, LeafSize - right)
            right_node == Filled(initializeNode(<<"sax", r>>, masks), r, right)
        IN  /\ nodes' = [m \in DOMAIN nodes \cup {l, r} |->
                           CASE m = n -> parent [] m = l -> left_node
                             [] m = r -> right_node [] OTHER -> nodes[m]]
            /\ live' = (live \ {nodes[n].ids}) \cup {masks, <<"sax", r>>} \cup Blocks(l)
                         \cup Blocks(r) \cup IdsOf(l, LeafSize - right) \cup IdsOf(r, right)
  BY DEF SplitNode, RightSax
<1>8. PICK k \in Nat, sax \in Kinds \X Seq(Nat) : k = LeafSize - right /\ sax = nodes[n].sax
  <2>1. LeafSize - right \in Nat
    BY NodesAssumption
  <2>2. nodes[n].sax \in Kinds \X Seq(Nat)
    BY <1>3 DEF NodeTyped
  <2> QED BY <2>1, <2>2
<1>9. PICK masks \in Kinds \X Seq(Nat) : masks = <<"masks", n>>
  BY <1>3 DEF Kinds
<1>10. PICK own \in Kinds \X Seq(Nat) : own = <<"sax", r>>
  BY <1>4 DEF Kinds
<1>11. PICK parent, new_left, new_right, left_node, right_node :
         /\ parent = [nodes[n] EXCEPT !.left = l, !.right = r, !.size = 0, !.ids = NULL]
         /\ new_left = initializeNode(sax, masks) /\ left_node = Filled(new_left, l, k)
         /\ new_right = initializeNode(own, masks) /\ right_node = Filled(new_right, r, right)
  OBVIOUS
<1>12. /\ nodes' = [m \in DOMAIN nodes \cup {l, r} |->
                      CASE m = n -> parent [] m = l -> left_node
                        [] m = r -> right_node [] OTHER -> nodes[m]]
       /\ live' = (live \ {nodes[n].ids}) \cup {<<"masks", n>>, <<"sax", r>>} \cup Blocks(l)
                    \cup Blocks(r) \cup IdsOf(l, k) \cup IdsOf(r, right)
  BY <1>7, <1>8, <1>9, <1>10, <1>11
<1>13. /\ DOMAIN nodes' = DOMAIN nodes \cup {l, r}
       /\ nodes'[n] = parent /\ nodes'[l] = left_node /\ nodes'[r] = right_node
       /\ \A m \in DOMAIN nodes : m # n => nodes'[m] = nodes[m]
  BY <1>5, <1>6, <1>12
<1>14. /\ NodeTyped(n, parent) /\ parent.left = l /\ parent.right = r
       /\ parent.size = 0 /\ parent.ids = NULL
       /\ parent.sax = nodes[n].sax /\ parent.masks = nodes[n].masks
       /\ parent.squeezed_masks = nodes[n].squeezed_masks
  <2>1. l \in OrNull(Left(n)) /\ r \in OrNull(Right(n)) /\ NULL \in OrNull(<<"ids", n>>)
    BY DEF OrNull
  <2>2. NodeTyped(n, parent)
    BY <1>3, <1>11, <2>1 DEF NodeTyped
  <2>3. /\ parent.left = l /\ parent.right = r
        /\ parent.size = 0 /\ parent.ids = NULL
        /\ parent.sax = nodes[n].sax /\ parent.masks = nodes[n].masks
        /\ parent.squeezed_masks = nodes[n].squeezed_masks
    BY <1>3, <1>11 DEF NodeTyped
  <2> QED BY <2>2, <2>3
<1>15. /\ NodeTyped(l, left_node) /\ left_node.left = NULL
       /\ left_node.sax = sax /\ left_node.masks = masks /\ left_node.squeezed_masks = NULL
       /\ IdsOf(l, k) = IF left_node.ids # NULL THEN {<<"ids", l>>} ELSE {}
  BY <1>4, <1>11, NewNode
<1>16. right \in Nat
  BY NodesAssumption
<1>17. /\ NodeTyped(r, right_node) /\ right_node.left = NULL
       /\ right_node.sax = own /\ right_node.masks = masks /\ right_node.squeezed_masks = NULL
       /\ IdsOf(r, right) = IF right_node.ids # NULL THEN {<<"ids", r>>} ELSE {}
  BY <1>4, <1>11, <1>16, NewNode
<1>18. \A c \in {l, r} : /\ nodes'[c].left = NULL /\ nodes'[c].squeezed_masks = NULL
                         /\ nodes'[c].masks = <<"masks", n>>
                         /\ nodes'[c].sax = IF c = l THEN nodes[n].sax ELSE <<"sax", r>>
  BY <1>5, <1>8, <1>9, <1>10, <1>13, <1>15, <1>17
<1>19. live' = (live \ {nodes[n].ids}) \cup {<<"masks", n>>, <<"sax", r>>}
                 \cup Blocks(l) \cup Blocks(r)
                 \cup (IF nodes'[l].ids # NULL THEN {<<"ids", l>>} ELSE {})
                 \cup (IF nodes'[r].ids # NULL THEN {<<"ids", r>>} ELSE {})
  BY <1>12, <1>13, <1>15, <1>17, Zenon
<1> QED BY <1>2, <1>3, <1>4, <1>5, <1>6, <1>13, <1>14, <1>15, <1>17, <1>18, <1>19 DEF SplitInto

LEMMA SplitTyped ==
  ASSUME IInv, NEW n \in DOMAIN nodes, NEW l, l = Left(n), NEW r, r = Right(n), SplitInto(n, l, r)
  PROVE  Typed'
<1>1. Typed
  BY DEF IInv
<1>2. IsFiniteSet(DOMAIN nodes')
  <2>1. IsFiniteSet(DOMAIN nodes)
    BY <1>1 DEF Typed
  <2>2. IsFiniteSet(DOMAIN nodes \cup {l})
    BY <2>1, FS_AddElement
  <2>3. IsFiniteSet((DOMAIN nodes \cup {l}) \cup {r})
    BY <2>2, FS_AddElement
  <2>4. DOMAIN nodes' = (DOMAIN nodes \cup {l}) \cup {r}
    BY DEF SplitInto
  <2> QED BY <2>3, <2>4
<1>3. \A m \in DOMAIN nodes' : IsPath(m)
  <2>1. IsPath(n) /\ \A m \in DOMAIN nodes : IsPath(m)
    BY <1>1 DEF Typed
  <2>2. IsPath(l)
    <3>1. /\ l \in Seq(Nat) /\ Len(l) = Len(n) + 1 /\ l[Len(n) + 1] = 0
          /\ \A i \in 1 .. Len(n) : l[i] = n[i]
      BY <2>1, Appended DEF IsPath, Left
    <3> QED BY <2>1, <3>1 DEF IsPath
  <2>3. IsPath(r)
    <3>1. /\ r \in Seq(Nat) /\ Len(r) = Len(n) + 1 /\ r[Len(n) + 1] = 1
          /\ \A i \in 1 .. Len(n) : r[i] = n[i]
      BY <2>1, Appended DEF IsPath, Right
    <3>2. Len(n) \in Nat /\ Len(n) >= 1 /\ r # << >> /\ r[1] = n[1]
      BY <2>1, <3>1 DEF IsPath
    <3>3. \A i \in 2 .. Len(r) : r[i] \in {0, 1}
      BY <2>1, <3>1, <3>2 DEF IsPath
    <3> QED BY <2>1, <3>1, <3>2, <3>3 DEF IsPath
  <2> QED BY <2>1, <2>2, <2>3 DEF SplitInto
<1>4. \A m \in DOMAIN nodes' : NodeTyped(m, nodes'[m])
  <2>1. \A m \in DOMAIN nodes : NodeTyped(m, nodes[m])
    BY <1>1 DEF Typed
  <2> QED BY <2>1 DEF SplitInto
<1>5. todo' \in Seq(Calls') /\ leaves' \in Seq(DOMAIN nodes')
  BY StillBuilding DEF SplitInto
<1> QED BY <1>1, <1>2, <1>3, <1>4, <1>5 DEF Typed, SplitInto, IsPath

LEMMA SplitShape ==
  ASSUME IInv, NEW n \in DOMAIN nodes, NEW l, l = Left(n), NEW r, r = Right(n), SplitInto(n, l, r)
  PROVE  Shape'
<1>1. Typed /\ Shape
  BY DEF IInv
<1>2. /\ Len(n) \in Nat /\ Len(n) >= 1 /\ n \in Seq(Nat)
      /\ l \in Seq(Nat) /\ Len(l) = Len(n) + 1 /\ l[Len(n) + 1] = 0
      /\ r \in Seq(Nat) /\ Len(r) = Len(n) + 1 /\ r[Len(n) + 1] = 1
      /\ \A i \in 1 .. Len(n) : l[i] = n[i] /\ r[i] = n[i]
  BY <1>1, Paths, Appended DEF Left, Right
<1>3. /\ DOMAIN nodes' = DOMAIN nodes \cup {l, r} /\ l \notin DOMAIN nodes /\ r \notin DOMAIN nodes
      /\ \A m \in DOMAIN nodes : m # n => nodes'[m] = nodes[m]
  BY DEF SplitInto
<1>4. \A x \in Below(n) : x = n
  BY <1>1 DEF SplitInto, Shape
<1>5. ~IsLeaf(n)' /\ nodes'[n].left = Left(n) /\ nodes'[n].right = Right(n) /\ nodes'[n].size = 0
  BY NullAssumption DEF SplitInto, IsLeaf
<1>6. ASSUME NEW m \in DOMAIN nodes, m # n, ~IsLeaf(m)'
      PROVE  /\ nodes'[m].left = Left(m) /\ nodes'[m].right = Right(m)
             /\ {Left(m), Right(m)} \subseteq DOMAIN nodes' /\ nodes'[m].size = 0
  <2>1. ~IsLeaf(m) /\ nodes'[m] = nodes[m]
    BY <1>3, <1>6 DEF IsLeaf
  <2> QED BY <1>1, <1>3, <2>1 DEF Shape
<1>7. ASSUME NEW m \in DOMAIN nodes, m # n, IsLeaf(m)', NEW x \in Below(m)'
      PROVE  x = m
  <2>1. IsLeaf(m)
    BY <1>3, <1>7 DEF IsLeaf
  <2>2. x \in DOMAIN nodes' /\ Len(m) <= Len(x) /\ \A i \in 1 .. Len(m) : x[i] = m[i]
    BY <1>7 DEF Below
  <2>3. m \in Seq(Nat) /\ Len(m) \in Nat
    BY <1>1, Paths
  <2>4. \A y \in Below(m) : y = m
    BY <1>1, <2>1 DEF Shape
  <2>5. CASE x \in DOMAIN nodes
    BY <2>2, <2>4, <2>5 DEF Below
  <2>6. CASE x \in {l, r}
    <3>1. Len(x) = Len(n) + 1 /\ x \in Seq(Nat) /\ \A i \in 1 .. Len(n) : x[i] = n[i]
      BY <1>2, <2>6
    <3>2. Len(m) # Len(n) + 1
      <4>1. Len(m) = Len(n) + 1 => x = m
        BY <2>2, <2>3, <3>1, EqualPaths
      <4> QED BY <1>3, <2>6, <4>1
    <3>3. n \in Below(m)
      BY <1>2, <2>2, <2>3, <3>1, <3>2 DEF Below
    <3> QED BY <1>7, <2>4, <3>3
  <2> QED BY <1>3, <2>2, <2>5, <2>6
<1>8. ASSUME NEW m \in {l, r}, NEW x \in Below(m)'
      PROVE  x = m
  <2>1. x \in DOMAIN nodes' /\ Len(m) <= Len(x) /\ \A i \in 1 .. Len(m) : x[i] = m[i]
    BY <1>8 DEF Below
  <2>2. Len(m) = Len(n) + 1 /\ m \in Seq(Nat) /\ \A i \in 1 .. Len(n) : m[i] = n[i]
    BY <1>2
  <2>3. x \notin DOMAIN nodes
    <3>1. ASSUME x \in DOMAIN nodes PROVE x \in Below(n)
      <4>1. Len(x) \in Nat
        BY <1>1, <3>1, Paths
      <4> QED BY <1>2, <2>1, <2>2, <3>1, <4>1 DEF Below
    <3> QED BY <1>2, <1>4, <2>1, <2>2, <3>1
  <2>4. x \in {l, r} /\ x[Len(n) + 1] = m[Len(n) + 1]
    BY <1>2, <1>3, <2>1, <2>2, <2>3
  <2> QED BY <1>2, <2>4
<1>9. \A m \in {l, r} : IsLeaf(m)'
  BY DEF SplitInto, IsLeaf
<1> QED BY <1>3, <1>5, <1>6, <1>7, <1>8, <1>9 DEF Shape

LEMMA SplitShared ==
  ASSUME IInv, NEW n \in DOMAIN nodes, NEW l, l = Left(n), NEW r, r = Right(n), SplitInto(n, l, r)
  PROVE  Shared'
<1>1. Typed /\ Shared
  BY DEF IInv
<1>2. /\ Len(n) \in Nat /\ Len(n) >= 1 /\ n \in Seq(Nat)
      /\ l \in Seq(Nat) /\ Len(l) = Len(n) + 1 /\ l[Len(n) + 1] = 0
      /\ r \in Seq(Nat) /\ Len(r) = Len(n) + 1 /\ r[Len(n) + 1] = 1
      /\ \A i \in 1 .. Len(n) : l[i] = n[i] /\ r[i] = n[i]
  BY <1>1, Paths, Appended DEF Left, Right
<1>3. /\ DOMAIN nodes' = DOMAIN nodes \cup {l, r} /\ IsLeaf(n)
      /\ \A m \in DOMAIN nodes : m # n => nodes'[m] = nodes[m]
      /\ \A m \in DOMAIN nodes : nodes'[m].sax = nodes[m].sax /\ nodes'[m].masks = nodes[m].masks
  BY DEF SplitInto
<1>4. /\ nodes'[l].sax = nodes[n].sax /\ nodes'[r].sax = <<"sax", r>>
      /\ nodes'[l].masks = <<"masks", n>> /\ nodes'[r].masks = <<"masks", n>>
  BY DEF SplitInto
<1>5. ~IsLeaf(n)' /\ \A p \in DOMAIN nodes : ~IsLeaf(p) => ~IsLeaf(p)'
  <2>1. ~IsLeaf(n)'
    BY NullAssumption DEF SplitInto, IsLeaf
  <2>2. \A p \in DOMAIN nodes : ~IsLeaf(p) => p # n /\ nodes'[p] = nodes[p]
    BY <1>3
  <2> QED BY <2>1, <2>2 DEF IsLeaf
<1>6. ASSUME NEW m \in DOMAIN nodes
      PROVE  /\ \E q \in DOMAIN nodes' : nodes'[m].sax = <<"sax", q>> /\ Shares(m, q)'
             /\ IF Len(m) = 1 THEN nodes'[m].masks = RootMasks
                ELSE \E p \in DOMAIN nodes' : /\ ~IsLeaf(p)' /\ m \in {Left(p), Right(p)}
                                              /\ nodes'[m].masks = <<"masks", p>>
  <2>1. PICK q \in DOMAIN nodes : nodes[m].sax = <<"sax", q>> /\ Shares(m, q)
    BY <1>1 DEF Shared
  <2>2. Shares(m, q)'
    BY <1>3, <2>1 DEF Shares, Below
  <2>3. \/ Len(m) = 1 /\ nodes[m].masks = RootMasks
        \/ /\ Len(m) # 1
           /\ \E p \in DOMAIN nodes : /\ ~IsLeaf(p) /\ m \in {Left(p), Right(p)}
                                      /\ nodes[m].masks = <<"masks", p>>
    BY <1>1 DEF Shared
  <2> QED BY <1>3, <1>5, <2>1, <2>2, <2>3
<1>7. \E q \in DOMAIN nodes' : nodes'[l].sax = <<"sax", q>> /\ Shares(l, q)'
  <2>1. PICK q \in DOMAIN nodes : nodes[n].sax = <<"sax", q>> /\ Shares(n, q)
    BY <1>1 DEF Shared
  <2>2. q \in Seq(Nat) /\ Len(q) \in Nat
    BY <1>1, Paths
  <2>3. l \in Below(q)'
    BY <1>2, <1>3, <2>1, <2>2 DEF Shares, Below
  <2>4. ASSUME NEW i \in Len(q) + 1 .. Len(l) PROVE l[i] = 0
    <3>1. \A j \in Len(q) + 1 .. Len(n) : n[j] = 0
      BY <2>1 DEF Shares
    <3>2. CASE i = Len(n) + 1
      BY <1>2, <3>2
    <3>3. CASE i # Len(n) + 1
      <4>1. i \in Len(q) + 1 .. Len(n) /\ i \in 1 .. Len(n)
        BY <1>2, <2>2, <3>3
      <4> QED BY <1>2, <3>1, <4>1
    <3> QED BY <3>2, <3>3
  <2>5. Shares(l, q)'
    BY <1>3, <2>1, <2>3, <2>4 DEF Shares
  <2> QED BY <1>3, <1>4, <2>1, <2>5
<1>8. Shares(r, r)'
  <2>1. OwnsSax(r)
    BY <1>2 DEF OwnsSax
  <2>2. r \in Below(r)'
    BY <1>2, <1>3 DEF Below
  <2> QED BY <1>2, <1>3, <2>1, <2>2 DEF Shares
<1>9. ASSUME NEW m \in {l, r}
      PROVE  /\ \E q \in DOMAIN nodes' : nodes'[m].sax = <<"sax", q>> /\ Shares(m, q)'
             /\ Len(m) # 1
             /\ \E p \in DOMAIN nodes' : /\ ~IsLeaf(p)' /\ m \in {Left(p), Right(p)}
                                         /\ nodes'[m].masks = <<"masks", p>>
  <2>1. \E q \in DOMAIN nodes' : nodes'[m].sax = <<"sax", q>> /\ Shares(m, q)'
    <3>1. r \in DOMAIN nodes'
      BY <1>3
    <3>2. m = l \/ m = r
      OBVIOUS
    <3> QED BY <1>4, <1>7, <1>8, <3>1, <3>2
  <2>2. Len(m) # 1
    BY <1>2
  <2>3. n \in DOMAIN nodes' /\ m \in {Left(n), Right(n)} /\ nodes'[m].masks = <<"masks", n>>
    BY <1>3, <1>4
  <2> QED BY <1>5, <2>1, <2>2, <2>3
<1> QED BY <1>3, <1>6, <1>9 DEF Shared

LEMMA SplitMemory ==
  ASSUME IInv, NEW n \in DOMAIN nodes, NEW l, l = Left(n), NEW r, r = Right(n), SplitInto(n, l, r)
  PROVE  Memory'
<1>1. Typed /\ Shape /\ Memory
  BY DEF IInv
<1>2. /\ Len(n) \in Nat /\ Len(n) >= 1 /\ n \in Seq(Nat)
      /\ l \in Seq(Nat) /\ Len(l) = Len(n) + 1 /\ l[Len(n) + 1] = 0 /\ l[1] = n[1]
      /\ r \in Seq(Nat) /\ Len(r) = Len(n) + 1 /\ r[Len(n) + 1] = 1 /\ r[1] = n[1]
  <2>1. Len(n) \in Nat /\ Len(n) >= 1 /\ n \in Seq(Nat)
    BY <1>1, Paths
  <2> QED BY <2>1, Appended DEF Left, Right
<1>3. /\ DOMAIN nodes' = DOMAIN nodes \cup {l, r} /\ IsLeaf(n) /\ phase = "build"
      /\ l \notin DOMAIN nodes /\ r \notin DOMAIN nodes /\ l # r
      /\ \A m \in DOMAIN nodes : m # n => nodes'[m] = nodes[m]
      /\ nodes'[n].ids = NULL /\ nodes'[n].squeezed_masks = nodes[n].squeezed_masks
      /\ \A c \in {l, r} : nodes'[c].left = NULL /\ nodes'[c].squeezed_masks = NULL
  BY DEF SplitInto
<1>4. live' = (live \ {nodes[n].ids}) \cup {<<"masks", n>>, <<"sax", r>>}
                \cup Blocks(l) \cup Blocks(r)
                \cup (IF nodes'[l].ids # NULL THEN {<<"ids", l>>} ELSE {})
                \cup (IF nodes'[r].ids # NULL THEN {<<"ids", r>>} ELSE {})
  BY DEF SplitInto
<1>5. Standing = DOMAIN nodes /\ RootMasksLive /\ \A m \in DOMAIN nodes : InTree(m)
  BY <1>3, Building
<1>6. Standing' = DOMAIN nodes' /\ RootMasksLive'
  <2>1. Standing' = {m \in DOMAIN nodes' : InTree(m)} /\ RootMasksLive'
    BY StillBuilding DEF SplitInto
  <2>2. \A m \in DOMAIN nodes' : InTree(m)
    BY <1>2, <1>3, <1>5 DEF InTree
  <2> QED BY <2>1, <2>2
<1>7. nodes[n].ids = <<"ids", n>> \/ (nodes[n].ids = NULL /\ <<"ids", n>> \notin live)
  <2>1. nodes[n].ids \in {NULL, <<"ids", n>>}
    BY <1>1, NodeFields
  <2> QED BY <1>1, <2>1 DEF Memory
<1>8. /\ live \subseteq (Kinds \X DOMAIN nodes) \cup {RootMasks} /\ RootMasks \in live
      /\ \A m \in DOMAIN nodes :
           /\ <<"node", m>> \in live /\ <<"lock", m>> \in live
           /\ <<"sax", m>> \in live <=> OwnsSax(m)
           /\ <<"masks", m>> \in live <=> ~IsLeaf(m)
           /\ <<"ids", m>> \in live <=> nodes[m].ids # NULL
           /\ <<"squeezed_masks", m>> \in live <=> nodes[m].squeezed_masks # NULL
  BY <1>1, <1>5 DEF Memory, Shape
<1>9. NULL \notin live
  BY <1>8, NullAssumption, RootMasksName, <1>1, Paths
<1>10. \A m \in DOMAIN nodes : m # l /\ m # r
  BY <1>3
<1>11. \A m \in DOMAIN nodes :
         /\ <<"node", m>> \in live' /\ <<"lock", m>> \in live'
         /\ <<"sax", m>> \in live' <=> OwnsSax(m)
         /\ <<"squeezed_masks", m>> \in live' <=> nodes[m].squeezed_masks # NULL
  <2>1. ASSUME NEW m \in DOMAIN nodes PROVE <<"node", m>> \in live' /\ <<"lock", m>> \in live'
    <3>1. <<"node", m>> \in live /\ <<"lock", m>> \in live
      BY <1>8
    <3>2. <<"node", m>> # nodes[n].ids /\ <<"lock", m>> # nodes[n].ids
      BY <1>7, <1>9, <3>1
    <3> QED BY <1>4, <3>1, <3>2
  <2>2. \A m \in DOMAIN nodes : <<"sax", m>> \in live' <=> <<"sax", m>> \in live
    BY <1>4, <1>7, <1>9, <1>10 DEF Blocks
  <2>3. \A m \in DOMAIN nodes : <<"squeezed_masks", m>> \in live' <=> <<"squeezed_masks", m>> \in live
    BY <1>4, <1>7, <1>9, <1>10 DEF Blocks
  <2> QED BY <1>8, <2>1, <2>2, <2>3
<1>12. \A m \in DOMAIN nodes :
         /\ <<"masks", m>> \in live' <=> ~IsLeaf(m) \/ m = n
         /\ <<"ids", m>> \in live' <=> m # n /\ nodes[m].ids # NULL
  <2>1. \A m \in DOMAIN nodes : <<"masks", m>> \in live' <=> <<"masks", m>> \in live \/ m = n
    BY <1>4, <1>7, <1>9, <1>10 DEF Blocks
  <2>2. \A m \in DOMAIN nodes : <<"ids", m>> \in live' <=> <<"ids", m>> \in live /\ m # n
    BY <1>4, <1>7, <1>9, <1>10 DEF Blocks
  <2> QED BY <1>8, <2>1, <2>2
<1>13. \A c \in {l, r} :
         /\ <<"node", c>> \in live' /\ <<"lock", c>> \in live'
         /\ <<"sax", c>> \in live' <=> c = r
         /\ <<"masks", c>> \notin live' /\ <<"squeezed_masks", c>> \notin live'
         /\ <<"ids", c>> \in live' <=> nodes'[c].ids # NULL
  <2>1. \A c \in {l, r} : \A k : <<k, c>> \notin live
    <3>1. l # << >> /\ r # << >>
      BY <1>2
    <3> QED BY <1>3, <1>8, <3>1 DEF RootMasks
  <2>2. \A c \in {l, r} : /\ <<"node", c>> \in live' /\ <<"lock", c>> \in live'
                          /\ <<"sax", c>> \in live' <=> c = r
    BY <1>3, <1>4, <2>1 DEF Blocks
  <2>3. \A c \in {l, r} : /\ <<"masks", c>> \notin live' /\ <<"squeezed_masks", c>> \notin live'
    BY <1>3, <1>4, <2>1 DEF Blocks
  <2>4. \A c \in {l, r} : <<"ids", c>> \in live' <=> nodes'[c].ids # NULL
    BY <1>3, <1>4, <2>1 DEF Blocks
  <2> QED BY <2>2, <2>3, <2>4
<1>14. OwnsSax(r) /\ ~OwnsSax(l)
  BY <1>2 DEF OwnsSax
<1>15. /\ ~IsLeaf(n)' /\ \A m \in DOMAIN nodes : m # n => (IsLeaf(m)' <=> IsLeaf(m))
       /\ \A c \in {l, r} : IsLeaf(c)'
  BY <1>3, NullAssumption DEF IsLeaf, SplitInto
<1>16. \A m \in DOMAIN nodes : ~IsLeaf(m)' => Right(m) \in Standing'
  BY <1>1, <1>3, <1>6, <1>15 DEF Shape
<1>17. live' \subseteq (Kinds \X DOMAIN nodes') \cup {RootMasks} /\ RootMasks \in live'
  <2>1. {<<"masks", n>>, <<"sax", r>>, <<"ids", l>>, <<"ids", r>>} \cup Blocks(l) \cup Blocks(r)
          \subseteq Kinds \X DOMAIN nodes'
    BY <1>3 DEF Kinds, Blocks
  <2>2. RootMasks # nodes[n].ids
    BY <1>7, RootMasksName DEF RootMasks
  <2> QED BY <1>3, <1>4, <1>8, <2>1, <2>2
<1>18. ASSUME NEW m \in DOMAIN nodes'
       PROVE  /\ <<"node", m>> \in live' <=> m \in Standing'
              /\ <<"lock", m>> \in live' <=> m \in Standing'
              /\ <<"sax", m>> \in live' <=> m \in Standing' /\ OwnsSax(m)
              /\ <<"masks", m>> \in live' <=> ~IsLeaf(m)' /\ Right(m) \in Standing'
              /\ <<"ids", m>> \in live' <=> m \in Standing' /\ nodes'[m].ids # NULL
              /\ <<"squeezed_masks", m>> \in live' <=> m \in Standing' /\ nodes'[m].squeezed_masks # NULL
  <2>1. CASE m \in DOMAIN nodes
    <3>1. nodes'[m].squeezed_masks = nodes[m].squeezed_masks
      BY <1>3, <2>1
    <3>2. nodes'[m].ids # NULL <=> m # n /\ nodes[m].ids # NULL
      BY <1>3, <2>1
    <3> QED BY <1>6, <1>11, <1>12, <1>15, <1>16, <1>18, <2>1, <3>1, <3>2
  <2>2. CASE m \in {l, r}
    BY <1>3, <1>6, <1>13, <1>14, <1>15, <1>18, <2>2
  <2> QED BY <1>3, <1>18, <2>1, <2>2
<1> QED BY <1>6, <1>17, <1>18 DEF Memory

LEMMA SplitNodeInvariant ==
  ASSUME IInv, NEW n \in DOMAIN nodes, SplitNode(n)
  PROVE  IInv'
<1>1. PICK l, r : l = Left(n) /\ r = Right(n)
  OBVIOUS
<1>2. SplitInto(n, l, r)
  BY <1>1, Splitting
<1>3. Dropped' /\ Stack' /\ LeavesDone' /\ Counts'
  BY <1>2, StillBuilding DEF SplitInto
<1>4. Typed' /\ Shape' /\ Shared' /\ Memory'
  BY <1>1, <1>2, SplitTyped, SplitShape, SplitShared, SplitMemory
<1> QED BY <1>3, <1>4 DEF IInv

-----------------------------------------------------------------------------
(* The invariant *)

LEMMA InitNodes ==
  ASSUME Init
  PROVE  /\ DOMAIN nodes = {<<i>> : i \in Roots}
         /\ \A i \in Roots : nodes[<<i>>] = initializeNode(<<"sax", <<i>>>>, RootMasks)
         /\ \A i \in Roots : roots[i] = <<i>> /\ roots[i] # NULL
         /\ Typed
<1>1. /\ phase = "build" /\ root = 0 /\ todo = << >>
      /\ roots = [i \in Roots |-> <<i>>]
      /\ nodes = [n \in {<<i>> : i \in Roots} |-> initializeNode(<<"sax", n>>, RootMasks)]
      /\ counter = 0 /\ num_leaves = 0 /\ leaves = << >>
  BY DEF Init
<1>2. /\ DOMAIN nodes = {<<i>> : i \in Roots}
      /\ \A i \in Roots : nodes[<<i>>] = initializeNode(<<"sax", <<i>>>>, RootMasks)
  BY <1>1
<1>3. \A i \in Roots : i \in Nat /\ <<i>> \in Seq(Nat) /\ Len(<<i>>) = 1 /\ <<i>>[1] = i
  BY NodesAssumption DEF Roots
<1>4. \A i \in Roots : roots[i] = <<i>> /\ roots[i] # NULL
  BY <1>1, <1>3, NullAssumption
<1>5. IsFiniteSet(DOMAIN nodes)
  <2>1. IsFiniteSet(Roots)
    BY NodesAssumption, FS_Interval DEF Roots
  <2> DEFINE f == [i \in Roots |-> <<i>>]
  <2>2. f \in Surjection(Roots, DOMAIN nodes)
    BY <1>2 DEF Surjection
  <2> QED BY <2>1, <2>2, FS_Surjection
<1>6. \A n \in DOMAIN nodes : IsPath(n) /\ NodeTyped(n, nodes[n])
  <2>1. ASSUME NEW i \in Roots, NEW n, n = <<i>>
        PROVE  IsPath(n) /\ NodeTyped(n, nodes[n])
    <3>1. IsPath(n)
      BY <1>3, <2>1 DEF IsPath
    <3>2. RootMasks \in Kinds \X Seq(Nat) /\ <<"sax", n>> \in Kinds \X Seq(Nat)
      <4>1. n \in Seq(Nat) /\ << >> \in Seq(Nat) /\ {"masks", "sax"} \subseteq Kinds
        BY <1>3, <2>1 DEF Kinds
      <4> QED BY <4>1 DEF RootMasks
    <3>3. nodes[n] = initializeNode(<<"sax", n>>, RootMasks)
      BY <1>2, <2>1
    <3>4. NodeTyped(n, nodes[n])
      BY <3>2, <3>3 DEF initializeNode, NodeTyped, OrNull
    <3> QED BY <3>1, <3>4
  <2> QED BY <1>2, <2>1
<1>7. roots \in [Roots -> Seq(Nat) \cup {NULL}] /\ \A i \in Roots : roots[i] \in {<<i>>, NULL}
  BY <1>1, <1>3
<1>8. phase \in DOMAIN Following \cup {"done"} /\ root \in 0 .. RootsSize
  BY <1>1, NodesAssumption DEF Following
<1>9. todo \in Seq(Calls) /\ leaves \in Seq(DOMAIN nodes) /\ num_leaves \in Nat /\ counter \in Int
  BY <1>1
<1>10. \A i \in Roots : <<i>> \in DOMAIN nodes
  BY <1>2
<1> QED BY <1>2, <1>4, <1>5, <1>6, <1>7, <1>8, <1>9, <1>10 DEF Typed

LEMMA InitInvariant == Init => IInv
<1> SUFFICES ASSUME Init PROVE IInv
  OBVIOUS
<1>1. /\ phase = "build" /\ root = 0 /\ todo = << >>
      /\ live = {RootMasks} \cup UNION {Blocks(<<i>>) \cup {<<"sax", <<i>>>>} : i \in Roots}
      /\ counter = 0 /\ num_leaves = 0 /\ leaves = << >>
  BY DEF Init
<1>2. /\ DOMAIN nodes = {<<i>> : i \in Roots}
      /\ \A i \in Roots : nodes[<<i>>] = initializeNode(<<"sax", <<i>>>>, RootMasks)
      /\ \A i \in Roots : roots[i] = <<i>> /\ roots[i] # NULL
      /\ Typed
  BY InitNodes
<1>3. \A n \in DOMAIN nodes :
        /\ n[1] \in Roots /\ n = <<n[1]>> /\ Len(n) = 1
        /\ nodes[n] = initializeNode(<<"sax", n>>, RootMasks)
  BY <1>2
<1>4. \A n \in DOMAIN nodes :
        /\ nodes[n].left = NULL /\ nodes[n].sax = <<"sax", n>> /\ nodes[n].masks = RootMasks
        /\ nodes[n].ids = NULL /\ nodes[n].squeezed_masks = NULL
  BY <1>3 DEF initializeNode
<1>5. Shape
  <2>1. \A n \in DOMAIN nodes : IsLeaf(n)
    BY <1>4 DEF IsLeaf
  <2>2. \A n, m \in DOMAIN nodes : m \in Below(n) => m = n
    <3>1. ASSUME NEW n \in DOMAIN nodes, NEW m \in DOMAIN nodes, m \in Below(n)
          PROVE  m = n
      <4>1. \A i \in 1 .. Len(n) : m[i] = n[i]
        BY <3>1 DEF Below
      <4>2. n = <<n[1]>> /\ m = <<m[1]>>
        BY <1>3, Zenon
      <4>3. Len(n) \in Nat /\ Len(n) >= 1
        BY <1>2, Paths
      <4>4. m[1] = n[1]
        BY <4>1, <4>3
      <4> QED BY <4>2, <4>4, Zenon
    <3> QED BY <3>1
  <2> QED BY <2>1, <2>2 DEF Shape, Below
<1>6. Shared
  <2>1. \A n \in DOMAIN nodes : Shares(n, n)
    <3>1. \A n \in DOMAIN nodes : n \in Below(n) /\ OwnsSax(n)
      BY <1>2, <1>3, NotBefore DEF OwnsSax
    <3> QED BY <1>3, <3>1 DEF Shares
  <2> QED BY <1>3, <1>4, <2>1 DEF Shared
<1>7. Dropped
  BY <1>1, <1>2 DEF Dropped
<1>8. Stack
  BY <1>1 DEF Stack, Walks, Chained
<1>9. Memory
  <2>1. Standing = DOMAIN nodes /\ RootMasksLive
    <3>1. \A n \in DOMAIN nodes : InTree(n)
      BY <1>2, <1>3 DEF InTree
    <3> QED BY <1>1, <3>1 DEF Standing, RootMasksLive
  <2>2. \A b : b \in live <=> b = RootMasks \/ \E n \in DOMAIN nodes :
                                b \in {<<"node", n>>, <<"lock", n>>, <<"sax", n>>}
    BY <1>1, <1>2 DEF Blocks
  <2>3. \A n \in DOMAIN nodes : \A k : <<k, n>> # RootMasks
    <3>1. \A n \in DOMAIN nodes : n # << >>
      BY <1>2, Paths
    <3> QED BY <3>1 DEF RootMasks
  <2>4. \A n \in DOMAIN nodes :
          /\ <<"node", n>> \in live /\ <<"lock", n>> \in live /\ <<"sax", n>> \in live
          /\ <<"masks", n>> \notin live /\ <<"ids", n>> \notin live
          /\ <<"squeezed_masks", n>> \notin live
    BY <2>2, <2>3
  <2>5. live \subseteq (Kinds \X DOMAIN nodes) \cup {RootMasks} /\ RootMasks \in live
    BY <2>2 DEF Kinds
  <2>6. \A n \in DOMAIN nodes : IsLeaf(n) /\ OwnsSax(n)
    BY <1>3, <1>4 DEF IsLeaf, OwnsSax
  <2> QED BY <1>4, <2>1, <2>4, <2>5, <2>6 DEF Memory
<1>10. LeavesDone
  <2>1. \A p, n : p \in {"fetch", "squeeze"} => ~Passed(p, n)
    BY <1>1 DEF Passed, After
  <2> QED BY <2>1 DEF LeavesDone
<1>11. Counts
  BY <1>1 DEF Counts
<1> QED BY <1>2, <1>5, <1>6, <1>7, <1>8, <1>9, <1>10, <1>11 DEF IInv

LEMMA StutterInvariant ==
  ASSUME IInv, UNCHANGED vars
  PROVE  IInv'
<1>1. /\ phase' = phase /\ root' = root /\ todo' = todo /\ roots' = roots /\ nodes' = nodes
      /\ live' = live /\ content' = content /\ counter' = counter
      /\ num_leaves' = num_leaves /\ leaves' = leaves
  BY DEF vars, memory
<1>2. SameTree
  BY <1>1 DEF SameTree
<1>3. /\ sizes' = sizes /\ Inserted' = Inserted /\ Shape' /\ Shared'
      /\ \A S \in SUBSET DOMAIN nodes : Filed(S)' = Filed(S)
  BY <1>2, TreeFrame DEF IInv
<1>4. /\ \A n : Before(n)' = Before(n) /\ \A i : Earlier(i)' = Earlier(i)
      /\ \A c : Begin(c)' = Begin(c) /\ End(c)' = End(c)
      /\ Calls' = Calls
  BY <1>1, OrderFrame
<1>5. \A n : (InTree(n)' <=> InTree(n)) /\ (IsLeaf(n)' <=> IsLeaf(n))
  BY <1>1 DEF InTree, IsLeaf
<1>6. Done' = Done
  BY <1>1, <1>4 DEF Done, Reached
<1>7. Typed'
  BY <1>1, <1>2, <1>4, TypedFrame DEF IInv, Typed
<1>8. Dropped'
  BY <1>1, <1>2, DroppedFrame DEF IInv
<1>9. Stack'
  <2>1. \A c : Fits(c)' <=> Fits(c)
    BY <1>1, FitsFrame
  <2>2. Chained(todo)'
    BY <1>1, <1>4 DEF IInv, Stack, Chained
  <2> QED BY <1>1, <2>1, <2>2 DEF IInv, Stack
<1>10. Memory'
  <2>1. Standing' = Standing
    BY <1>1, <1>5, <1>6 DEF Standing
  <2>2. RootMasksLive' <=> RootMasksLive
    BY <1>1, <1>5, <1>6 DEF RootMasksLive, FirstRoot
  <2> QED BY <1>1, <1>5, <2>1, <2>2 DEF IInv, Memory
<1>11. LeavesDone'
  <2>1. \A p, n : Passed(p, n)' <=> Passed(p, n)
    BY <1>1, <1>6 DEF Passed, After
  <2> QED BY <1>1, <1>3, <1>4, <1>5, <2>1 DEF IInv, LeavesDone
<1>12. Counts'
  <2>1. Filed(Done)' = Filed(Done) /\ Filed(DOMAIN nodes)' = Filed(DOMAIN nodes)
    BY <1>1, <1>6 DEF Filed
  <2>2. \A n : EndOf(n)' = EndOf(n)
    BY <1>1 DEF EndOf
  <2> QED BY <1>1, <1>3, <1>6, <2>1, <2>2 DEF IInv, Counts, Filed
<1> QED BY <1>3, <1>7, <1>8, <1>9, <1>10, <1>11, <1>12 DEF IInv

LEMMA NextInvariant == IInv /\ [Next]_vars => IInv'
<1> SUFFICES ASSUME IInv, [Next]_vars PROVE IInv'
  OBVIOUS
<1>1. ASSUME NEW n \in DOMAIN nodes, InsertNode(n) PROVE IInv'
  BY <1>1, InsertNodeInvariant
<1>2. ASSUME NEW n \in DOMAIN nodes, SplitNode(n) PROVE IInv'
  BY <1>2, SplitNodeInvariant
<1>3. CASE FetchPermutation
  BY <1>3, FetchInvariant
<1>4. CASE SqueezeNode
  BY <1>4, SqueezeInvariant
<1>5. CASE InspectNode
  BY <1>5, InspectInvariant
<1>6. CASE EnqueueLeaf
  BY <1>6, EnqueueInvariant
<1>7. CASE FreeNode
  BY <1>7, FreeNodeInvariant
<1>8. CASE Free
  BY <1>8, FreeInvariant
<1>9. CASE NextRoot
  BY <1>9, NextRootInvariant
<1>10. CASE NextPhase
  BY <1>10, NextPhaseInvariant
<1>11. CASE UNCHANGED vars
  BY <1>11, StutterInvariant
<1>12. CASE Terminated
  BY <1>12, StutterInvariant DEF Terminated
<1> QED BY <1>1, <1>2, <1>3, <1>4, <1>5, <1>6, <1>7, <1>8, <1>9, <1>10, <1>11, <1>12 DEF Next, Walk

-----------------------------------------------------------------------------
(* What follows from the invariant *)

\* Outside the walk that frees, a node of a root that is left has its memory.
LEMMA Readable ==
  ASSUME IInv, NEW n \in DOMAIN nodes, InTree(n), phase \notin {"free", "done"}
  PROVE  <<"node", n>> \in live /\ nodes[n].sax \in live /\ nodes[n].masks \in live
<1>1. Typed /\ Shape /\ Shared /\ Memory
  BY DEF IInv
<1>2. \A m \in DOMAIN nodes : m[1] = n[1] => m \in Standing
  BY DEF InTree, Standing
<1>3. Len(n) \in Nat /\ Len(n) >= 1
  BY <1>1, Paths
<1>4. <<"node", n>> \in live
  BY <1>1, <1>2 DEF Memory
<1>5. nodes[n].sax \in live
  <2>1. PICK r \in DOMAIN nodes : nodes[n].sax = <<"sax", r>> /\ Shares(n, r)
    BY <1>1 DEF Shared
  <2>2. Len(r) \in Nat /\ Len(r) >= 1
    BY <1>1, Paths
  <2>3. OwnsSax(r) /\ r[1] = n[1]
    BY <2>1, <2>2 DEF Shares, Below
  <2> QED BY <1>1, <1>2, <2>1, <2>3 DEF Memory
<1>6. nodes[n].masks \in live
  <2>1. CASE Len(n) = 1
    <3>1. RootMasksLive
      BY DEF RootMasksLive
    <3> QED BY <1>1, <2>1, <3>1 DEF Shared, Memory
  <2>2. CASE Len(n) # 1
    <3>1. PICK p \in DOMAIN nodes : /\ ~IsLeaf(p) /\ n \in {Left(p), Right(p)}
                                    /\ nodes[n].masks = <<"masks", p>>
      BY <1>1, <2>2 DEF Shared
    <3>2. Right(p) \in DOMAIN nodes
      BY <1>1, <3>1 DEF Shape
    <3>3. Right(p)[1] = n[1]
      BY <1>1, <3>1, Children
    <3> QED BY <1>1, <1>2, <3>1, <3>2, <3>3 DEF Memory
  <2> QED BY <2>1, <2>2
<1> QED BY <1>4, <1>5, <1>6

LEMMA FreedLive ==
  ASSUME IInv, todo # << >>, Head(todo).function = "free"
  PROVE  Freed(Head(todo)) \subseteq live
<1>1. Typed /\ Shape /\ Shared /\ Memory
  BY DEF IInv
<1>2. Frees(Head(todo))
  BY DEF Frees
<1>3. PICK n \in DOMAIN nodes : n = Callee
  BY <1>2, CallingFree
<1>4. /\ n \notin Done /\ n \in Standing
      /\ Head(todo).free_mask <=> IF Len(n) = 1 THEN phase = "free" /\ FirstRoot(n[1])
                                  ELSE n[Len(n)] = 1
      /\ (phase = "free" /\ InTree(n)) \/ (phase = "fetch" /\ ~InTree(n))
  BY <1>2, <1>3, CallingFree
<1>5. PICK F : F = Freed(Head(todo))
  OBVIOUS
<1>6. /\ \A m \in DOMAIN nodes :
           /\ <<"node", m>> \in F <=> m = n
           /\ <<"lock", m>> \in F <=> m = n
           /\ <<"sax", m>> \in F <=> m = n /\ OwnsSax(m)
           /\ <<"masks", m>> \in F <=> Right(m) = n /\ ~IsLeaf(m)
           /\ <<"ids", m>> \in F <=> m = n /\ nodes[m].ids # NULL
           /\ <<"squeezed_masks", m>> \in F <=> m = n /\ nodes[m].squeezed_masks # NULL
      /\ RootMasks \in F <=> Len(n) = 1 /\ Head(todo).free_mask
      /\ \A b \in F : b = RootMasks \/ b \in Kinds \X DOMAIN nodes
  BY <1>3, <1>5, FreedBlocks
<1>7. ASSUME RootMasks \in F PROVE RootMasks \in live
  <2>1. Len(n) = 1 /\ phase = "free" /\ FirstRoot(n[1])
    BY <1>4, <1>6, <1>7
  <2>2. n[1] \in Roots /\ n = <<n[1]>> /\ InTree(n)
    <3>1. n \in Seq(Nat) /\ n[1] \in Roots
      BY <1>1, Paths
    <3> QED BY <1>4, <2>1, <3>1
  <2>3. \A i \in Roots : InTree(<<i>>) /\ FirstRoot(i) => i = n[1]
    BY <2>1, <2>2 DEF InTree, FirstRoot, Roots
  <2>4. RootMasksLive
    BY <1>4, <2>1, <2>2, <2>3 DEF RootMasksLive
  <2> QED BY <1>1, <2>4 DEF Memory
<1>8. ASSUME NEW k \in Kinds, NEW m \in DOMAIN nodes, <<k, m>> \in F PROVE <<k, m>> \in live
  <2>1. k = "masks" \/ (k # "masks" /\ m = n)
    BY <1>6, <1>8 DEF Kinds
  <2>2. CASE k = "masks"
    BY <1>1, <1>4, <1>6, <1>8, <2>2 DEF Memory
  <2>3. CASE k # "masks"
    BY <1>1, <1>4, <1>6, <1>8, <2>1, <2>3 DEF Memory, Kinds
  <2> QED BY <2>2, <2>3
<1> QED BY <1>5, <1>6, <1>7, <1>8

LEMMA InvariantNothingDangling == IInv => NothingDangling
<1> SUFFICES ASSUME IInv, todo # << >> PROVE Touched(Head(todo)) \subseteq live
  BY DEF NothingDangling
<1>1. Typed /\ Stack /\ Memory
  BY DEF IInv
<1>2. PICK n \in DOMAIN nodes : n = Callee
  BY <1>1, Calling_
<1>3. n \notin Done /\ Fits(Head(todo)) /\ phase \in DOMAIN Walks
  BY <1>1, <1>2, Calling_, NotDone
<1>4. n \in Standing
  BY <1>2, <1>3 DEF Callee, Fits, Standing, Walks
<1>5. <<"node", n>> \in live
  BY <1>1, <1>4 DEF Memory
<1>6. nodes[n].ids # NULL => nodes[n].ids \in live
  BY <1>1, <1>4, NodeFields DEF Memory
<1>7. Head(todo).function = "squeezeNode" => nodes[n].sax \in live /\ nodes[n].masks \in live
  <2>1. Head(todo).function = "squeezeNode" => phase = "squeeze" /\ InTree(n)
    BY <1>2, <1>3 DEF Callee, Fits, Walks, Frees
  <2> QED BY <2>1, Readable
<1>8. Head(todo).function = "free" => Freed(Head(todo)) \subseteq live
  BY FreedLive
<1>9. Head(todo).node = n
  BY <1>2 DEF Callee
<1> QED BY <1>5, <1>6, <1>7, <1>8, <1>9 DEF Touched

LEMMA InvariantTreeIntact == IInv => TreeIntact
<1> SUFFICES ASSUME IInv, phase = "query", NEW n \in DOMAIN nodes, InTree(n)
             PROVE  /\ {<<"node", n>>, nodes[n].sax, nodes[n].masks} \subseteq live
                    /\ IsLeaf(n) => nodes[n].squeezed_masks \in live
                    /\ nodes[n].size # 0 => content[nodes[n].sax] = nodes[n].start_id
  BY DEF TreeIntact
<1>1. Typed /\ Shape /\ Memory /\ LeavesDone
  BY DEF IInv
<1>2. {<<"node", n>>, nodes[n].sax, nodes[n].masks} \subseteq live
  BY Readable
<1>3. Passed("squeeze", n)
  BY DEF Passed, After
<1>4. ASSUME IsLeaf(n)
      PROVE  nodes[n].squeezed_masks # NULL /\ content[nodes[n].sax] = nodes[n].start_id
  BY <1>1, <1>3, <1>4 DEF LeavesDone
<1>5. nodes[n].size # 0 => IsLeaf(n)
  BY <1>1, FiledLeaf
<1>6. n \in Standing
  BY DEF Standing
<1>7. nodes[n].squeezed_masks # NULL => nodes[n].squeezed_masks \in live
  BY <1>1, <1>6, NodeFields DEF Memory
<1> QED BY <1>2, <1>4, <1>5, <1>7

LEMMA InvariantLeavesInOrder == IInv => LeavesInOrder
<1> SUFFICES ASSUME IInv, phase \in {"enqueue", "query"}
             PROVE  /\ Len(leaves) <= num_leaves
                    /\ \A j \in 1 .. Len(leaves) :
                         nodes[leaves[j]].start_id =
                           IF j = 1 THEN 0 ELSE EndOf(leaves[j - 1])
                    /\ phase = "query" =>
                         /\ Len(leaves) = num_leaves
                         /\ EndOf(leaves[num_leaves]) = DatabaseSize
  BY DEF LeavesInOrder, EndOf
<1>1. Typed /\ Stack /\ Counts
  BY DEF IInv
<1>2. PICK done : done = IF phase = "query" THEN DOMAIN nodes ELSE Done
  OBVIOUS
<1>3. /\ Len(leaves) = Cardinality(Filed(done))
      /\ SumOver(sizes, done) = IF leaves = << >> THEN 0 ELSE EndOf(leaves[Len(leaves)])
      /\ \A j \in 1 .. Len(leaves) :
           nodes[leaves[j]].start_id = IF j = 1 THEN 0 ELSE EndOf(leaves[j - 1])
  BY <1>1, <1>2 DEF Counts
<1>4. num_leaves = Cardinality(Filed(DOMAIN nodes)) /\ Inserted = DatabaseSize
  BY <1>1 DEF Counts
<1>5. Len(leaves) <= num_leaves
  <2>1. IsFiniteSet(Filed(DOMAIN nodes))
    BY <1>1, Counted
  <2>2. done \subseteq DOMAIN nodes
    BY <1>1, <1>2, DoneNodes
  <2>3. Filed(done) \in SUBSET Filed(DOMAIN nodes)
    BY <2>2 DEF Filed
  <2> QED BY <1>3, <1>4, <2>1, <2>3, FS_Subset
<1>6. phase = "query" => Len(leaves) = num_leaves /\ EndOf(leaves[num_leaves]) = DatabaseSize
  BY <1>2, <1>3, <1>4, NodesAssumption DEF Inserted
<1> QED BY <1>3, <1>5, <1>6

LEMMA InvariantNothingLeaked == IInv => NothingLeaked
<1> SUFFICES ASSUME IInv, phase = "done" PROVE live = {}
  BY DEF NothingLeaked
<1>1. Memory
  BY DEF IInv
<1>2. Standing = {} /\ ~RootMasksLive
  BY DEF Standing, RootMasksLive
<1>3. \A k \in Kinds : \A n \in DOMAIN nodes : <<k, n>> \notin live
  BY <1>1, <1>2 DEF Memory, Kinds
<1>4. RootMasks \notin live /\ live \subseteq (Kinds \X DOMAIN nodes) \cup {RootMasks}
  BY <1>1, <1>2 DEF Memory
<1> QED BY <1>3, <1>4

-----------------------------------------------------------------------------
(* Theorems *)

\* The shape of the tree, who shares what with whom, what is allocated and what the
\* pending calls of a walk may be are as the invariant says, whatever the number of
\* roots, the depth and the order in which series arrive and leaves split.
THEOREM Invariant == Spec => []IInv
<1>1. Init => IInv
  BY InitInvariant
<1>2. IInv /\ [Next]_vars => IInv'
  BY NextInvariant
<1> QED BY <1>1, <1>2, PTL DEF Spec

\* fetchPermutation, squeezeNode, inspectNode, enqueueLeaf and freeNode touch no block
\* that was freed before, and freeNode frees none twice.
THEOREM NoDanglingPointer == Spec => []NothingDangling
<1>1. IInv => NothingDangling
  BY InvariantNothingDangling
<1> QED BY <1>1, Invariant, PTL

\* While queries run the nodes of every root that is left are there, with their sax
\* and masks, and squeezeNode has left each leaf a sax of its own.
THEOREM TreeStaysIntact == Spec => []TreeIntact
<1>1. IInv => TreeIntact
  BY InvariantTreeIntact
<1> QED BY <1>1, Invariant, PTL

\* enqueueLeaf writes no more leaves than inspectNode counted, in the order in which
\* fetchPermutation laid their series out, and in the end all of them.
THEOREM LeavesAreInOrder == Spec => []LeavesInOrder
<1>1. IInv => LeavesInOrder
  BY InvariantLeavesInOrder
<1> QED BY <1>1, Invariant, PTL

\* After freeIndex no node, lock, sax, mask or array of ids is left.
THEOREM NoLeak == Spec => []NothingLeaked
<1>1. IInv => NothingLeaked
  BY InvariantNothingLeaked
<1> QED BY <1>1, Invariant, PTL
=============================================================================
