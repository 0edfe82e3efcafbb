------------------------- MODULE AddressLRUTheorems -------------------------
(* What update() and purge() do to the blocks of a list, and to its order.  *)
EXTENDS AddressLRU, FiniteSetTheorems, TLAPS

\* A list with a block at its end.
LEMMA AppendIsSeq ==
    ASSUME NEW S, NEW h \in Seq(S), NEW a \in S
    PROVE  Append(h, a) \in Seq(S) /\ Append(h, a) # <<>>
<1>1. Append(h, a) \in Seq(S) /\ Len(Append(h, a)) = Len(h) + 1 /\ Len(h) \in Nat
  OBVIOUS
<1>2. Len(<<>>) = 0
  OBVIOUS
<1> QED  BY <1>1, <1>2

\* The blocks of a list of blocks.
LEMMA BlocksOfSeq ==
    ASSUME NEW S, NEW h \in Seq(S)
    PROVE  /\ Blocks(h) \subseteq S
           /\ \A a \in S : Blocks(Append(h, a)) = Blocks(h) \cup {a}
<1>1. Blocks(h) \subseteq S
  BY DEF Blocks
<1>2. ASSUME NEW a \in S
      PROVE  Blocks(Append(h, a)) = Blocks(h) \cup {a}
  <2>1. /\ Append(h, a) \in Seq(S)
        /\ DOMAIN Append(h, a) = DOMAIN h \cup {Len(h) + 1}
        /\ \A i \in DOMAIN h : Append(h, a)[i] = h[i]
        /\ Append(h, a)[Len(h) + 1] = a
    OBVIOUS
  <2> QED  BY <2>1, Zenon DEF Blocks
<1> QED  BY <1>1, <1>2

\* What is left of a list once some blocks are removed.
LEMMA WithoutIsSeq ==
    ASSUME NEW S, NEW h \in Seq(S), NEW T, NEW r \in Without(h, T)
    PROVE  /\ r \in Seq(S)
           /\ Len(r) <= Len(h)
           /\ Blocks(r) = Blocks(h) \ T
           /\ NoDuplicates(r)
<1>1. PICK n \in 0..Len(h) : r \in [1..n -> Blocks(h)]
  BY DEF Without
<1>2. Len(h) \in Nat /\ n \in Nat
  OBVIOUS
<1>3. r \in Seq(S) /\ Len(r) = n
  BY <1>1, <1>2, BlocksOfSeq
<1> QED  BY <1>1, <1>2, <1>3 DEF Without, IsWithout, NoDuplicates

\* A new block at the end of a list without duplicates.
LEMMA AppendNew ==
    ASSUME NEW S, NEW h \in Seq(S), NoDuplicates(h), NEW a \in S, a \notin Blocks(h)
    PROVE  /\ NoDuplicates(Append(h, a))
           /\ Append(h, a) \in Seq(S)
           /\ Append(h, a) # <<>>
           /\ Len(Append(h, a)) = Len(h) + 1
           /\ Blocks(Append(h, a)) = Blocks(h) \cup {a}
  BY BlocksOfSeq DEF NoDuplicates, Blocks

\* The front of a list without duplicates leaves it for good.
LEMMA TailOfList ==
    ASSUME NEW S, NEW h \in Seq(S), h # <<>>, NoDuplicates(h)
    PROVE  /\ Tail(h) \in Seq(S)
           /\ NoDuplicates(Tail(h))
           /\ Len(Tail(h)) = Len(h) - 1
           /\ Head(h) \in Blocks(h)
           /\ Blocks(Tail(h)) = Blocks(h) \ {Head(h)}
<1>1. /\ Tail(h) \in Seq(S)
      /\ Len(h) \in Nat /\ Len(h) >= 1
      /\ Len(Tail(h)) = Len(h) - 1
      /\ DOMAIN Tail(h) = 1 .. (Len(h) - 1)
      /\ DOMAIN h = 1 .. Len(h)
      /\ \A i \in 1 .. (Len(h) - 1) : Tail(h)[i] = h[i + 1]
      /\ Head(h) = h[1]
  OBVIOUS
<1>2. NoDuplicates(Tail(h))
  BY <1>1 DEF NoDuplicates
<1>3. Head(h) \in Blocks(h)
  BY <1>1 DEF Blocks
<1>4. Blocks(Tail(h)) \subseteq Blocks(h) \ {Head(h)}
  BY <1>1 DEF Blocks, NoDuplicates
<1>5. ASSUME NEW b \in Blocks(h) \ {Head(h)}
      PROVE  b \in Blocks(Tail(h))
  <2>1. PICK i \in DOMAIN h : b = h[i]
    BY DEF Blocks
  <2>2. i # 1 /\ i - 1 \in 1 .. (Len(h) - 1) /\ (i - 1) + 1 = i
    BY <1>1, <2>1, <1>5
  <2>3. Tail(h)[i - 1] = b
    BY <1>1, <2>1, <2>2
  <2> QED  BY <1>1, <2>2, <2>3 DEF Blocks
<1> QED  BY <1>1, <1>2, <1>3, <1>4, <1>5

\* update() of a block that is not listed: it joins the list, and what
\* update() returns leaves it.
LEMMA UpdatedNew ==
    ASSUME NEW S, NoBlock \notin S,
           NEW h \in Seq(S), NoDuplicates(h), Len(h) <= size_limit_,
           NEW a \in S, a \notin Blocks(h), NEW r \in Updated(h, a)
    PROVE  /\ r \in Seq(S)
           /\ NoDuplicates(r)
           /\ Len(r) <= size_limit_
           /\ Stale(h, a) \in Blocks(h) \cup {NoBlock}
           /\ Blocks(r) = (Blocks(h) \cup {a}) \ {Stale(h, a)}
<1> DEFINE g == Append(h, a)
<1>1. /\ NoDuplicates(g) /\ g \in Seq(S) /\ g # <<>>
      /\ Len(g) = Len(h) + 1 /\ Len(h) \in Nat
      /\ Blocks(g) = Blocks(h) \cup {a}
  BY AppendNew
<1>2. Blocks(h) \subseteq S /\ NoBlock \notin S
  BY BlocksOfSeq
<1>3. size_limit_ \in Nat \ {0}
  BY LimitAssumption
<1>4. CASE Overfull(g)
  <2>1. r = Tail(g) /\ Stale(h, a) = Head(g)
    BY <1>4 DEF Updated, Stale
  <2>2. Len(h) >= 1
    BY <1>1, <1>3, <1>4 DEF Overfull
  <2>3. Head(g) = h[1] /\ h[1] \in Blocks(h)
    BY <1>1, <2>2 DEF Blocks
  <2> HIDE DEF g
  <2>4. /\ Tail(g) \in Seq(S) /\ NoDuplicates(Tail(g))
        /\ Len(Tail(g)) = Len(g) - 1
        /\ Blocks(Tail(g)) = Blocks(g) \ {Head(g)}
    BY <1>1, TailOfList
  <2> QED  BY <1>1, <1>3, <2>1, <2>3, <2>4
<1>5. CASE ~Overfull(g)
  <2>1. r = g /\ Stale(h, a) = NoBlock
    BY <1>5 DEF Updated, Stale
  <2> HIDE DEF g
  <2> QED  BY <1>1, <1>2, <1>3, <1>5, <2>1 DEF Overfull
<1> QED  BY <1>4, <1>5

\* update() of any block: the list keeps its type.
LEMMA UpdatedIsSeq ==
    ASSUME NEW S, NEW h \in Seq(S), NEW a \in S, NEW r \in Updated(h, a)
    PROVE  r \in Seq(S)
<1>1. CASE a \in Blocks(h)
  <2>1. PICK q \in Without(h, {a}) : r = Append(q, a)
    BY <1>1 DEF Updated
  <2>2. q \in Seq(S)
    BY <2>1, WithoutIsSeq
  <2> QED  BY <2>1, <2>2
<1>2. CASE a \notin Blocks(h)
  <2>1. Append(h, a) \in Seq(S) /\ Append(h, a) # <<>>
    BY AppendIsSeq
  <2>2. r = Append(h, a) \/ r = Tail(Append(h, a))
    BY <1>2 DEF Updated
  <2> QED  BY <2>1, <2>2
<1> QED  BY <1>1, <1>2

\* What update() returns is a block of the list or the new one, or nothing.
LEMMA StaleType ==
    ASSUME NEW S, NEW h \in Seq(S), NEW a \in S
    PROVE  Stale(h, a) \in S \cup {NoBlock}
<1>1. Append(h, a) \in Seq(S) /\ Append(h, a) # <<>>
  BY AppendIsSeq
<1>2. Head(Append(h, a)) \in S
  BY <1>1
<1> QED  BY <1>2 DEF Stale

-----------------------------------------------------------------------------
(* The order of the list                                                   *)

\* A list without duplicates has as many blocks as entries.
LEMMA CountBlocks ==
    ASSUME NEW S, NEW h \in Seq(S), NoDuplicates(h)
    PROVE  Cardinality(Blocks(h)) = Len(h)
<1>1. Len(h) \in Nat /\ DOMAIN h = 1..Len(h) /\ h \in [1..Len(h) -> Blocks(h)]
  BY DEF Blocks
<1>2. h \in Bijection(1..Len(h), Blocks(h))
  BY <1>1 DEF Bijection, Injection, Surjection, IsInjective, NoDuplicates, Blocks
<1> QED  BY <1>1, <1>2, FS_CountingElements DEF ExistsBijection

\* The order only relates blocks of the list.
LEMMA NewerIsAmong ==
    ASSUME NEW h
    PROVE  NewerThan(h) \cap (Blocks(h) \X Blocks(h)) = NewerThan(h)
BY DEF NewerThan

\* Whoever is behind another in a list without duplicates is not before it.
LEMMA NewerPositions ==
    ASSUME NEW S, NEW h \in Seq(S), NoDuplicates(h),
           NEW i \in DOMAIN h, NEW j \in DOMAIN h
    PROVE  <<h[j], h[i]>> \in NewerThan(h) <=> i < j
BY DEF NewerThan, NoDuplicates, Blocks

\* Removing blocks leaves the order of the others alone.
LEMMA NewerWithout ==
    ASSUME NEW S, NEW h \in Seq(S), NoDuplicates(h), NEW T, NEW r \in Without(h, T)
    PROVE  NewerThan(r) = NewerThan(h) \cap (Blocks(r) \X Blocks(r))
<1>1. /\ r \in Seq(S) /\ Blocks(r) = Blocks(h) \ T /\ NoDuplicates(r)
      /\ DOMAIN r \subseteq Nat /\ DOMAIN h \subseteq Nat
  BY WithoutIsSeq
<1>2. IsWithout(r, h, T)
  BY DEF Without
<1>3. ASSUME NEW a \in Blocks(r), NEW b \in Blocks(r), <<a, b>> \in NewerThan(r)
      PROVE  <<a, b>> \in NewerThan(h)
  <2>1. PICK i \in DOMAIN r, j \in DOMAIN r : i < j /\ a = r[j] /\ b = r[i]
    BY <1>3 DEF NewerThan
  <2>2. PICK k \in DOMAIN h, l \in DOMAIN h : k < l /\ h[k] = r[i] /\ h[l] = r[j]
    BY <1>2, <2>1 DEF IsWithout
  <2> QED  BY <2>1, <2>2 DEF NewerThan, Blocks
<1>4. ASSUME NEW a \in Blocks(r), NEW b \in Blocks(r), <<a, b>> \in NewerThan(h)
      PROVE  <<a, b>> \in NewerThan(r)
  <2>1. PICK i \in DOMAIN r, j \in DOMAIN r : a = r[j] /\ b = r[i]
    BY DEF Blocks
  <2>2. PICK k \in DOMAIN h, l \in DOMAIN h : k < l /\ a = h[l] /\ b = h[k]
    BY <1>4 DEF NewerThan
  <2>3. i # j
    <3>1. k # l
      BY <1>1, <2>2
    <3>2. a # b
      BY <2>2, <3>1 DEF NoDuplicates
    <3> QED  BY <2>1, <3>2
  <2>4. ~(j < i)
    <3>1. SUFFICES ASSUME j < i PROVE FALSE
      OBVIOUS
    <3>2. PICK x \in DOMAIN h, y \in DOMAIN h : x < y /\ h[x] = a /\ h[y] = b
      BY <1>2, <2>1, <3>1 DEF IsWithout
    <3>3. x = l /\ y = k
      BY <2>2, <3>2 DEF NoDuplicates
    <3> QED  BY <1>1, <2>2, <3>2, <3>3
  <2>5. i < j
    BY <1>1, <2>1, <2>3, <2>4
  <2> QED  BY <2>1, <2>5 DEF NewerThan
<1> QED  BY <1>3, <1>4 DEF NewerThan

\* The front of the list is the oldest, and the order survives its departure.
LEMMA NewerTail ==
    ASSUME NEW S, NEW h \in Seq(S), h # <<>>, NoDuplicates(h)
    PROVE  /\ NewerThan(Tail(h)) = NewerThan(h) \cap (Blocks(Tail(h)) \X Blocks(Tail(h)))
           /\ \A c \in Blocks(h) \ {Head(h)} : <<c, Head(h)>> \in NewerThan(h)
<1> DEFINE t == Tail(h)
<1>1. /\ Len(h) \in Nat /\ Len(h) >= 1
      /\ DOMAIN t = 1 .. (Len(h) - 1)
      /\ DOMAIN h = 1 .. Len(h)
      /\ \A i \in 1 .. (Len(h) - 1) : t[i] = h[i + 1]
      /\ Head(h) = h[1]
  OBVIOUS
<1>2. Blocks(t) = Blocks(h) \ {Head(h)}
  BY TailOfList
<1> HIDE DEF t
<1>3. ASSUME NEW a \in Blocks(t), NEW b \in Blocks(t), <<a, b>> \in NewerThan(t)
      PROVE  <<a, b>> \in NewerThan(h)
  <2>1. PICK i \in DOMAIN t, j \in DOMAIN t : i < j /\ a = t[j] /\ b = t[i]
    BY <1>3 DEF NewerThan
  <2>2. i + 1 \in DOMAIN h /\ j + 1 \in DOMAIN h /\ i + 1 < j + 1
    BY <1>1, <2>1
  <2>3. a = h[j + 1] /\ b = h[i + 1] /\ a \in Blocks(h) /\ b \in Blocks(h)
    BY <1>1, <1>2, <2>1
  <2> QED  BY <2>2, <2>3 DEF NewerThan
<1>4. ASSUME NEW a \in Blocks(t), NEW b \in Blocks(t), <<a, b>> \in NewerThan(h)
      PROVE  <<a, b>> \in NewerThan(t)
  <2>1. PICK i \in DOMAIN h, j \in DOMAIN h : i < j /\ a = h[j] /\ b = h[i]
    BY <1>4 DEF NewerThan
  <2>2. i # 1 /\ j # 1
    BY <1>1, <1>2, <2>1
  <2>3. /\ i - 1 \in DOMAIN t /\ j - 1 \in DOMAIN t /\ i - 1 < j - 1
        /\ (i - 1) + 1 = i /\ (j - 1) + 1 = j
    BY <1>1, <2>1, <2>2
  <2>4. a = t[j - 1] /\ b = t[i - 1]
    BY <1>1, <2>1, <2>3
  <2> QED  BY <2>3, <2>4 DEF NewerThan
<1>5. ASSUME NEW c \in Blocks(h) \ {Head(h)}
      PROVE  <<c, Head(h)>> \in NewerThan(h)
  <2>1. PICK j \in DOMAIN h : c = h[j]
    BY DEF Blocks
  <2>2. 1 \in DOMAIN h /\ 1 < j
    BY <1>1, <1>5, <2>1
  <2> QED  BY <1>1, <2>1, <2>2 DEF NewerThan, Blocks
<1>6. NewerThan(t) = NewerThan(h) \cap (Blocks(t) \X Blocks(t))
  BY <1>2, <1>3, <1>4 DEF NewerThan
<1> QED  BY <1>5, <1>6 DEF t

\* A block that joins the list is newer than all others.
LEMMA NewerAppend ==
    ASSUME NEW S, NEW h \in Seq(S), NoDuplicates(h), NEW a \in S, a \notin Blocks(h)
    PROVE  NewerThan(Append(h, a)) = NewerThan(h) \cup {<<a, b>> : b \in Blocks(h)}
<1> DEFINE g == Append(h, a)
           n == Len(h)
<1>1. /\ n \in Nat /\ DOMAIN h = 1..n /\ DOMAIN g = 1 .. (n + 1)
      /\ \A i \in 1..n : g[i] = h[i]
      /\ g[n + 1] = a
  OBVIOUS
<1>2. Blocks(g) = Blocks(h) \cup {a}
  BY AppendNew
<1> HIDE DEF g, n
<1>3. ASSUME NEW x \in Blocks(g), NEW y \in Blocks(g), <<x, y>> \in NewerThan(g)
      PROVE  <<x, y>> \in NewerThan(h) \cup {<<a, b>> : b \in Blocks(h)}
  <2>1. PICK i \in DOMAIN g, j \in DOMAIN g : i < j /\ x = g[j] /\ y = g[i]
    BY <1>3 DEF NewerThan
  <2>2. i \in 1..n /\ y = h[i]
    BY <1>1, <2>1
  <2>3. CASE j = n + 1
    BY <1>1, <2>1, <2>2, <2>3 DEF Blocks
  <2>4. CASE j # n + 1
    <3>1. j \in 1..n /\ x = h[j]
      BY <1>1, <2>1, <2>4
    <3> QED  BY <1>1, <2>1, <2>2, <3>1 DEF NewerThan, Blocks
  <2> QED  BY <2>3, <2>4
<1>4. ASSUME NEW b \in Blocks(h)
      PROVE  <<a, b>> \in NewerThan(g)
  <2>1. PICK i \in 1..n : b = h[i]
    BY <1>1 DEF Blocks
  <2>2. i \in DOMAIN g /\ n + 1 \in DOMAIN g /\ i < n + 1 /\ b = g[i]
    BY <1>1, <2>1
  <2> QED  BY <1>1, <1>2, <2>2 DEF NewerThan
<1>5. NewerThan(h) \subseteq NewerThan(g)
  <2>1. ASSUME NEW x \in Blocks(h), NEW y \in Blocks(h), <<x, y>> \in NewerThan(h)
        PROVE  <<x, y>> \in NewerThan(g)
    <3>1. PICK i \in DOMAIN h, j \in DOMAIN h : i < j /\ x = h[j] /\ y = h[i]
      BY <2>1 DEF NewerThan
    <3>2. i \in DOMAIN g /\ j \in DOMAIN g /\ x = g[j] /\ y = g[i]
      BY <1>1, <3>1
    <3> QED  BY <1>2, <3>1, <3>2 DEF NewerThan
  <2> QED  BY <2>1 DEF NewerThan
<1>6. NewerThan(g) \subseteq NewerThan(h) \cup {<<a, b>> : b \in Blocks(h)}
  BY <1>3 DEF NewerThan
<1> QED  BY <1>4, <1>5, <1>6 DEF g

\* update() of a block that is not listed: either there is room, or the oldest
\* block makes room; the new block is newer than all that stay, and the order
\* among those does not change.
MakesRoom(h, b) ==
    \/ b = NoBlock /\ Cardinality(Blocks(h)) < size_limit_
    \/ /\ b \in Blocks(h) /\ Cardinality(Blocks(h)) = size_limit_
       /\ \A c \in Blocks(h) \ {b} : <<c, b>> \in NewerThan(h)

Joins(r, h, a, b) ==
    LET K == Blocks(h) \ {b}
    IN  /\ Blocks(r) = K \cup {a}
        /\ NewerThan(r) = (NewerThan(h) \cap (K \X K)) \cup {<<a, c>> : c \in K}

LEMMA UpdatedOrder ==
    ASSUME NEW S, NoBlock \notin S,
           NEW h \in Seq(S), NoDuplicates(h), Len(h) <= size_limit_,
           NEW a \in S, a \notin Blocks(h), NEW r \in Updated(h, a)
    PROVE  MakesRoom(h, Stale(h, a)) /\ Joins(r, h, a, Stale(h, a))
<1>1. /\ Len(h) \in Nat /\ size_limit_ \in Nat \ {0}
      /\ Cardinality(Blocks(h)) = Len(h)
      /\ NoBlock \notin Blocks(h)
  BY CountBlocks, LimitAssumption, BlocksOfSeq
<1> DEFINE g == Append(h, a)
           K == Blocks(h) \ {Stale(h, a)}
<1>2. /\ NoDuplicates(g) /\ g \in Seq(S) /\ g # <<>>
      /\ Len(g) = Len(h) + 1
      /\ Blocks(g) = Blocks(h) \cup {a}
      /\ NewerThan(g) = NewerThan(h) \cup {<<a, b>> : b \in Blocks(h)}
  BY AppendNew, NewerAppend
<1>3. NewerThan(h) \subseteq Blocks(h) \X Blocks(h)
  BY DEF NewerThan
<1>4. CASE ~Overfull(g)
  <2>1. r = g /\ Stale(h, a) = NoBlock
    BY <1>4 DEF Updated, Stale
  <2>2. Len(h) < size_limit_
    BY <1>1, <1>2, <1>4 DEF Overfull
  <2> HIDE DEF g
  <2>3. K = Blocks(h)
    BY <1>1, <2>1
  <2> QED  BY <1>1, <1>2, <1>3, <2>1, <2>2, <2>3 DEF MakesRoom, Joins
<1>5. CASE Overfull(g)
  <2>1. r = Tail(g) /\ Stale(h, a) = Head(g)
    BY <1>5 DEF Updated, Stale
  <2>2. Len(h) = size_limit_
    BY <1>1, <1>2, <1>5 DEF Overfull
  <2>3. h # <<>> /\ Head(g) = Head(h)
    <3>1. Len(h) >= 1
      BY <1>1, <2>2
    <3>2. Head(h) = h[1] /\ Head(g) = g[1] /\ g[1] = h[1]
      BY <3>1
    <3> QED  BY <3>1, <3>2
  <2> DEFINE b == Head(h)
  <2>4. /\ b \in Blocks(h) /\ b # a
        /\ \A c \in Blocks(h) \ {b} : <<c, b>> \in NewerThan(h)
    BY <2>3, TailOfList, NewerTail
  <2> HIDE DEF g
  <2>5. /\ Blocks(r) = Blocks(g) \ {b}
        /\ NewerThan(r) = NewerThan(g) \cap (Blocks(r) \X Blocks(r))
    BY <1>2, <2>1, <2>3, TailOfList, NewerTail
  <2>6. Stale(h, a) = b /\ K = Blocks(h) \ {b}
    BY <2>1, <2>3
  <2> HIDE DEF b
  <2>7. Blocks(r) = K \cup {a}
    BY <1>2, <2>4, <2>5, <2>6
  <2>8. NewerThan(r) = (NewerThan(h) \cap (K \X K)) \cup {<<a, c>> : c \in K}
    BY <1>2, <1>3, <2>5, <2>6, <2>7
  <2> QED  BY <1>1, <2>2, <2>4, <2>6, <2>7, <2>8 DEF MakesRoom, Joins
<1> QED  BY <1>4, <1>5

=============================================================================
