-------------------------- MODULE LRUCacheTheorems ---------------------------
(* The class AddressLRU is an LRU cache, for every set of addresses and     *)
(* every limit.                                                             *)
EXTENDS LRUCache, AddressLRUTheorems

\* The value that stands for no block is no address.
LEMMA NoBlockHere == NoBlock \notin Addrs
BY AddrsAssumption

\* update() of a block that is listed: it moves to the back.
LEMMA UpdatedListed ==
    ASSUME TypeOK, NEW a \in Addrs, a \in Blocks(history_),
           NEW r \in Updated(history_, a)
    PROVE  /\ r \in Seq(Addrs) /\ NoDuplicates(r)
           /\ Len(r) <= size_limit_
           /\ Blocks(r) = Blocks(history_)
           /\ Stale(history_, a) = NoBlock
           /\ NewerThan(r) = R!Among(Blocks(history_) \ {a})
                               \cup {<<a, b>> : b \in Blocks(history_) \ {a}}
<1>1. history_ \in Seq(Addrs) /\ NoDuplicates(history_) /\ Len(history_) <= size_limit_
  BY DEF TypeOK
<1>2. PICK q \in Without(history_, {a}) : r = Append(q, a)
  BY DEF Updated
<1>3. /\ q \in Seq(Addrs) /\ NoDuplicates(q)
      /\ Len(q) <= Len(history_)
      /\ Blocks(q) = Blocks(history_) \ {a}
  BY <1>1, <1>2, WithoutIsSeq
<1>4. NewerThan(q) = NewerThan(history_) \cap (Blocks(q) \X Blocks(q))
  BY <1>1, <1>2, NewerWithout
<1>5. /\ r \in Seq(Addrs) /\ NoDuplicates(r)
      /\ Blocks(r) = Blocks(history_)
  <2>1. a \notin Blocks(q) /\ Blocks(q) \cup {a} = Blocks(history_)
    BY <1>3
  <2>2. /\ NoDuplicates(Append(q, a)) /\ Append(q, a) \in Seq(Addrs)
        /\ Blocks(Append(q, a)) = Blocks(q) \cup {a}
    BY <1>3, <2>1, AppendNew
  <2> QED  BY <1>2, <2>1, <2>2
<1>6. NewerThan(r) = NewerThan(q) \cup {<<a, b>> : b \in Blocks(q)}
  BY <1>2, <1>3, NewerAppend
<1>7. Len(r) = Len(history_)
  BY <1>1, <1>5, CountBlocks
<1>8. NewerThan(r) = R!Among(Blocks(history_) \ {a})
                      \cup {<<a, b>> : b \in Blocks(history_) \ {a}}
  BY <1>3, <1>4, <1>6 DEF R!Among
<1>9. Stale(history_, a) = NoBlock
  BY DEF Stale
<1> QED  BY <1>1, <1>5, <1>7, <1>8, <1>9

LEMMA InitOK == Init => TypeOK
BY LimitAssumption DEF Init, TypeOK, NoDuplicates

LEMMA NextOK ==
    ASSUME TypeOK, [Next]_vars
    PROVE  TypeOK'
<1> USE DEF TypeOK
<1>1. ASSUME NEW a \in Addrs, update(a)
      PROVE  TypeOK'
  <2>1. history_' \in Updated(history_, a) /\ stale' = Stale(history_, a)
    BY <1>1 DEF update
  <2>2. stale' \in Addrs \cup {NoBlock}
    BY <2>1, StaleType
  <2>3. CASE a \in Blocks(history_)
    BY <2>1, <2>2, <2>3, UpdatedListed
  <2>4. CASE a \notin Blocks(history_)
    BY <2>1, <2>2, <2>4, NoBlockHere, UpdatedNew
  <2> QED  BY <2>3, <2>4
<1>2. CASE clear
  BY <1>2, LimitAssumption DEF clear, NoDuplicates
<1>3. ASSUME NEW first \in Addrs, NEW end \in Addrs, purge(first, end)
      PROVE  TypeOK'
  <2>1. PICK T : history_' \in Without(history_, T) /\ stale' = NoBlock
    BY <1>3 DEF purge, Purged
  <2>2. /\ history_' \in Seq(Addrs) /\ NoDuplicates(history_')
        /\ Len(history_') <= Len(history_)
    BY <2>1, WithoutIsSeq
  <2>3. Len(history_) \in Nat /\ Len(history_') \in Nat /\ size_limit_ \in Nat
    BY <2>2, LimitAssumption
  <2> QED  BY <2>1, <2>2, <2>3
<1>4. CASE UNCHANGED vars
  BY <1>4 DEF vars, NoDuplicates
<1> QED  BY <1>1, <1>2, <1>3, <1>4 DEF Next

\* The list never outgrows its limit and never names a block twice.
THEOREM ListOK == Spec => []TypeOK
  BY InitOK, NextOK, PTL DEF Spec

\* update() reports the block that left the list, and only that.
THEOREM StaleReported == Spec => StaleIsWhatLeft
<1>1. ASSUME TypeOK, TypeOK', [Next]_vars
      PROVE  [\A a \in Addrs : update(a) =>
                Blocks(history_) \ Blocks(history_') = {stale'} \ {NoBlock}]_vars
  <2>1. SUFFICES ASSUME NEW a \in Addrs, update(a)
                 PROVE  Blocks(history_) \ Blocks(history_') = {stale'} \ {NoBlock}
    OBVIOUS
  <2>2. history_' \in Updated(history_, a) /\ stale' = Stale(history_, a)
    BY <2>1 DEF update
  <2>3. CASE a \in Blocks(history_)
    BY <1>1, <2>2, <2>3, UpdatedListed
  <2>4. CASE a \notin Blocks(history_)
    <3>1. /\ Stale(history_, a) \in Blocks(history_) \cup {NoBlock}
          /\ Blocks(history_') = (Blocks(history_) \cup {a}) \ {Stale(history_, a)}
      BY <1>1, <2>2, <2>4, NoBlockHere, UpdatedNew DEF TypeOK
    <3>2. NoBlock \notin Blocks(history_)
      BY <1>1, NoBlockHere, BlocksOfSeq DEF TypeOK
    <3> QED  BY <2>2, <2>4, <3>1, <3>2
  <2> QED  BY <2>3, <2>4
<1> QED  BY <1>1, ListOK, PTL DEF Spec, StaleIsWhatLeft

-----------------------------------------------------------------------------
(* The refinement                                                          *)

\* Recency counts blocks as this module does.
LEMMA SameCardinality == \A S : R!Cardinality(S) = Cardinality(S)
BY DEF R!Cardinality, Cardinality

\* A list without duplicates, one block newer and as short as it must be, is
\* what a fault makes of the resident blocks.
LEMMA UpdateIsFault ==
    ASSUME TypeOK, NEW a \in Addrs, update(a)
    PROVE  R!Fault(a)
<1>1. /\ history_ \in Seq(Addrs) /\ NoDuplicates(history_) /\ Len(history_) \in Nat
      /\ Len(history_) <= size_limit_ /\ size_limit_ \in Nat \ {0}
      /\ Cardinality(Blocks(history_)) = Len(history_)
  BY CountBlocks, LimitAssumption DEF TypeOK
<1>2. history_' \in Updated(history_, a)
  BY DEF update
<1>3. CASE a \in Blocks(history_)
  BY <1>2, <1>3, UpdatedListed DEF R!Fault, R!Becomes
<1>4. CASE a \notin Blocks(history_)
  <2> DEFINE b == Stale(history_, a)
             K == Blocks(history_) \ {b}
  <2>1. MakesRoom(history_, b) /\ Joins(history_', history_, a, b)
    BY <1>1, <1>2, <1>4, NoBlockHere, UpdatedOrder
  <2>2. NoBlock \notin Blocks(history_)
    BY <1>1, NoBlockHere, BlocksOfSeq
  <2> HIDE DEF b
  <2>3. R!Becomes(K, a)
    BY <1>4, <2>1 DEF R!Becomes, R!Among, Joins
  <2>4. CASE b = NoBlock /\ Cardinality(Blocks(history_)) < size_limit_
    <3>1. K = Blocks(history_)
      BY <2>2, <2>4
    <3> HIDE DEF K
    <3> QED  BY <1>4, <2>3, <2>4, <3>1, SameCardinality DEF R!Fault
  <2>5. CASE /\ b \in Blocks(history_) /\ Cardinality(Blocks(history_)) = size_limit_
             /\ R!IsOldest(b)
    BY <1>4, <2>3, <2>5, SameCardinality DEF R!Fault
  <2> QED  BY <2>1, <2>4, <2>5 DEF MakesRoom, R!IsOldest
<1> QED  BY <1>3, <1>4

\* The class implements Recency: what makes room is always the block whose
\* last update is the oldest.
THEOREM EvictsTheOldest == Spec => IsRecency
<1>1. Init => R!Init
  BY DEF Init, R!Init, Blocks, NewerThan
<1>2. ASSUME TypeOK, [Next]_vars
      PROVE  [R!Next]_(R!vars)
  <2>1. ASSUME NEW a \in Addrs, update(a)
        PROVE  R!Next
    BY <1>2, <2>1, UpdateIsFault DEF R!Next
  <2>2. CASE clear
    <3>1. Blocks(history_') = {} /\ NewerThan(history_') = {}
      BY <2>2 DEF clear, Blocks, NewerThan
    <3>2. R!Leave(Blocks(history_))
      BY <3>1 DEF R!Leave, R!Among
    <3> QED  BY <3>2 DEF R!Next
  <2>3. ASSUME NEW first \in Addrs, NEW end \in Addrs, purge(first, end)
        PROVE  R!Next
    <3>1. PICK T : history_' \in Without(history_, T)
      BY <2>3 DEF purge, Purged
    <3>2. /\ Blocks(history_') = Blocks(history_) \ T
          /\ NewerThan(history_') = NewerThan(history_) \cap (Blocks(history_') \X Blocks(history_'))
      BY <1>2, <3>1, WithoutIsSeq, NewerWithout DEF TypeOK
    <3>3. R!Leave(Blocks(history_) \cap T)
      BY <3>2 DEF R!Leave, R!Among
    <3> QED  BY <3>3 DEF R!Next
  <2>4. CASE UNCHANGED vars
    BY <2>4 DEF vars, R!vars, Blocks, NewerThan
  <2> QED  BY <1>2, <2>1, <2>2, <2>3, <2>4 DEF Next
<1> QED  BY <1>1, <1>2, ListOK, PTL DEF Spec, IsRecency, R!Spec

=============================================================================
