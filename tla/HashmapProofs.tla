--------------------------- MODULE HashmapProofs ----------------------------
(***************************************************************************)
(* The chains of Hashmap are the functions that Voisin, and through it     *)
(* Inondation, has for tables: for any hash function, any number of chains *)
(* and any keys.                                                           *)
(***************************************************************************)
EXTENDS Hashmap, Voisin, Arithmetic, FiniteSetTheorems, SequenceTheorems, TLAPS

-----------------------------------------------------------------------------
(* Chains *)

\* Key k stands at position i of the chain it hashes to.
Stands(map, k, i) == i \in DOMAIN Chain(map, k) /\ Chain(map, k)[i].key = k

\* A key has one place in a table: the walk of hashmap.c ends there.
LEMMA PositionUnique ==
  ASSUME NEW map, WellBuilt(map), NEW k \in Key, NEW i, Stands(map, k, i)
  PROVE  Position(map, k) = i
<1> USE HashmapAssumption
<1>1. hash[k] \in Bucket /\ Chain(map, k) \in Seq(Node)
  BY DEF WellBuilt, Map, Chain
<1>2. \A j \in DOMAIN Chain(map, k) : Chain(map, k)[j].key = k => j = i
  BY <1>1 DEF WellBuilt, Chain, Stands
<1>3. \A j \in 1..(i - 1) : j \in DOMAIN Chain(map, k) /\ j # i
  BY <1>1 DEF Stands
<1>4. \A j \in 1..(i - 1) : Chain(map, k)[j].key # k
  BY <1>2, <1>3
<1>5. \A m \in DOMAIN Chain(map, k) :
        (/\ Chain(map, k)[m].key = k
         /\ \A j \in 1..(m - 1) : Chain(map, k)[j].key # k) <=> m = i
  BY <1>2, <1>4 DEF Stands
<1> QED
  BY <1>5 DEF Position, Stands

\* The walk ends on a node with the key, when there is one.
LEMMA PositionStands ==
  ASSUME NEW map, WellBuilt(map), NEW k \in Key, ContainsMap(map, k)
  PROVE  Stands(map, k, Position(map, k))
<1>1. PICK i \in DOMAIN Chain(map, k) : Chain(map, k)[i].key = k
  BY DEF ContainsMap
<1>2. Stands(map, k, i)
  BY <1>1 DEF Stands
<1> QED
  BY <1>2, PositionUnique

\* What get_map finds depends on the nodes only.
LEMMA GetIs ==
  ASSUME NEW map, WellBuilt(map), NEW k \in Key, NEW i, Stands(map, k, i)
  PROVE  GetMap(map, k) = Chain(map, k)[i].value
BY PositionUnique DEF GetMap

-----------------------------------------------------------------------------
(* init_map *)

\* The table init_map returns is well built and has no key.
THEOREM InitIsEmpty == WellBuilt(InitMap) /\ KeysOf(InitMap) = {}
<1> USE HashmapAssumption
<1>1. InitMap \in Map
  BY DEF InitMap, Map
<1>2. \A b \in Bucket : InitMap.content[b] = <<>>
  BY DEF InitMap
<1>3. KeysOf(InitMap) = {}
  BY <1>2 DEF KeysOf, ContainsMap, Chain
<1>4. IsFiniteSet({}) /\ Cardinality({}) = 0
  BY FS_EmptySet
<1>5. \A b \in Bucket : DOMAIN InitMap.content[b] = {}
  BY <1>2
<1>6. InitMap.size = Cardinality(KeysOf(InitMap))
  BY <1>3, <1>4 DEF InitMap
<1> QED
  BY <1>1, <1>3, <1>4, <1>5, <1>6 DEF WellBuilt

-----------------------------------------------------------------------------
(* insert_map *)

\* The key is there: its node keeps its place.
LEMMA InsertKnown ==
  ASSUME NEW map, WellBuilt(map), NEW k \in Key, NEW v \in Value,
         ContainsMap(map, k)
  PROVE  /\ WellBuilt(InsertInMap(map, k, v))
         /\ \A q \in Key : /\ ContainsMap(InsertInMap(map, k, v), q) <=>
                                ContainsMap(map, q)
                           /\ ContainsMap(map, q) =>
                                GetMap(InsertInMap(map, k, v), q) =
                                  IF q = k THEN v ELSE GetMap(map, q)
<1> USE HashmapAssumption
<1> DEFINE h == hash[k]
           p == Position(map, k)
           node == [key |-> k, value |-> v]
           new == InsertInMap(map, k, v)
           old == map.content[h]
<1>1. Stands(map, k, p)
  BY PositionStands
<1>2. /\ map \in Map /\ h \in Bucket /\ old \in Seq(Node) /\ node \in Node
      /\ p \in DOMAIN old /\ old[p].key = k
  BY <1>1 DEF WellBuilt, Map, Node, Stands, Chain
<1>3. /\ new.size = map.size
      /\ new.content = [map.content EXCEPT ![h] = [old EXCEPT ![p] = node]]
  BY <1>2 DEF InsertInMap, Map
<1>4. [old EXCEPT ![p] = node] \in Seq(Node)
  BY <1>2
<1>5. new \in Map
  BY <1>2, <1>3, <1>4 DEF InsertInMap, Map
<1>6. \A b \in Bucket :
        /\ new.content[b] \in Seq(Node)
        /\ DOMAIN new.content[b] = DOMAIN map.content[b]
        /\ \A i \in DOMAIN map.content[b] :
             new.content[b][i] =
               IF b = h /\ i = p THEN node ELSE map.content[b][i]
  BY <1>2, <1>3, <1>4 DEF Map
<1>7. \A b \in Bucket : \A i \in DOMAIN map.content[b] :
        new.content[b][i].key = map.content[b][i].key
  BY <1>2, <1>6
<1>8. \A q \in Key : ContainsMap(new, q) <=> ContainsMap(map, q)
  BY <1>6, <1>7 DEF ContainsMap, Chain
<1>9. KeysOf(new) = KeysOf(map)
  BY <1>8 DEF KeysOf
<1>10. WellBuilt(new)
  <2>1. \A b \in Bucket : \A i \in DOMAIN new.content[b] :
          hash[new.content[b][i].key] = b
    BY <1>6, <1>7 DEF WellBuilt
  <2>2. \A b \in Bucket : \A i, j \in DOMAIN new.content[b] :
          new.content[b][i].key = new.content[b][j].key => i = j
    BY <1>6, <1>7 DEF WellBuilt
  <2> QED
    BY <1>3, <1>5, <1>9, <2>1, <2>2 DEF WellBuilt
<1>11. ASSUME NEW q \in Key, ContainsMap(map, q)
       PROVE  GetMap(new, q) = IF q = k THEN v ELSE GetMap(map, q)
  <2> DEFINE i == Position(map, q)
  <2>1. Stands(map, q, i) /\ GetMap(map, q) = map.content[hash[q]][i].value
    BY <1>11, PositionStands DEF GetMap, Chain
  <2>2. hash[q] \in Bucket
    OBVIOUS
  <2>3. Stands(new, q, i)
    BY <1>6, <1>7, <2>1, <2>2 DEF Stands, Chain
  <2>4. GetMap(new, q) = new.content[hash[q]][i].value
    BY <1>10, <2>3, GetIs DEF Chain
  <2>5. CASE q = k
    BY <1>2, <1>6, <2>2, <2>4, <2>5
  <2>6. CASE q # k
    <3>1. ~(hash[q] = h /\ i = p)
      BY <1>2, <2>1, <2>6 DEF Stands, Chain
    <3> QED
      BY <1>6, <2>1, <2>2, <2>4, <2>6, <3>1 DEF Stands, Chain
  <2> QED
    BY <2>5, <2>6
<1> QED
  BY <1>8, <1>10, <1>11

\* The key is new: its node goes to the end of its chain.
LEMMA InsertUnknown ==
  ASSUME NEW map, WellBuilt(map), NEW k \in Key, NEW v \in Value,
         ~ContainsMap(map, k)
  PROVE  /\ WellBuilt(InsertInMap(map, k, v))
         /\ \A q \in Key : /\ ContainsMap(InsertInMap(map, k, v), q) <=>
                                q = k \/ ContainsMap(map, q)
                           /\ GetMap(InsertInMap(map, k, v), k) = v
                           /\ ContainsMap(map, q) =>
                                GetMap(InsertInMap(map, k, v), q) =
                                  GetMap(map, q)
<1> USE HashmapAssumption
<1> DEFINE h == hash[k]
           node == [key |-> k, value |-> v]
           new == InsertInMap(map, k, v)
           old == map.content[h]
           n == Len(old) + 1
<1>0. map \in Map /\ h \in Bucket /\ old \in Seq(Node)
  BY DEF WellBuilt, Map
<1>1. /\ map \in Map /\ h \in Bucket /\ old \in Seq(Node) /\ node \in Node
      /\ n \in Nat \ {0}
  BY <1>0 DEF Node
<1>2. /\ new.size = map.size + 1
      /\ new.content = [map.content EXCEPT ![h] = Append(old, node)]
  BY DEF InsertInMap
<1>3. Append(old, node) \in Seq(Node)
  BY <1>1
<1>4. new \in Map
  BY <1>1, <1>2, <1>3 DEF InsertInMap, Map
<1>5. /\ DOMAIN new.content[h] = DOMAIN old \cup {n}
      /\ n \notin DOMAIN old
      /\ new.content[h][n] = node
      /\ \A i \in DOMAIN old : new.content[h][i] = old[i]
  BY <1>1, <1>2 DEF Map
<1>6. \A b \in Bucket \ {h} : new.content[b] = map.content[b]
  BY <1>1, <1>2 DEF Map
<1>7. \A i \in DOMAIN old : old[i].key # k
  BY DEF ContainsMap, Chain
<1>8. \A q \in Key : ContainsMap(new, q) <=> q = k \/ ContainsMap(map, q)
  <2> SUFFICES ASSUME NEW q \in Key
               PROVE  ContainsMap(new, q) <=> q = k \/ ContainsMap(map, q)
    OBVIOUS
  <2>1. CASE hash[q] = h
    BY <1>5, <2>1 DEF ContainsMap, Chain
  <2>2. CASE hash[q] # h
    BY <1>6, <2>2 DEF ContainsMap, Chain
  <2> QED
    BY <2>1, <2>2
<1>9. KeysOf(new) = KeysOf(map) \cup {k} /\ k \notin KeysOf(map)
  BY <1>8 DEF KeysOf
<1>10. /\ IsFiniteSet(KeysOf(new))
       /\ Cardinality(KeysOf(new)) = Cardinality(KeysOf(map)) + 1
  BY <1>9, FS_AddElement DEF WellBuilt
<1>11. WellBuilt(new)
  <2>1. \A b \in Bucket : \A i \in DOMAIN new.content[b] :
          hash[new.content[b][i].key] = b
    BY <1>5, <1>6 DEF WellBuilt
  <2>2. ASSUME NEW b \in Bucket, NEW i \in DOMAIN new.content[b],
               NEW j \in DOMAIN new.content[b],
               new.content[b][i].key = new.content[b][j].key
        PROVE  i = j
    <3>1. CASE b # h
      BY <1>6, <2>2, <3>1 DEF WellBuilt
    <3>2. CASE b = h /\ i \in DOMAIN old /\ j \in DOMAIN old
      BY <1>1, <1>5, <2>2, <3>2 DEF WellBuilt
    <3>3. CASE b = h /\ (i = n \/ j = n)
      BY <1>5, <1>7, <2>2, <3>3
    <3> QED
      BY <1>5, <3>1, <3>2, <3>3
  <2> QED
    BY <1>2, <1>4, <1>10, <2>1, <2>2 DEF WellBuilt
<1>12. GetMap(new, k) = v
  <2>1. Stands(new, k, n)
    BY <1>5 DEF Stands, Chain
  <2> QED
    BY <1>5, <1>11, <2>1, GetIs DEF Chain
<1>13. ASSUME NEW q \in Key, ContainsMap(map, q)
       PROVE  GetMap(new, q) = GetMap(map, q)
  <2> DEFINE i == Position(map, q)
  <2>1. Stands(map, q, i) /\ GetMap(map, q) = map.content[hash[q]][i].value
    BY <1>13, PositionStands DEF GetMap, Chain
  <2>2. /\ i \in DOMAIN new.content[hash[q]]
        /\ new.content[hash[q]][i] = map.content[hash[q]][i]
    <3>1. CASE hash[q] = h
      BY <1>5, <2>1, <3>1 DEF Stands, Chain
    <3>2. CASE hash[q] # h
      BY <1>6, <2>1, <3>2 DEF Stands, Chain
    <3> QED
      BY <3>1, <3>2
  <2>3. Stands(new, q, i)
    BY <2>1, <2>2 DEF Stands, Chain
  <2> QED
    BY <1>11, <2>1, <2>2, <2>3, GetIs DEF Chain
<1> QED
  BY <1>8, <1>11, <1>12, <1>13

\* insert_map keeps a table well built, and is the function update the other
\* modules have for it.
THEOREM InsertIsUpdate ==
  ASSUME NEW map, WellBuilt(map), NEW k \in Key, NEW v \in Value
  PROVE  /\ WellBuilt(InsertInMap(map, k, v))
         /\ AsFunction(InsertInMap(map, k, v)) = InsertMap(AsFunction(map), k, v)
<1> DEFINE new == InsertInMap(map, k, v)
<1>1. WellBuilt(new)
  BY InsertKnown, InsertUnknown
<1>2. KeysOf(new) = KeysOf(map) \cup {k}
  <2>1. CASE ContainsMap(map, k)
    BY <2>1, InsertKnown DEF KeysOf
  <2>2. CASE ~ContainsMap(map, k)
    BY <2>2, InsertUnknown DEF KeysOf
  <2> QED
    BY <2>1, <2>2
<1>3. \A q \in KeysOf(new) :
        GetMap(new, q) = IF q = k THEN v ELSE GetMap(map, q)
  <2> SUFFICES ASSUME NEW q \in KeysOf(new)
               PROVE  GetMap(new, q) = IF q = k THEN v ELSE GetMap(map, q)
    OBVIOUS
  <2>1. q \in Key
    BY DEF KeysOf
  <2>2. CASE q = k
    BY <2>2, InsertKnown, InsertUnknown
  <2>3. CASE q # k
    <3>1. ContainsMap(map, q)
      BY <1>2, <2>3 DEF KeysOf
    <3> QED
      BY <2>1, <2>3, <3>1, InsertKnown, InsertUnknown
  <2> QED
    BY <2>2, <2>3
<1>4. \A q \in KeysOf(map) : AsFunction(map)[q] = GetMap(map, q)
  BY DEF AsFunction
<1>5. AsFunction(new) = [q \in KeysOf(map) \cup {k} |->
                           IF q = k THEN v ELSE AsFunction(map)[q]]
  BY <1>2, <1>3, <1>4 DEF AsFunction
<1>6. DOMAIN AsFunction(map) = KeysOf(map)
  BY DEF AsFunction
<1> QED
  BY <1>1, <1>5, <1>6 DEF InsertMap

-----------------------------------------------------------------------------
(* remove_map *)

\* A chain without its node n: the nodes before it stay, those after it move
\* up, none is lost and none comes twice.
LEMMA UnlinkedChain ==
  ASSUME NEW S, NEW chain \in Seq(S), NEW n \in DOMAIN chain
  PROVE  /\ Unlinked(chain, n) \in Seq(S)
         /\ DOMAIN Unlinked(chain, n) = 1..(Len(chain) - 1)
         /\ \A i \in 1..(Len(chain) - 1) :
              /\ i < n => i \in DOMAIN chain /\ Unlinked(chain, n)[i] = chain[i]
              /\ i >= n => /\ i + 1 \in DOMAIN chain
                           /\ Unlinked(chain, n)[i] = chain[i + 1]
         /\ \A i \in DOMAIN chain :
              /\ i < n => i \in 1..(Len(chain) - 1)
              /\ i > n => i - 1 \in 1..(Len(chain) - 1) /\ i - 1 >= n
<1>1. Len(chain) \in Nat \ {0} /\ DOMAIN chain = 1..Len(chain)
  OBVIOUS
<1>2. \A i \in 1..(Len(chain) - 1) : i \in DOMAIN chain /\ i + 1 \in DOMAIN chain
  BY <1>1
<1>3. Unlinked(chain, n) \in [1..(Len(chain) - 1) -> S]
  BY <1>1, <1>2 DEF Unlinked
<1> QED
  BY <1>1, <1>2, <1>3 DEF Unlinked

\* The key is there: its node leaves its chain, whose other nodes stay.
LEMMA RemoveKnown ==
  ASSUME NEW map, WellBuilt(map), NEW k \in Key, ContainsMap(map, k)
  PROVE  /\ WellBuilt(RemoveFromMap(map, k))
         /\ \A q \in Key : /\ ContainsMap(RemoveFromMap(map, k), q) <=>
                                q # k /\ ContainsMap(map, q)
                           /\ q # k /\ ContainsMap(map, q) =>
                                GetMap(RemoveFromMap(map, k), q) =
                                  GetMap(map, q)
<1> USE HashmapAssumption
<1> DEFINE h == hash[k]
           p == Position(map, k)
           new == RemoveFromMap(map, k)
           old == map.content[h]
           cut == Unlinked(old, p)
<1>1. Stands(map, k, p)
  BY PositionStands
<1>2. /\ map \in Map /\ h \in Bucket /\ old \in Seq(Node)
      /\ p \in DOMAIN old /\ old[p].key = k
  BY <1>1 DEF WellBuilt, Map, Stands, Chain
<1>3. \A i \in DOMAIN old : old[i].key = k => i = p
  BY <1>2 DEF WellBuilt
<1>4. new.size = map.size - 1 /\ new.content = [map.content EXCEPT ![h] = cut]
  BY DEF RemoveFromMap
<1>5. /\ cut \in Seq(Node)
      /\ DOMAIN cut = 1..(Len(old) - 1)
      /\ \A i \in 1..(Len(old) - 1) :
           /\ i < p => i \in DOMAIN old /\ cut[i] = old[i]
           /\ i >= p => i + 1 \in DOMAIN old /\ cut[i] = old[i + 1]
      /\ \A i \in DOMAIN old :
           /\ i < p => i \in 1..(Len(old) - 1)
           /\ i > p => i - 1 \in 1..(Len(old) - 1) /\ i - 1 >= p
  BY <1>2, UnlinkedChain
<1>6. new.content[h] = cut /\ \A b \in Bucket \ {h} : new.content[b] = map.content[b]
  BY <1>2, <1>4 DEF Map
<1> DEFINE Was(i) == IF i < p THEN i ELSE i + 1
<1>7. /\ DOMAIN old \subseteq Nat /\ p \in Nat /\ Len(old) \in Nat
      /\ \A i \in DOMAIN cut :
           i \in Nat /\ Was(i) \in DOMAIN old /\ Was(i) # p /\ cut[i] = old[Was(i)]
  BY <1>2, <1>5
<1>8. \A i, j \in DOMAIN cut : Was(i) = Was(j) => i = j
  BY <1>7
<1>9. \A i \in DOMAIN old : i # p =>
        \E j \in DOMAIN cut : Was(j) = i /\ cut[j] = old[i]
  <2> SUFFICES ASSUME NEW i \in DOMAIN old, i # p
               PROVE  \E j \in DOMAIN cut : Was(j) = i
    BY <1>7
  <2>1. CASE i < p
    BY <1>5, <1>7, <2>1
  <2>2. CASE i > p
    <3>1. i - 1 \in DOMAIN cut /\ ~(i - 1 < p) /\ Was(i - 1) = i
      BY <1>5, <1>7, <2>2
    <3> QED
      BY <3>1
  <2> QED
    BY <1>7, <2>1, <2>2
<1> HIDE DEF Was
<1>10. \A q \in Key : ContainsMap(new, q) <=> q # k /\ ContainsMap(map, q)
  <2> SUFFICES ASSUME NEW q \in Key
               PROVE  ContainsMap(new, q) <=> q # k /\ ContainsMap(map, q)
    OBVIOUS
  <2>1. CASE hash[q] = h
    <3>1. ASSUME ContainsMap(new, q)
          PROVE  q # k /\ ContainsMap(map, q)
      <4>1. PICK i \in DOMAIN cut : cut[i].key = q
        BY <1>6, <2>1, <3>1 DEF ContainsMap, Chain
      <4>2. Was(i) \in DOMAIN old /\ Was(i) # p /\ old[Was(i)].key = q
        BY <1>7, <4>1
      <4> QED
        BY <1>3, <2>1, <4>2 DEF ContainsMap, Chain
    <3>2. ASSUME q # k, ContainsMap(map, q)
          PROVE  ContainsMap(new, q)
      <4>1. PICK i \in DOMAIN old : old[i].key = q
        BY <2>1, <3>2 DEF ContainsMap, Chain
      <4>2. i # p
        BY <1>2, <3>2, <4>1
      <4>3. PICK j \in DOMAIN cut : cut[j] = old[i]
        BY <1>9, <4>2
      <4> QED
        BY <1>6, <2>1, <4>1, <4>3 DEF ContainsMap, Chain
    <3> QED
      BY <3>1, <3>2
  <2>2. CASE hash[q] # h
    BY <1>6, <2>2 DEF ContainsMap, Chain
  <2> QED
    BY <2>1, <2>2
<1>11. KeysOf(new) = KeysOf(map) \ {k} /\ k \in KeysOf(map)
  BY <1>10 DEF KeysOf
<1>12. /\ IsFiniteSet(KeysOf(new))
       /\ Cardinality(KeysOf(new)) = Cardinality(KeysOf(map)) - 1
  BY <1>11, FS_RemoveElement DEF WellBuilt
<1>13. Cardinality(KeysOf(new)) \in Nat
  BY <1>12, FS_CardinalityType
<1>14. new \in Map
  <2>1. new = [size |-> map.size - 1, content |-> [map.content EXCEPT ![h] = cut]]
    BY DEF RemoveFromMap
  <2>2. map.size - 1 \in Nat
    BY <1>12, <1>13 DEF WellBuilt
  <2>3. [map.content EXCEPT ![h] = cut] \in [Bucket -> Seq(Node)]
    BY <1>2, <1>5 DEF Map
  <2> QED
    BY <2>1, <2>2, <2>3 DEF Map
<1>15. WellBuilt(new)
  <2>1. \A b \in Bucket : \A i \in DOMAIN new.content[b] :
          hash[new.content[b][i].key] = b
    BY <1>2, <1>6, <1>7 DEF WellBuilt
  <2>2. ASSUME NEW b \in Bucket, NEW i \in DOMAIN new.content[b],
               NEW j \in DOMAIN new.content[b],
               new.content[b][i].key = new.content[b][j].key
        PROVE  i = j
    <3>1. CASE b # h
      BY <1>6, <2>2, <3>1 DEF WellBuilt
    <3>2. CASE b = h
      <4>1. old[Was(i)].key = old[Was(j)].key
        BY <1>6, <1>7, <2>2, <3>2
      <4>2. Was(i) = Was(j)
        BY <1>2, <1>6, <1>7, <3>2, <4>1 DEF WellBuilt
      <4> QED
        BY <1>6, <1>8, <3>2, <4>2
    <3> QED
      BY <3>1, <3>2
  <2> QED
    BY <1>4, <1>12, <1>14, <2>1, <2>2 DEF WellBuilt
<1>16. ASSUME NEW q \in Key, q # k, ContainsMap(map, q)
       PROVE  GetMap(new, q) = GetMap(map, q)
  <2> DEFINE i == Position(map, q)
  <2>1. Stands(map, q, i) /\ GetMap(map, q) = map.content[hash[q]][i].value
    BY <1>16, PositionStands DEF GetMap, Chain
  <2>2. PICK j \in DOMAIN new.content[hash[q]] :
          new.content[hash[q]][j] = map.content[hash[q]][i]
    <3>1. CASE hash[q] = h
      <4>1. i \in DOMAIN old /\ i # p
        BY <1>2, <1>16, <2>1, <3>1 DEF Stands, Chain
      <4> QED
        BY <1>6, <1>9, <3>1, <4>1
    <3>2. CASE hash[q] # h
      BY <1>6, <2>1, <3>2 DEF Stands, Chain
    <3> QED
      BY <3>1, <3>2
  <2>3. Stands(new, q, j)
    BY <2>1, <2>2 DEF Stands, Chain
  <2> QED
    BY <1>15, <2>1, <2>2, <2>3, GetIs DEF Chain
<1> QED
  BY <1>10, <1>15, <1>16

\* remove_map keeps a table well built, and is the restriction the other
\* modules have for it.
THEOREM RemoveIsRestriction ==
  ASSUME NEW map, WellBuilt(map), NEW k \in Key
  PROVE  /\ WellBuilt(RemoveFromMap(map, k))
         /\ AsFunction(RemoveFromMap(map, k)) = RemoveKeys(AsFunction(map), {k})
<1> DEFINE new == RemoveFromMap(map, k)
<1>1. CASE ContainsMap(map, k)
  <2>1. WellBuilt(new)
    BY <1>1, RemoveKnown
  <2>2. KeysOf(new) = KeysOf(map) \ {k}
    BY <1>1, RemoveKnown DEF KeysOf
  <2>3. \A q \in KeysOf(new) : GetMap(new, q) = GetMap(map, q)
    BY <1>1, RemoveKnown DEF KeysOf
  <2>4. AsFunction(new) = [q \in KeysOf(map) \ {k} |-> AsFunction(map)[q]]
    BY <2>2, <2>3 DEF AsFunction
  <2>5. DOMAIN AsFunction(map) = KeysOf(map)
    BY DEF AsFunction
  <2> QED
    BY <2>1, <2>4, <2>5 DEF RemoveKeys
<1>2. CASE ~ContainsMap(map, k)
  <2>1. new = map
    BY <1>2 DEF RemoveFromMap
  <2>2. KeysOf(map) \ {k} = KeysOf(map) /\ DOMAIN AsFunction(map) = KeysOf(map)
    BY <1>2 DEF KeysOf, AsFunction
  <2>3. RemoveKeys(AsFunction(map), {k}) = [q \in KeysOf(map) |-> AsFunction(map)[q]]
    BY <2>2 DEF RemoveKeys
  <2> QED
    BY <2>1, <2>3 DEF AsFunction
<1> QED
  BY <1>1, <1>2

-----------------------------------------------------------------------------
(* map_to_list *)

\* The function MapToList is defined by, on the first n chains.
IsList(g, map, n) ==
  g = [i \in 0..n |-> IF i = 0 THEN <<>> ELSE g[i - 1] \o map.content[i - 1]]

LEMMA ListExists ==
  ASSUME NEW map, NEW m \in Nat
  PROVE  \E g : IsList(g, map, m)
<1> DEFINE S == {n \in Nat : \E g : IsList(g, map, n)}
<1>1. 0 \in S
  <2> DEFINE g == [i \in 0..0 |-> <<>>]
  <2>1. \A i \in 0..0 : i = 0
    OBVIOUS
  <2>2. IsList(g, map, 0)
    BY <2>1 DEF IsList
  <2> QED BY <2>2
<1>2. ASSUME NEW n \in 0..(m - 1), n \in S PROVE n + 1 \in S
  <2>1. PICK g : IsList(g, map, n)
    BY <1>2
  <2> DEFINE h == [i \in 0..(n + 1) |->
                     IF i = n + 1 THEN g[n] \o map.content[n] ELSE g[i]]
  <2>2. ASSUME NEW i \in 0..(n + 1)
        PROVE  h[i] = IF i = 0 THEN <<>> ELSE h[i - 1] \o map.content[i - 1]
    <3>1. CASE i = n + 1
      <4>1. i # 0 /\ i - 1 = n /\ n \in 0..(n + 1) /\ n # n + 1
        BY <3>1
      <4> QED BY <3>1, <4>1
    <3>2. CASE i # n + 1
      <4>1. i \in 0..n
        BY <3>2
      <4>2. h[i] = g[i]
        BY <3>2
      <4>3. g[i] = IF i = 0 THEN <<>> ELSE g[i - 1] \o map.content[i - 1]
        BY <2>1, <4>1, Zenon DEF IsList
      <4>4. i # 0 => h[i - 1] = g[i - 1]
        BY <4>1
      <4> QED BY <4>2, <4>3, <4>4
    <3> QED BY <3>1, <3>2
  <2>3. IsList(h, map, n + 1)
    BY <2>2, Zenon DEF IsList
  <2> QED BY <2>3
<1> HIDE DEF S
<1>3. m \in S
  BY <1>1, <1>2, NatSetInduction
<1> QED BY <1>3 DEF S

\* list has the nodes of the first n chains, each key once.
Lists(list, map, n) ==
  /\ list \in Seq(Node)
  /\ \A i \in DOMAIN list : hash[list[i].key] \in 0..(n - 1)
  /\ \A i \in DOMAIN list :
       \E p \in DOMAIN map.content[hash[list[i].key]] :
         map.content[hash[list[i].key]][p] = list[i]
  /\ \A b \in 0..(n - 1) : \A p \in DOMAIN map.content[b] :
       \E i \in DOMAIN list : list[i] = map.content[b][p]
  /\ \A i, j \in DOMAIN list : list[i].key = list[j].key => i = j

LEMMA ListsOneMore ==
  ASSUME NEW map, WellBuilt(map), NEW n \in Bucket, NEW list, Lists(list, map, n)
  PROVE  Lists(list \o map.content[n], map, n + 1)
<1> USE HashmapAssumption
<1> DEFINE chain == map.content[n]
           longer == list \o chain
<1>1. n \in Nat /\ chain \in Seq(Node) /\ list \in Seq(Node)
  BY DEF WellBuilt, Map, Lists, Bucket
<1>2. /\ \A i \in DOMAIN chain : hash[chain[i].key] = n
      /\ \A i, j \in DOMAIN chain : chain[i].key = chain[j].key => i = j
  BY DEF WellBuilt
<1> HIDE DEF chain
<1>3. longer \in Seq(Node)
  BY <1>1
<1>4. /\ \A i \in DOMAIN list : i \in DOMAIN longer /\ longer[i] = list[i]
      /\ \A i \in DOMAIN chain : /\ Len(list) + i \in DOMAIN longer
                                 /\ longer[Len(list) + i] = chain[i]
      /\ \A i \in DOMAIN longer :
           \/ i \in DOMAIN list
           \/ i - Len(list) \in DOMAIN chain /\ i = Len(list) + (i - Len(list))
  BY <1>1
<1> HIDE DEF longer
<1>5. ASSUME NEW i \in DOMAIN longer
      PROVE  \/ i \in DOMAIN list /\ longer[i] = list[i]
             \/ /\ i - Len(list) \in DOMAIN chain
                /\ longer[i] = chain[i - Len(list)]
                /\ i = Len(list) + (i - Len(list))
  BY <1>4
<1>6. \A i \in DOMAIN list : hash[list[i].key] \in 0..(n - 1)
  BY DEF Lists
<1>7. ASSUME NEW i \in DOMAIN longer
      PROVE  /\ hash[longer[i].key] \in 0..((n + 1) - 1)
             /\ \E p \in DOMAIN map.content[hash[longer[i].key]] :
                  map.content[hash[longer[i].key]][p] = longer[i]
  <2>1. CASE i \in DOMAIN list /\ longer[i] = list[i]
    BY <1>1, <1>6, <2>1 DEF Lists
  <2>2. CASE i - Len(list) \in DOMAIN chain /\ longer[i] = chain[i - Len(list)]
    <3>1. hash[longer[i].key] = n
      BY <1>2, <2>2
    <3> QED BY <1>1, <2>2, <3>1 DEF chain
  <2> QED BY <1>5, <2>1, <2>2
<1>8. ASSUME NEW b \in 0..((n + 1) - 1), NEW p \in DOMAIN map.content[b]
      PROVE  \E i \in DOMAIN longer : longer[i] = map.content[b][p]
  <2>1. CASE b = n
    BY <1>4, <2>1 DEF chain
  <2>2. CASE b # n
    <3>1. b \in 0..(n - 1)
      BY <1>1, <2>2
    <3>2. PICK i \in DOMAIN list : list[i] = map.content[b][p]
      BY <3>1 DEF Lists
    <3> QED BY <1>4, <3>2
  <2> QED BY <2>1, <2>2
<1>9. ASSUME NEW i \in DOMAIN longer, NEW j \in DOMAIN longer,
             longer[i].key = longer[j].key
      PROVE  i = j
  <2>1. n \notin 0..(n - 1)
    BY <1>1
  <2>2. CASE i \in DOMAIN list /\ longer[i] = list[i]
    <3>1. hash[longer[j].key] # n
      BY <1>6, <1>9, <2>1, <2>2
    <3>2. j \in DOMAIN list /\ longer[j] = list[j]
      BY <1>2, <1>5, <3>1
    <3> QED BY <1>9, <2>2, <3>2 DEF Lists
  <2>3. CASE /\ i - Len(list) \in DOMAIN chain /\ longer[i] = chain[i - Len(list)]
             /\ i = Len(list) + (i - Len(list))
    <3>1. hash[longer[j].key] = n
      BY <1>2, <1>9, <2>3
    <3>2. /\ j - Len(list) \in DOMAIN chain /\ longer[j] = chain[j - Len(list)]
          /\ j = Len(list) + (j - Len(list))
      BY <1>5, <1>6, <2>1, <3>1
    <3>3. i - Len(list) = j - Len(list)
      BY <1>2, <1>9, <2>3, <3>2
    <3> QED BY <2>3, <3>2, <3>3
  <2> QED BY <1>5, <2>2, <2>3
<1>10. Lists(longer, map, n + 1)
  BY <1>3, <1>7, <1>8, <1>9 DEF Lists
<1> QED BY <1>10 DEF longer, chain

LEMMA MapToListIs ==
  ASSUME NEW map, WellBuilt(map)
  PROVE  Lists(MapToList(map), map, HASHMAP_SIZE)
<1> DEFINE m == HASHMAP_SIZE
           g == CHOOSE g : IsList(g, map, m)
           S == {n \in 0..m : Lists(g[n], map, n)}
<1>1. m \in Nat \ {0}
  BY HashmapAssumption
<1>2. IsList(g, map, m)
  BY <1>1, ListExists
<1>3. MapToList(map) = g[m]
  BY Zenon DEF MapToList, IsList
<1> HIDE DEF g
<1>4. /\ 0 \in 0..m /\ g[0] = <<>>
      /\ \A n \in 0..(m - 1) : g[n + 1] = g[n] \o map.content[n]
  <2>1. 0 \in 0..m
    BY <1>1
  <2>2. g[0] = <<>>
    BY <1>2, <2>1, Zenon DEF IsList
  <2>3. ASSUME NEW n \in 0..(m - 1) PROVE g[n + 1] = g[n] \o map.content[n]
    <3>1. n + 1 \in 0..m /\ n + 1 # 0 /\ (n + 1) - 1 = n
      BY <1>1
    <3>2. g[n + 1] = g[(n + 1) - 1] \o map.content[(n + 1) - 1]
      BY <1>2, <3>1, Zenon DEF IsList
    <3> QED BY <3>1, <3>2
  <2> QED BY <2>1, <2>2, <2>3
<1>5. 0 \in S
  <2>1. 0..(0 - 1) = {}
    OBVIOUS
  <2>2. Lists(<<>>, map, 0)
    BY <2>1 DEF Lists
  <2> QED BY <1>4, <2>2
<1>6. ASSUME NEW n \in 0..(m - 1), n \in S PROVE n + 1 \in S
  <2>1. n \in Bucket /\ n + 1 \in 0..m
    BY <1>1 DEF Bucket
  <2>2. Lists(g[n], map, n)
    BY <1>6
  <2> QED BY <1>4, <2>1, <2>2, ListsOneMore
<1> HIDE DEF S
<1>7. m \in S
  BY <1>1, <1>5, <1>6, NatSetInduction
<1> QED BY <1>3, <1>7 DEF S

\* map_to_list copies every node of a table, each key once with its value, and
\* nothing else: the loops over g_neighbours and g_floods miss nobody.
THEOREM MapToListIsComplete ==
  ASSUME NEW map, WellBuilt(map)
  PROVE  LET list == MapToList(map)
         IN  /\ list \in Seq(Node) /\ Len(list) = map.size
             /\ {list[i].key : i \in DOMAIN list} = KeysOf(map)
             /\ \A i \in DOMAIN list : list[i].value = GetMap(map, list[i].key)
             /\ \A i, j \in DOMAIN list : list[i].key = list[j].key => i = j
<1> USE HashmapAssumption
<1> DEFINE list == MapToList(map)
<1>1. Lists(list, map, HASHMAP_SIZE)
  BY MapToListIs
<1> HIDE DEF list
<1>2. list \in Seq(Node) /\ \A i \in DOMAIN list : list[i].key \in Key
  <2>1. list \in Seq(Node)
    BY <1>1 DEF Lists
  <2>2. \A i \in DOMAIN list : list[i] \in Node
    BY <2>1, ElementOfSeq
  <2> QED BY <2>1, <2>2 DEF Node
<1>3. ASSUME NEW i \in DOMAIN list
      PROVE  /\ list[i].key \in KeysOf(map)
             /\ list[i].value = GetMap(map, list[i].key)
  <2> DEFINE k == list[i].key
  <2>1. PICK p \in DOMAIN map.content[hash[k]] : map.content[hash[k]][p] = list[i]
    BY <1>1 DEF Lists
  <2>2. Stands(map, k, p) /\ k \in Key
    BY <1>2, <2>1 DEF Stands, Chain
  <2>3. GetMap(map, k) = Chain(map, k)[p].value
    BY <2>2, GetIs
  <2>4. k \in KeysOf(map)
    BY <2>2 DEF Stands, KeysOf, ContainsMap
  <2> QED BY <2>1, <2>3, <2>4 DEF Chain
<1>4. ASSUME NEW k \in KeysOf(map) PROVE \E i \in DOMAIN list : list[i].key = k
  <2>1. k \in Key /\ hash[k] \in 0..(HASHMAP_SIZE - 1)
    BY DEF KeysOf, Bucket
  <2>2. PICK p \in DOMAIN map.content[hash[k]] : map.content[hash[k]][p].key = k
    BY DEF KeysOf, ContainsMap, Chain
  <2> QED BY <1>1, <2>1, <2>2 DEF Lists
<1>5. \A i, j \in DOMAIN list : list[i].key = list[j].key => i = j
  BY <1>1 DEF Lists
<1>6. {list[i].key : i \in DOMAIN list} = KeysOf(map)
  BY <1>3, <1>4
<1>7. Len(list) = map.size
  <2> DEFINE f == [i \in DOMAIN list |-> list[i].key]
  <2>1. DOMAIN list = 1..Len(list) /\ Len(list) \in Nat
    BY <1>2
  <2>2. f \in Bijection(DOMAIN list, KeysOf(map))
    BY <1>3, <1>4, <1>5 DEF Bijection, Injection, Surjection, IsInjective
  <2>3. ExistsBijection(1..Len(list), KeysOf(map))
    BY <2>1, <2>2 DEF ExistsBijection
  <2>4. Cardinality(KeysOf(map)) = Len(list)
    BY <2>1, <2>3, FS_CountingElements
  <2> QED BY <2>4 DEF WellBuilt
<1> QED BY <1>2, <1>3, <1>5, <1>6, <1>7 DEF list

=============================================================================
