------------------------------ MODULE Hashmap -------------------------------
(***************************************************************************)
(* The hash table of Floodus (hashmap.c): an array of chains, as operators *)
(* from a table to the table after the call.  Voisin, Inondation and       *)
(* BigData use it as a function of its keys, which AsFunction is.          *)
(*                                                                         *)
(* Keys and values are copied in, and compared by content: they are plain  *)
(* values here.  A call whose malloc fails leaves the table alone and is   *)
(* left out.                                                               *)
(***************************************************************************)
EXTENDS Naturals, Sequences, FiniteSets

CONSTANTS
  Key,           (* contents of a key                                      *)
  Value,         (* contents of a value                                    *)
  HASHMAP_SIZE,  (* chains: 4096 in the code                               *)
  hash           (* key -> chain                                           *)

Bucket == 0..(HASHMAP_SIZE - 1)

ASSUME HashmapAssumption ==
  /\ HASHMAP_SIZE \in Nat \ {0}
  /\ hash \in [Key -> Bucket]

-----------------------------------------------------------------------------
Node == [key: Key, value: Value]
Map  == [size: Nat, content: [Bucket -> Seq(Node)]]

InitMap == [size |-> 0, content |-> [b \in Bucket |-> <<>>]]

Chain(map, k) == map.content[hash[k]]

\* Where the walk along the chain stops: the first node with the key.
Position(map, k) ==
  CHOOSE i \in DOMAIN Chain(map, k) :
    /\ Chain(map, k)[i].key = k
    /\ \A j \in 1..(i - 1) : Chain(map, k)[j].key # k

ContainsMap(map, k) == \E i \in DOMAIN Chain(map, k) : Chain(map, k)[i].key = k

\* What get_map finds, for a key that is there.
GetMap(map, k) == Chain(map, k)[Position(map, k)].value

\* A key that is there gets its value changed, another goes to the end of
\* its chain.
InsertInMap(map, k, v) ==
  LET node == [key |-> k, value |-> v]
  IN  IF ContainsMap(map, k)
        THEN [size |-> map.size,
              content |-> [map.content EXCEPT ![hash[k]] =
                             [@ EXCEPT ![Position(map, k)] = node]]]
        ELSE [size |-> map.size + 1,
              content |-> [map.content EXCEPT ![hash[k]] = Append(@, node)]]

Unlinked(chain, n) ==
  [i \in 1..(Len(chain) - 1) |-> IF i < n THEN chain[i] ELSE chain[i + 1]]

RemoveFromMap(map, k) ==
  IF ContainsMap(map, k)
    THEN [size |-> map.size - 1,
          content |-> [map.content EXCEPT ![hash[k]] =
                         Unlinked(@, Position(map, k))]]
    ELSE map

\* A copy of the chains, one after the other.
MapToList(map) ==
  LET upTo[n \in 0..HASHMAP_SIZE] ==
        IF n = 0 THEN <<>> ELSE upTo[n - 1] \o map.content[n - 1]
  IN  upTo[HASHMAP_SIZE]

-----------------------------------------------------------------------------
(* Correctness *)

KeysOf(map) == {k \in Key : ContainsMap(map, k)}

\* What the other modules take a table for.
AsFunction(map) == [k \in KeysOf(map) |-> GetMap(map, k)]

\* The invariant of a table: every node is in the chain its key hashes to,
\* no key is there twice, and size counts the keys.
WellBuilt(map) ==
  /\ map \in Map
  /\ \A b \in Bucket :
       /\ \A i \in DOMAIN map.content[b] : hash[map.content[b][i].key] = b
       /\ \A i, j \in DOMAIN map.content[b] :
            map.content[b][i].key = map.content[b][j].key => i = j
  /\ IsFiniteSet(KeysOf(map))
  /\ map.size = Cardinality(KeysOf(map))

=============================================================================
