------------------------------ MODULE MCVoisin ------------------------------
(***************************************************************************)
(* Instance of Voisinage for TLC.  Two addresses are enough for every rule *)
(* of the tables, which never relate more than two; Recent = 0 leaves the  *)
(* ages "still valid" and "timed out".                                     *)
(*                                                                         *)
(* And an instance of Hashmap, three keys of which two collide, to check   *)
(* that its chains are the functions Voisin has for tables.                *)
(***************************************************************************)
EXTENDS Voisinage, Hashmap, SequencesExt, TLC

CONSTANTS p1, p2, me, a

MCPeers == {p1, p2}
MCIds   == {me, a}

\* The machine has just started, or has been up for more than two minutes.
MCBoot == {0, Recent + 1}

-----------------------------------------------------------------------------
MCKeys   == {"k1", "k2", "k3"}
MCValues == {"v1", "v2"}
MCHash   == [k \in MCKeys |-> IF k = "k3" THEN 1 ELSE 0]

MCGrown(maps) ==
  maps \cup {InsertInMap(m, k, v) : m \in maps, k \in Key, v \in Value}
       \cup {RemoveFromMap(m, k) : m \in maps, k \in Key}

\* Every table five calls can build.
MCTables == MCGrown(MCGrown(MCGrown(MCGrown(MCGrown({InitMap})))))

\* Each call on a table is InsertMap or RemoveKeys on the function, and the
\* list map_to_list returns has every key once with its value.
ASSUME ChainsAreFunctions ==
  \A map \in MCTables :
    /\ WellBuilt(map)
    /\ \A k \in Key :
         /\ AsFunction(RemoveFromMap(map, k)) = RemoveKeys(AsFunction(map), {k})
         /\ \A v \in Value :
              AsFunction(InsertInMap(map, k, v)) = InsertMap(AsFunction(map), k, v)
    /\ LET list == MapToList(map)
       IN  /\ ToSet(list) = {[key |-> k, value |-> GetMap(map, k)] :
                               k \in KeysOf(map)}
           /\ Len(list) = map.size

=============================================================================
