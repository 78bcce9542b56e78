------------------------------- MODULE StdMap --------------------------------
(***************************************************************************)
(* The operations of std::map the C++ components keep their tables with. A  *)
(* map is a function whose domain is the set of its keys.                   *)
(***************************************************************************)

\* A map without entries.
EmptyMap == [k \in {} |-> 0]

\* m.insert(std::pair(k, v)): an entry that exists is left as it is.
MapInsert(m, k, v) ==
  [x \in DOMAIN m \cup {k} |-> IF x \in DOMAIN m THEN m[x] ELSE v]

\* m[k] = v: an entry that exists is overwritten.
MapAssign(m, k, v) ==
  [x \in DOMAIN m \cup {k} |-> IF x = k THEN v ELSE m[x]]

\* m.erase(k): nothing happens when there is no such key.
MapErase(m, k) == [x \in DOMAIN m \ {k} |-> m[x]]

==============================================================================
