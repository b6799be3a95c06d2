------------------------------ MODULE BoundedSeen ------------------------------
(***************************************************************************)
(* _BoundedSeen: what a watch loop remembers of the bags it has handled,   *)
(* oldest first, at most SeenLimit of them (_shared/bounded_seen.py).      *)
(***************************************************************************)
EXTENDS Naturals, Sequences

CONSTANT SeenLimit   \* maxlen

ASSUME SeenAssumption == SeenLimit \in Nat

NothingSeen == <<>>

Remembers(seen, bag) == \E i \in DOMAIN seen : seen[i] = bag

\* The list without its member x, if it has one; members do not repeat.
Without(list, x) ==
  IF \E i \in DOMAIN list : list[i] = x
  THEN LET k == CHOOSE i \in DOMAIN list : list[i] = x
       IN  SubSeq(list, 1, k - 1) \o SubSeq(list, k + 1, Len(list))
  ELSE list

\* Mutant: nothing is evicted.
RememberAll(seen, bag) == Append(Without(seen, bag), bag)

\* A member is moved to the end; the oldest entries are evicted.
Remember(seen, bag) ==
  LET moved == Append(Without(seen, bag), bag)
  IN  IF Len(moved) > SeenLimit
      THEN SubSeq(moved, Len(moved) - SeenLimit + 1, Len(moved))
      ELSE moved
=============================================================================
