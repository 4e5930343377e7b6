------------------------------- MODULE Layout -------------------------------
(***************************************************************************)
(* Where the stars of the learning map are drawn.  A place is a number:    *)
(* what matters of the coordinates is that two stars are never too close   *)
(* and that a star stays where it is.                                      *)
(***************************************************************************)
EXTENDS Naturals, FiniteSets, FiniteSetsExt, Functions

CONSTANTS Concepts,     \* numbered in the order of their ids
          Home          \* the angle a concept's id hashes to: where its search begins

ASSUME LayoutAssumption ==
  Concepts \subseteq Nat /\ IsFiniteSet(Concepts) /\ Home \in [Concepts -> Nat \ {0}]

Put(f, k, v) == [x \in DOMAIN f \union {k} |-> IF x = k THEN v ELSE f[x]]

(* The first star is in the middle, the next ones at the first free place. *)
FreePlace(c, places) ==
  IF places = << >> THEN 0
  ELSE Min((Home[c]..(Home[c] + Cardinality(DOMAIN places))) \ Range(places))

(* New stars are placed one by one in the order of their ids: each finds   *)
(* its place among the kept stars and the new ones before it.              *)
Placed(new, kept) ==
  LET places[S \in SUBSET new] ==
        IF S = {} THEN kept
        ELSE LET last == Max(S)
                 before == places[S \ {last}]
             IN  Put(before, last, FreePlace(last, before))
  IN  places[new]

(* Mutant of BuildLayout: the existing layout is not read. *)
BuildLayoutAnew(stars, existing) == Placed(stars, << >>)

(* Stars of the existing layout stay, places of concepts that are gone are *)
(* dropped, and the other stars are placed.                                *)
BuildLayout(stars, existing) ==
  LET kept == Restrict(existing, stars \intersect DOMAIN existing) IN
  Placed(stars \ DOMAIN kept, kept)

=============================================================================
