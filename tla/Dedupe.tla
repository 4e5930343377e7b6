------------------------------- MODULE Dedupe -------------------------------
(***************************************************************************)
(* Which of the items collected this morning are new.  An item is known by *)
(* several keys, its normalised title and its canonical id and URL, and    *)
(* two items that share any of them are taken for the same one.  Items are *)
(* numbered in the order of collection: arXiv first, then the feeds.       *)
(***************************************************************************)
EXTENDS Naturals, FiniteSets, FiniteSetsExt

CONSTANTS Items, KeysOf

ASSUME ItemsAssumption == Items \subseteq Nat /\ IsFiniteSet(Items) /\ DOMAIN KeysOf = Items

KeysOfAll(items) == UNION {KeysOf[i] : i \in items}

(* First come, first kept.  An item that is dropped leaves no keys behind: *)
(* one that shares a key with it only is kept.                             *)
Keep(kept, item) ==
  IF KeysOf[item] \intersect KeysOfAll(kept) = {} THEN kept \union {item} ELSE kept

Deduped(found) ==
  LET kept[S \in SUBSET found] ==
        IF S = {} THEN {} ELSE Keep(kept[S \ {Max(S)}], Max(S))
  IN  kept[found]

Unseen(items, seen) == {i \in items : KeysOf[i] \intersect seen = {}}

=============================================================================
