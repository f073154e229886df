----------------------------- MODULE LayerTags -----------------------------
(***************************************************************************)
(* Layer tags (common/layer_tag_{manager,collection,mask}.{hpp,cpp}).      *)
(*                                                                         *)
(* A LayerTagCollection is a bitset indexed by interned tag names; here it *)
(* is a set of tags.  Tags whose name begins with "!" (language tags) are  *)
(* plane tags: two edges with the same annotation are the same edge only   *)
(* when they lie in the same plane.  A LayerTagMask is an alternative of   *)
(* conjunctions; here it is the set of its conjunctions.  The mask "any"   *)
(* never reaches the lattice's indices (every query tests isAny() first),  *)
(* so it is not a member of Mask.                                          *)
(***************************************************************************)
CONSTANTS
    Tag,        \* the tag names in use (at most 64 of them in the code)
    PlaneTag,   \* those that begin with "!"
    Symbol,     \* Lattice::SYMBOL_TAG_NAME
    Discarded   \* Lattice::DISCARDED_TAG_NAME

ASSUME TagAssumption ==
    /\ PlaneTag \subseteq Tag
    /\ Symbol \in Tag \ PlaneTag
    /\ Discarded \in Tag \ PlaneTag
    /\ Symbol # Discarded

Collection == SUBSET Tag

Mask == SUBSET Collection

SingletonMask(tag) == {{tag}}

symbolMask == SingletonMask(Symbol)

onlyPlaneTags(tags) == tags \cap PlaneTag

areInTheSamePlane(tags1, tags2) == onlyPlaneTags(tags1) = onlyPlaneTags(tags2)

matches(tags, mask) == \E alt \in mask : alt \subseteq tags
=============================================================================
