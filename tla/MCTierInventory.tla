--------------------------- MODULE MCTierInventory ---------------------------
(* One unit of every limited pool, so that each can be contended and exhausted; *)
(* clip and openClip stand for the pools without a quantity.                    *)
EXTENDS TierInventory, TLC

MCQuantity == [p \in Pool |-> IF p \in {"standard", "clip", "openClip"} THEN 0 ELSE 1]
MCVerticals == {"codeperks", "codepod", "codeclip"}
MCSymmetry == Permutations(Request) \cup Permutations(Scan) \cup Permutations(Phone)
==============================================================================
