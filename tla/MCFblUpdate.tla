---------------------------- MODULE MCFblUpdate -----------------------------
(* Three images: the factory FBL, a newer one that fills the region and a  *)
(* newer one with padding behind it.                                       *)
EXTENDS FblUpdate

CONSTANTS v1, v2, v2long, j, jsane

MCImages == {v1, v2, v2long}
MCVer == [i \in MCImages |-> IF i = v1 THEN 1 ELSE 2]
MCSize == [i \in MCImages |-> IF i = v2 THEN 1 ELSE NPages]
MCJunk == {j, jsane}
MCSaneJunk == {jsane}
=============================================================================
