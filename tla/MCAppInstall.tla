--------------------------- MODULE MCAppInstall ------------------------------
(* Four images: an old one, a newer one, a newer one that hangs, and a     *)
(* newer one encrypted with a key the board does not have.                 *)
EXTENDS AppInstall

CONSTANTS old, new, hung, alien

MCImages == {old, new, hung, alien}
MCVer == [i \in MCImages |-> IF i = old THEN 1 ELSE 2]
MCSize == [i \in MCImages |-> IF i \in {old, hung} THEN NPages ELSE 1]
MCEncrypted == {new, alien}
MCGoodKey == {new}
MCHealthy == {old, new}
=============================================================================
