--------------------------- MODULE MCAssetServing ---------------------------
(* An upload to either backend with readers of both.                       *)
EXTENDS AssetServing
=============================================================================
