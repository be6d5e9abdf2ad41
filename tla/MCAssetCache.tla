--------------------------- MODULE MCAssetCache ---------------------------
(* Readers, updates and deletes of one asset, with every fault. *)
EXTENDS AssetCache
=============================================================================
