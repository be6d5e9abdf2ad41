--------------------------- MODULE MCAssetUpload ---------------------------
(* Two uploads and a deleter, on either backend.                           *)
EXTENDS AssetUpload
=============================================================================
