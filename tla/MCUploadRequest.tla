--------------------------- MODULE MCUploadRequest ---------------------------
(* One request to each endpoint, both to the local backend, which may refuse. *)
EXTENDS UploadRequest
=============================================================================
