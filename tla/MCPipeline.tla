----------------------------- MODULE MCPipeline -----------------------------
(* Two uploads of one track: a master and one that cannot be decoded. *)
EXTENDS MediaPipeline

CONSTANTS u1, u2

MCUploads == {u1, u2}
MCContent == [u \in MCUploads |-> IF u = u1 THEN "audio" ELSE "undecodable"]
MCDigest == [u \in MCUploads |-> u]
=============================================================================
