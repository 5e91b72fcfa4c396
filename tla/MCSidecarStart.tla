--------------------------- MODULE MCSidecarStart ---------------------------
(* SidecarStart with two sidecars and two clients that find none: each     *)
(* spawns one, and the two start at once.                                  *)
EXTENDS SidecarStart
=============================================================================
