--------------------------- MODULE MCClipboardSync ---------------------------
(* Two copies, on either side and in either order; bounds come from the cfg. *)
EXTENDS ClipboardSync
=============================================================================
