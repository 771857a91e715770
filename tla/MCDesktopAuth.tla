--------------------------- MODULE MCDesktopAuth ---------------------------
(* Two sign-ins, one rotation each: every request of the first can be      *)
(* answered when the second has replaced it.                               *)
EXTENDS DesktopAuth
=============================================================================
