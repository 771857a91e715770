----------------------------- MODULE MCUiBundles -----------------------------
(* Two published bundles, one of them broken, and an app version that      *)
(* ships a newer interface than the first of them.                         *)
EXTENDS UiBundles
=============================================================================
