-------------------------- MODULE MCDesktopBackend --------------------------
(* Three process slots: a worker, its replacement and one that is dying.   *)
EXTENDS DesktopBackend
=============================================================================
