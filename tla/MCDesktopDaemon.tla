--------------------------- MODULE MCDesktopDaemon ---------------------------
(* The daemon manager with process identities enough for a worker of the   *)
(* app and one of each app that is gone.                                   *)
EXTENDS DesktopDaemon
=============================================================================
