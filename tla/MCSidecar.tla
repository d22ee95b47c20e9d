----------------------------- MODULE MCSidecar -----------------------------
(* Model-checking instance of the desktop application.                     *)
EXTENDS Sidecar
=============================================================================
