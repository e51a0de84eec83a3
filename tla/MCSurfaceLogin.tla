---------------------------- MODULE MCSurfaceLogin ----------------------------
(* An instance of SurfaceLogin for TLC. *)
EXTENDS SurfaceLogin

\* No group, each alone, and two in which the first of PRIMARY_ROLE_ORDER counts
MCMembership == {{}, {"admin"}, {"ops"}, {"customer"}, {"merchant"}, {"ops", "merchant"}}
================================================================================
