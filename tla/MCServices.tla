----------------------------- MODULE MCServices -----------------------------
(* Services for TLC: the watch looks after macula-mesh, which the roles     *)
(* need, and after a disk, of which it can only clean up.                   *)
EXTENDS Services

MCNames == {"macula-mesh", "disk"}
MCRestarted == {"macula-mesh"}
=============================================================================
