---------------------------- MODULE MCReplayGuard ----------------------------
(* Instances of ReplayGuard for TLC. *)
EXTENDS ReplayGuard

\* 0 is the timestamp no fresh guard accepts; 1 and 2 let one call overtake
\* another and let a failed advance be followed by a smaller successful one.
MCTimestamps == 0..2
================================================================================
