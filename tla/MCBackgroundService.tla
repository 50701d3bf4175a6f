------------------------- MODULE MCBackgroundService -------------------------
(* A finite instance of BackgroundService for TLC. *)
EXTENDS BackgroundService, TLC

CONSTANTS s1, s2, p1, job1, q1, g1

MCAmount == p1 :> 1

\* Where there is work, one process that loses its lock or crashes once; the
\* competition for the lock is checked on its own.
OneProcessWorks == part # "none" => running \subseteq {s1} /\ holder # s2 /\ losses <= 1
=============================================================================
