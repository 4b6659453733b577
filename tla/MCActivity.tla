----------------------------- MODULE MCActivity -----------------------------
(***************************************************************************)
(* Activities checked by TLC: two rows of one type, each closed, permanent *)
(* or open from the first instant to the second.                           *)
(***************************************************************************)
EXTENDS ActivityManager

MCConf == {[time |-> "close", start |-> 0, end |-> 0],
           [time |-> "always", start |-> 0, end |-> 0],
           [time |-> "timed", start |-> 0, end |-> 1]}
=============================================================================
