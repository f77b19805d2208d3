---------------------------- MODULE MCTimedIngest ----------------------------
(* TimedIngest for TLC.  One series, in bucket 1 of 2: series do not interact. *)
EXTENDS TimedIngest
=============================================================================
