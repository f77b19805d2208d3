--------------------------- MODULE MCGroupEstimator ---------------------------
(* GroupEstimator for TLC.  Keys are hashes: 0 and 2 fall into bucket 0 of two *)
(* buckets, 1 and 3 into bucket 1.                                           *)
EXTENDS GroupWindow

\* Any series may arrive in any group.
AllArrivals == Key \X FP
=============================================================================
