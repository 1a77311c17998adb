---------------------------- MODULE MCRndTracker ----------------------------
(* RndTracker for TLC; the constants are given by the configuration.       *)
EXTENDS RndTracker
=============================================================================
