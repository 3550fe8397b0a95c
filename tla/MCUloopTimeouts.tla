---------------------------- MODULE MCUloopTimeouts ----------------------------
(* UloopTimeouts for TLC.                                                  *)
EXTENDS UloopTimeouts

CONSTANTS a, b, c
=============================================================================
