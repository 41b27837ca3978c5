---------------------------- MODULE MCCurlRequest ----------------------------
(* One request by itself for TLC; the bounds are given in the .cfg files.     *)
EXTENDS CurlRequest
==============================================================================
