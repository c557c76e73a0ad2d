------------------------------ MODULE MCHostKey ------------------------------
(***************************************************************************)
(* HostKey for TLC.                                                        *)
(***************************************************************************)
EXTENDS HostKey

CONSTANTS k1, k2, k3

AllFiles == {k1, "absent", "torn"}
=============================================================================
