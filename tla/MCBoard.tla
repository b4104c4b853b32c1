-------------------------------- MODULE MCBoard --------------------------------
(***************************************************************************)
(* Video memory of 8, 16, 64, 512 and 768 MiB: less than the peripherals   *)
(* take, as much, the default, all the RAM of the smaller boards, more.    *)
(* Programs begin where the Pi 5's loader expects them, elsewhere, at 0.   *)
(***************************************************************************)
EXTENDS Board

MCVcram == {\h8000, \h10000, \h40000, \h200000, \h300000}
MCEntries == {0, \h800, \h900}
=============================================================================
