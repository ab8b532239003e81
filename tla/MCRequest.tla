----------------------------- MODULE MCRequest -----------------------------
(***************************************************************************)
(* Requests made of two numbers: each is in range for one parameter and    *)
(* out of it for another.                                                  *)
(***************************************************************************)
EXTENDS SimRequest

\* -1 is in the range of no parameter; 4 is in that of a wavelength and of a
\* sample, and 20 - 4 in that of a collimation
MCValue == {-1, 4}
=============================================================================
