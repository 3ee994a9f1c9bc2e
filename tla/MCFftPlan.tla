----------------------------- MODULE MCFftPlan -----------------------------
(* Two transforms, so four workers, with any two of: two requests that set   *)
(* a time limit of their own, one that leaves the limit alone, one that      *)
(* accepts existing plans only; two of them are for the same shape.          *)
EXTENDS FftPlan

MCRequest(shape, wisdom_only, seconds, rotate_in, rotate_out) ==
  [shape |-> shape, wisdom_only |-> wisdom_only, seconds |-> seconds,
   rotate_in |-> rotate_in, rotate_out |-> rotate_out]

MCRequests ==
  {MCRequest("cf", FALSE, 1, TRUE, TRUE),
   MCRequest("weight", FALSE, 2, FALSE, TRUE),
   MCRequest("cf", FALSE, -1, TRUE, FALSE),
   MCRequest("weight", TRUE, -1, FALSE, FALSE)}
=============================================================================
