------------------------------ MODULE TwoStage ------------------------------
(***************************************************************************)
(* CPURV64P2: IF_stage latches a word and moves the pc behind it, EX_stage *)
(* executes the latched word one step later with the functions the         *)
(* non-pipelined core uses, which so find the pc advanced.  A flush only   *)
(* delays the next fetch; EX_stage has set the pc before IF_stage runs.    *)
(***************************************************************************)
EXTENDS SimpleCore

IF_stage_long(h, w) == incPC(h)

\* The two lowest bits tell the size.
IF_stage(h, w) == IF range(w, 1, 0) = 3 THEN incPC(h) ELSE incPCby2(h)

EX_stage(h, w) == Executed(h, w, Operation(w))

\* A word from its fetch to the end of its execution.
two_step(h, w) == EX_stage(IF_stage(h, w), w)
==============================================================================
