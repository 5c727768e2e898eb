----------------------------- MODULE MCOperands -----------------------------
(* Programs for the runs of Operands. *)
EXTENDS Operands

\* Integer and FP results under interrupts; integer results under interrupts and
\* illegal instructions.
PreciseMixes ==
    {[classes |-> {"int", "fp"}, traps |-> {"interrupt"}],
     [classes |-> {"int"}, traps |-> {"interrupt", "illegal"}]}

\* FP results and illegal instructions together.
FpAndIllegal == {[classes |-> {"int", "fp"}, traps |-> {"interrupt", "illegal"}]}
=============================================================================
