----------------------------- MODULE SimpleCore -----------------------------
(***************************************************************************)
(* CPURV64Simple: one instruction per CPU_step.  The decoders are tried in *)
(* the order base, C, M, A; the first that knows the word executes it.     *)
(***************************************************************************)
EXTENDS CompressedIsa, MulDiv, Atomics

\* The extension that executes a word, and its name for the operation.
FirstKnown(base, c, m, a) ==
  CASE base # "ERROR" -> <<"base", base>>
    [] base = "ERROR" /\ c # "ERROR" -> <<"C", c>>
    [] base = "ERROR" /\ c = "ERROR" /\ m # "ERROR" -> <<"M", m>>
    [] base = "ERROR" /\ c = "ERROR" /\ m = "ERROR" /\ a # "ERROR" -> <<"A", a>>
    [] OTHER -> <<"none", "ERROR">>

Operation(w) == FirstKnown(decode(w), c_decode(w), m_decode(w), a_decode(w))

Executed(h, w, op) ==
  CASE op[1] = "base" -> exec_instruction(h, w, op[2])
    [] op[1] = "C" -> c_exec_instruction(h, w, op[2])
    [] op[1] = "M" -> m_exec_instruction(h, w, op[2])
    [] op[1] = "A" -> a_exec_instruction(h, w, op[2])
    [] OTHER -> NOP(h)

\* pc moves on unless the operation has set it.
Advanced(h, w, op) ==
  CASE op[1] = "base" /\ op[2] \in ChangesPC -> h
    [] op[1] = "C" -> IF c_pc_final(w, op[2]) THEN h ELSE incPCby2(h)
    [] OTHER -> incPC(h)

CPU_step(h, w) == Advanced(Executed(h, w, Operation(w)), w, Operation(w))
==============================================================================
