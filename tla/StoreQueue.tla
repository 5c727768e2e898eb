----------------------------- MODULE StoreQueue -----------------------------
(***************************************************************************)
(* What the split store buffer promises the core: memory as one hart sees  *)
(* it.  Uncommitted stores wait in program order; a retired store is part  *)
(* of architectural memory at once, no matter when the hardware writes it  *)
(* back; a squash removes the youngest uncommitted stores only; an atomic  *)
(* writes architectural memory when no store is waiting.                   *)
(***************************************************************************)
EXTENDS MemAccess, Sequences

VARIABLES
    pending,    \* uncommitted stores, oldest first
    arch        \* architectural memory

vars == <<pending, arch>>

Init ==
    /\ pending = <<>>
    /\ arch = InitMemory

Execute(s) ==
    /\ pending' = Append(pending, s)
    /\ UNCHANGED arch

Retire ==
    /\ pending # <<>>
    /\ arch' = Apply(arch, Head(pending))
    /\ pending' = Tail(pending)

Squash(n) ==
    /\ pending' = SubSeq(pending, 1, Len(pending) - n)
    /\ UNCHANGED arch

Atomic(s) ==
    /\ pending = <<>>
    /\ arch' = Apply(arch, s)
    /\ UNCHANGED pending

Next ==
    \/ \E s \in Store : Execute(s) \/ Atomic(s)
    \/ Retire
    \/ \E n \in 1 .. Len(pending) : Squash(n)

Spec == Init /\ [][Next]_vars

-----------------------------------------------------------------------------
\* The byte a load must return: that of the youngest pending store covering
\* it, or the architectural byte.
ProgramByte(b) ==
    LET covering == {i \in DOMAIN pending : Covers(pending[i], b)}
        youngest == CHOOSE i \in covering : \A j \in covering : j <= i
    IN  IF covering = {} THEN arch[b] ELSE ByteOf(pending[youngest], b)
=============================================================================
