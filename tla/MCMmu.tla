------------------------------- MODULE MCMmu -------------------------------
(* Page tables for the run of Mmu. *)
EXTENDS Mmu, TLC

Root == <<1, 1, 1>>
Mid  == <<1, 1, 0>>
Low  == <<1, 0, 1>>

PtePointer(t) == [NoPte EXCEPT !.v = TRUE, !.ppn = t]
PteLeaf(perm, g, ppn) == [NoPte EXCEPT !.v = TRUE, !.perm = perm, !.g = g,
                                       !.ppn = ppn]

\* The root leads to one table of megapages, whose entry is a pointer, a global
\* megapage or a misaligned one, and from there to one table of small pages.
TableUpdates ==
    LET at(slot, ptes) == {slot} \X ptes
    IN  at(<<Root, 0>>, {PtePointer(Mid)})
        \cup at(<<Mid, 0>>, {PtePointer(Low),
                             PteLeaf({"R", "W", "U"}, TRUE, <<1, 0, 0>>),
                             PteLeaf({"R"}, FALSE, <<0, 0, 1>>)})
        \cup at(<<Low, 0>>, {NoPte, PteLeaf({"R", "X"}, FALSE, <<0, 1, 0>>)})

TwoPages == {<<0, 0, 0>>, <<0, 0, 1>>}
RootSet == {Root}
TableSet == {Root, Mid, Low}

\* Address spaces are only compared.
AsidSymmetry == Permutations(Asids)
=============================================================================
