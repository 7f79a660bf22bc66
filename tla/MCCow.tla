------------------------------- MODULE MCCow -------------------------------
(* Instances of Cow for TLC.  kalloc may return any free page; states that *)
(* differ only in which page plays which role are identified by the view   *)
(* Shape.                                                                  *)
EXTENDS Cow

CONSTANTS p1, p2, v1

BootLow == [i \in 0 .. InitSize + BootTables + 1 |-> i + 1]

Frames8 == 1 .. 8
Frames14 == 1 .. 14
Pages01 == {<<0, 1>>}
Page1 == {<<1, 1>>}

(* The references to a page and its contents.  Pages that nothing refers   *)
(* to count only by how many are free.                                     *)
Role(f) == <<{<<p, va>> \in Proc \X VPage : pt[p][va].f = f},
             {<<p, r>> \in Proc \X Region : leaf[p][r] = f},
             {p \in Proc : pagetable[p] = f}, {p \in Proc : trapframe[p] = f},
             {p \in Proc : frm[p] = f}, {p \in Proc : freeing[p] = f}, ref[f], data[f]>>
Flags == [p \in Proc |-> [va \in VPage |-> <<pt[p][va].w, pt[p][va].c, pt[p][va].u>>]]
Shape == <<{Role(f) : f \in Frame}, Cardinality(freelist), Flags,
           sz, pc, cur, lim, ret, req, kid, acc, panicked>>
=============================================================================
