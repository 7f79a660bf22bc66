----------------------------- MODULE MCFileData -----------------------------
(* An instance of FileData for model checking: a disk with one file of one *)
(* byte, and four free blocks.                                             *)
EXTENDS FileData

OneFile == << <<9>> >>
Short == <<1>>
Long == <<1, 2, 3, 4, 5, 6, 7>>
ShortOrLong == {Short, Long}

(* Processes and entries of the file table are interchangeable.            *)
Symmetry == Permutations(Proc) \cup Permutations(File)
=============================================================================
