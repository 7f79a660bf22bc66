------------------------------- MODULE Files --------------------------------
(***************************************************************************)
(* What the file system promises about the contents of files: a file is a  *)
(* sequence of bytes, an open file has an offset into it, a write puts its *)
(* bytes at the offset and moves the offset, no call changes another file, *)
(* and a crash returns to what the files were at some earlier moment.      *)
(***************************************************************************)
EXTENDS Naturals, Sequences

CONSTANTS Inum, File, Absent,
          Payload   \* what a write may write at once

VARIABLES
    file,     \* contents of every file, or Absent
    durable,  \* what they are after a crash
    open      \* inode and offset of every open file; inode 0 if it is not open

fvars == <<file, durable, open>>

Closed == [ip |-> 0, off |-> 0]
Exists(i) == i \in Inum /\ file[i] # Absent
Move(f, n) == open' = [open EXCEPT ![f].off = @ + n]

Overlay(old, at, s) ==
    [k \in 1 .. (IF at + Len(s) > Len(old) THEN at + Len(s) ELSE Len(old)) |->
        IF k > at /\ k <= at + Len(s) THEN s[k - at] ELSE old[k]]

Init == durable = file /\ open = [f \in File |-> Closed]

Create(i) == ~Exists(i) /\ file' = [file EXCEPT ![i] = <<>>] /\ UNCHANGED <<durable, open>>
Delete(i) == Exists(i) /\ file' = [file EXCEPT ![i] = Absent] /\ UNCHANGED <<durable, open>>
Truncate(i) == Exists(i) /\ file' = [file EXCEPT ![i] = <<>>] /\ UNCHANGED <<durable, open>>
Close(f) == open' = [open EXCEPT ![f] = Closed] /\ UNCHANGED <<file, durable>>

(* open may truncate the file.                                             *)
Open(f, i) ==
    /\ Exists(i)
    /\ open' = [open EXCEPT ![f] = [ip |-> i, off |-> 0]]
    /\ file' \in {file, [file EXCEPT ![i] = <<>>]}
    /\ UNCHANGED durable

Write(f, s) ==
    /\ Exists(open[f].ip) /\ Move(f, Len(s))
    /\ open[f].off <= Len(file[open[f].ip])
    /\ file' = [file EXCEPT ![open[f].ip] = Overlay(@, open[f].off, s)]
    /\ UNCHANGED durable

Read(f) ==
    /\ Exists(open[f].ip)
    /\ \E n \in 1 .. Len(file[open[f].ip]) :
         Move(f, n) /\ open[f].off + n <= Len(file[open[f].ip])
    /\ UNCHANGED <<file, durable>>

Commit == durable' = file /\ UNCHANGED <<file, open>>
Crash == file' = durable /\ open' = [f \in File |-> Closed] /\ UNCHANGED durable

Next ==
    \/ \E f \in File : Close(f) \/ Read(f) \/ \E s \in Payload : Write(f, s)
    \/ \E f \in File, i \in Inum : Open(f, i)
    \/ \E i \in Inum : Create(i) \/ Delete(i) \/ Truncate(i)
    \/ Commit \/ Crash

Spec == Init /\ [][Next]_fvars
=============================================================================
