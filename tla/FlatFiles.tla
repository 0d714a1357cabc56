------------------------------ MODULE FlatFiles ------------------------------
(***************************************************************************)
(* What regular files promise: a file is a sequence of cells, a descriptor *)
(* an offset into it.  Writes may stop short, cells that were never        *)
(* written are 0, and no file shows what was written to another one.       *)
(***************************************************************************)
EXTENDS Integers, Sequences

CONSTANTS File, Desc, NoFile,
          MaxSize         \* offsets are below it

VARIABLES content, file, pos
vars == <<content, file, pos>>

Size(f) == Len(content[f])
\* Sequence s with zeros behind it, up to length n.
Padded(s, n) == [i \in 1..(IF n > Len(s) THEN n ELSE Len(s)) |-> IF i <= Len(s) THEN s[i] ELSE 0]
Used(d) == file[d] # NoFile

Open(d) ==
    /\ ~Used(d)
    /\ \E f \in File :
          /\ file' = [file EXCEPT ![d] = f]
          /\ \/ content' = content /\ pos' = [pos EXCEPT ![d] = 0]
             \/ content' = content /\ pos' = [pos EXCEPT ![d] = Size(f)]
             \/ content' = [content EXCEPT ![f] = <<>>] /\ pos' = [pos EXCEPT ![d] = 0]

Close(d) ==
    /\ file' = [file EXCEPT ![d] = NoFile]
    /\ pos' = [pos EXCEPT ![d] = 0]
    /\ UNCHANGED content

\* Data written to file f is told from that of other files by the mark f.
Write(d) ==
    /\ Used(d)
    /\ \E n \in 0..(MaxSize - pos[d]) :
          /\ content' = [content EXCEPT ![file[d]] =
                            [i \in DOMAIN Padded(@, pos[d] + n) |->
                                IF i \in (pos[d] + 1)..(pos[d] + n) THEN file[d]
                                ELSE Padded(@, pos[d] + n)[i]]]
          /\ pos' = [pos EXCEPT ![d] = @ + n]
    /\ UNCHANGED file

Read(d) ==
    /\ Used(d)
    /\ \E n \in 0..(MaxSize - pos[d]) :
          /\ n > 0 => pos[d] + n <= Size(file[d])
          /\ pos' = [pos EXCEPT ![d] = @ + n]
    /\ UNCHANGED <<content, file>>

Seek(d) ==
    /\ Used(d)
    /\ \E p \in 0..(MaxSize - 1) :
          /\ pos' = [pos EXCEPT ![d] = p]
          /\ content' = [content EXCEPT ![file[d]] = Padded(@, p)]
    /\ UNCHANGED file

Next == \E d \in Desc : Open(d) \/ Close(d) \/ Write(d) \/ Read(d) \/ Seek(d)

Init == /\ content = [f \in File |-> <<>>]
        /\ file = [d \in Desc |-> NoFile]
        /\ pos = [d \in Desc |-> 0]

Spec == Init /\ [][Next]_vars
=============================================================================
