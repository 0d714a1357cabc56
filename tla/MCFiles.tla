------------------------------- MODULE MCFiles -------------------------------
(***************************************************************************)
(* Descriptor tables (FileTable) and files of the disk (SfsFile), on small *)
(* instances of each; part says which one a behaviour shows.  "tables" has *)
(* more processes and tables, all of whose entries are the keyboard;       *)
(* "opens" adds a file, a second directory and the opens that fail; in     *)
(* "files" two files compete for the blocks, in "descs" two descriptors    *)
(* name one file, and "both" has two of each, at a few offsets.            *)
(***************************************************************************)
EXTENDS FileTable, SfsFile, TLC

CONSTANTS p0, p1, p2, t0, t1, t2, script, home, f1, f2, d1, d2

VARIABLE part

mcVars == <<part, vars, sfsVars>>

MCInit == part \in {"tables", "opens", "files", "descs", "both"} /\ Init /\ SfsInit

\* The bounds of the two parts of FileTable: no file and no failed open; two processes and
\* two tables.
InTables == /\ \A n \in {script, home} : ref_count'[n] = 0
            /\ lost' = lost
InOpens == /\ Cardinality({p \in Proc : life'[p] # "free"}) <= 2
           /\ Cardinality({f \in Files : files'[f] # NULL}) <= 2

\* One descriptor for two files; one file in use under two descriptors; two of each, at the
\* start of a file, within its first block and within its second, up to the first change
\* that is lost, after which nothing is promised.
OneDesc == Cardinality({d \in Desc : file'[d] # NoFile}) <= 1
OneFile == Cardinality({f \in Ino : fs'.din[f] # EmptyDin \/ \E d \in Desc : file'[d] = f}) <= 1
FewOffsets == unsaved = {} /\ \A d \in Desc : pos'[d] \in {0, 1, 3}

MCNext == \/ part = "tables" /\ Next /\ InTables /\ UNCHANGED <<part, sfsVars>>
          \/ part = "opens" /\ Next /\ InOpens /\ UNCHANGED <<part, sfsVars>>
          \/ part = "files" /\ SfsNext /\ OneDesc /\ UNCHANGED <<part, vars>>
          \/ part = "descs" /\ SfsNext /\ OneFile /\ UNCHANGED <<part, vars>>
          \/ part = "both" /\ SfsNext /\ FewOffsets /\ UNCHANGED <<part, vars>>

MCSpec == MCInit /\ [][MCNext]_mcVars

Symmetric == Permutations({p1, p2}) \cup Permutations({t0, t1, t2})
             \cup Permutations({f1, f2}) \cup Permutations({d1, d2})
=============================================================================
