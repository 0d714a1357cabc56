------------------------------ MODULE Keyboard ------------------------------
(***************************************************************************)
(* What the keyboard promises its readers: each typed character goes to    *)
(* one reader, and they come out in the order they went in, as long as the *)
(* buffer has room.  A character that finds it full is kept at the cost of *)
(* one unread one.  Which one is lost, and hence before which others the   *)
(* new one is read, is not promised: the code of dev_stdin_write gives the *)
(* new character the first place, not the last.                            *)
(***************************************************************************)
EXTENDS Integers, Sequences

CONSTANTS Reader, BufSize, Key

VARIABLES unread,    \* typed and not yet read, in the order they will be read
          got        \* what each reader was given, first to last

Init == /\ unread = <<>>
        /\ got = [r \in Reader |-> <<>>]

Type(c) ==
    /\ \/ /\ Len(unread) < BufSize
          /\ unread' = Append(unread, c)
       \/ /\ Len(unread) = BufSize
          /\ \E lost \in 1..BufSize : unread' = [unread EXCEPT ![lost] = c]
    /\ UNCHANGED got

Take(r, n) ==
    /\ got' = [got EXCEPT ![r] = @ \o SubSeq(unread, 1, n)]
    /\ unread' = SubSeq(unread, n + 1, Len(unread))

Next == \/ \E c \in Key : Type(c)
        \/ \E r \in Reader : \E n \in 1..Len(unread) : Take(r, n)

Spec == Init /\ [][Next]_<<unread, got>>
=============================================================================
