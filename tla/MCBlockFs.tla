----------------------------- MODULE MCBlockFs -----------------------------
(* Instances of BlockFs for TLC.                                           *)
EXTENDS BlockFs, TLC

Symmetry == Permutations(Thread) \cup Permutations(Name)

(* A handle, told by its owner and what it holds: the places of handles    *)
(* and open files in their tables make no difference.                      *)
HandleView(h) ==
  <<handle[h], {openFiles[fd].owner : fd \in {d \in Slot : openFiles[d].handle = h}}>>

LocalView(t) == [x \in DOMAIN at[t] \ {"fd"} |->
                   IF x = "h" /\ at[t].h # INVAL THEN HandleView(at[t].h) ELSE at[t][x]]

(* What nothing in the system looks at again is left out too: the contents *)
(* of a block that waits for erasure, the fields of an entry without a     *)
(* name or without a first write-back.                                     *)
View == <<table, fcb, locks, unsynced, [t \in Thread |-> LocalView(t)],
          [v \in {HandleView(h) : h \in Slot} |-> Cardinality({h \in Slot : HandleView(h) = v})],
          [b \in Block |-> IF table[b] = AVAIL THEN Blank ELSE <<next[b], data[b]>>],
          [e \in Entry |-> IF dir[e].name = NoName THEN <<>>
                          ELSE IF e \in unsynced THEN <<dir[e].name, length[e]>>
                          ELSE <<dir[e], length[e]>>]>>

(* Free blocks of one segment are alike, and so are fresh segments: of     *)
(* those that an allocation may choose only the first is followed.         *)
FirstOfEquals ==
  \A t \in Thread : Pc(t) \in {"allocate", "erase"} /\ at'[t].pc = "link" =>
    LET s == segNum(at'[t].b)
    IN  /\ \A c \in InSegment(s) : c < at'[t].b => table'[c] # FREE
        /\ Pc(t) = "allocate" /\ s \in FreshSegments => \A r \in FreshSegments : s <= r
=============================================================================
