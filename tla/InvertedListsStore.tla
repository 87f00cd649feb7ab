------------------------- MODULE InvertedListsStore -------------------------
(***************************************************************************)
(* What the interface InvertedLists promises to the indexes above it: a    *)
(* table of lists that entries are appended to and that are cut.  An entry *)
(* stands for an id with its code.                                         *)
(***************************************************************************)
EXTENDS Integers, Sequences

CONSTANTS
  List,
  Added,   \* the sequences of entries that are added
  Merged   \* the tables that lists may be built from

VARIABLE content   \* content[l]: the entries of list l in their order

Init == content = [l \in List |-> <<>>]

\* add_entries: what was there stays where it is.
AddEntries(l, es) == content' = [content EXCEPT ![l] = @ \o es]

\* resize, to fewer entries: the first n stay.
Cut(l, n) ==
  /\ n <= Len(content[l])
  /\ content' = [content EXCEPT ![l] = SubSeq(@, 1, n)]

\* merge_from_multiple, into empty lists.
MergeFrom(table) == Init /\ content' = table

Next ==
  \/ \E l \in List : \/ \E es \in Added : AddEntries(l, es)
                     \/ \E n \in 0 .. Len(content[l]) : Cut(l, n)
  \/ \E table \in Merged : MergeFrom(table)

Spec == Init /\ [][Next]_content
=============================================================================
