------------------------------- MODULE ByteLru -------------------------------
(* What a cache that keeps the things used last within a number of bytes     *)
(* promises, whatever it is made of: the list of its entries, newest first.  *)
(* The cache of pages (MediaCache) and the cache of blocks of remote         *)
(* archives (RangeBlocks) implement it.                                      *)
EXTENDS Integers, SequencesExt

CONSTANTS
    Keys,      \* what entries are found by
    Items,     \* what is kept under a key
    Size(_),   \* the bytes of an item
    Capacity   \* the most bytes kept

VARIABLES
    entries,   \* [key, item], newest first
    total      \* the bytes of all of them

vars == <<entries, total>>

Bytes(s) == SumFunction([e \in Range(s) |-> Size(e.item)])

At(key) == {i \in DOMAIN entries : entries[i].key = key}

But(key) == IF At(key) = {} THEN entries ELSE RemoveAt(entries, CHOOSE i \in At(key) : TRUE)

Becomes(s) == entries' = s /\ total' = Bytes(s)

Init == entries = <<>> /\ total = 0

Use(key) == \E i \in At(key) : Becomes(<<entries[i]>> \o RemoveAt(entries, i))

(* The newest entries that fit together stay.                                *)
Insert(key, item) ==
    /\ Size(item) <= Capacity
    /\ LET s == <<[key |-> key, item |-> item]>> \o But(key)
       IN \E n \in 1 .. Len(s) :
            /\ Bytes(SubSeq(s, 1, n)) <= Capacity
            /\ n = Len(s) \/ Bytes(SubSeq(s, 1, n + 1)) > Capacity
            /\ Becomes(SubSeq(s, 1, n))

Clear == Becomes(<<>>)

Next == Clear \/ \E key \in Keys : Use(key) \/ \E item \in Items : Insert(key, item)

Spec == Init /\ [][Next]_vars
=============================================================================
