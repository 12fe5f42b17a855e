------------------------------ MODULE Bitfield ------------------------------
(***************************************************************************)
(* crypto.Bitfield: a set of replica IDs as a sequence of bytes.  A byte   *)
(* is the set of its bits that are set.                                    *)
(***************************************************************************)
EXTENDS Integers, Sequences

Bits == 0..7

Bitfields == Seq(SUBSET Bits)

ByteIndexFromOne(id) == id \div 8

\* index: the byte and the bit of an ID.
ByteIndex(id) == (id - 1) \div 8

BitIndex(id) == (id - 1) % 8

\* id: the ID of a byte and a bit.
IdOf(byteIdx, bitIdx) == 1 + (byteIdx * 8) + bitIdx

Extend(bm, nBytes) == bm \o [i \in 1..nBytes |-> {}]

\* A bit field that has the byte.
Extended(bm, byteIdx) ==
    IF Len(bm) <= byteIdx THEN Extend(bm, byteIdx + 1 - Len(bm)) ELSE bm

Add(bm, id) ==
    [Extended(bm, ByteIndex(id)) EXCEPT ![ByteIndex(id) + 1] = @ \cup {BitIndex(id)}]

Contains(bm, id) ==
    /\ Len(bm) > ByteIndex(id)
    /\ BitIndex(id) \in bm[ByteIndex(id) + 1]

\* ForEach: the IDs it calls f with.
Members(bm) ==
    {IdOf(p[1] - 1, p[2]) : p \in {q \in (1..Len(bm)) \X Bits : q[2] \in bm[q[1]]}}
=============================================================================
