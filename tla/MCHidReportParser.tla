-------------------------- MODULE MCHidReportParser --------------------------
(* Every report descriptor of some bytes up to a length, for TLC.          *)
EXTENDS HidReportParser, FiniteSets

CONSTANTS
    Bytes, MaxBytes,  \* descriptors with items of every kind and size
    Keys, MaxKeys     \* longer ones, of the items that make a pair

UpTo(S, n) == UNION {[1 .. m -> S] : m \in 0 .. n}

ItemsOf(bytes) ==
    LET begins[p \in 0 .. Len(bytes)] ==
            p = 0 \/ \E q \in 0 .. p - 1 : begins[q] /\ q + ItemLength(bytes, q) = p
    IN  {p \in 0 .. Len(bytes) - 1 : begins[p]}

MCDescriptors ==
    {[bytes |-> b, items |-> ItemsOf(b)] : b \in UpTo(Bytes, MaxBytes) \cup UpTo(Keys, MaxKeys)}
=============================================================================
