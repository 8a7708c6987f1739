----------------------------- MODULE MCReadRange -----------------------------
(* Files of up to three extents, well formed and corrupt, for ReadRange. *)
EXTENDS ReadRange, FiniteSets

\* Two compressed extents on disk, of which the first is an lzo frame.
MCPlainLen == <<3, 4>>

\* The items that may stand at a file offset: each kind, and each way in which
\* a corrupt item can differ (an address past u64, an offset past the data or
\* past u64, a size that is not the extent's, inline data that is too large, too
\* short or not decompressable).
ItemsAt(o) ==
    {[off |-> o, len |-> 3, kind |-> "hole"]}
        \cup {[off |-> o, len |-> 3, kind |-> "plain", addr |-> a] : a \in {4, U64 - 1, U64 + 1}}
        \cup {[off |-> o, len |-> 2, kind |-> "comp", bytenr |-> 1, ram |-> r, offset |-> d] :
                r \in {2, 3, 4}, d \in {0, 1, 2, U64}}
        \cup {[off |-> o, len |-> 3, kind |-> "comp", bytenr |-> 2, ram |-> 4, offset |-> 1]}
        \cup {[off |-> o, len |-> 2, kind |-> "inline", ram |-> 2, n |-> n, whole |-> TRUE] :
                n \in 1..3}
        \cup {[off |-> o, len |-> r, kind |-> "inline", ram |-> r, n |-> 2, whole |-> r = 5] :
                r \in {4, 5}}

\* Up to two items anywhere, with a third for the well-formed middle.
Sequences3 ==
    {<<>>} \cup {<<e>> : e \in ItemsAt(0) \cup ItemsAt(2) \cup ItemsAt(U64 - 1)}
        \cup {<<e, f>> : e \in ItemsAt(0), f \in ItemsAt(1) \cup ItemsAt(4)}

MCLayouts == {[size |-> z, exts |-> s] : z \in {0, 6, U64}, s \in Sequences3}

MCRanges == {[start |-> s, end |-> e] : s \in {0, 1, 4}, e \in {3, U64}}

=============================================================================
