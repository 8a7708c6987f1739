------------------------------ MODULE MCCopier ------------------------------
(* Small filesystems, hosts and command lines for Copier. *)
EXTENDS Copier, TLC

\* Names and their tokens: a and A differ only in case, and a~1 is a name of its
\* own in the source.
MCLower == [t \in {"^A", "^B", "/", "a", "A", "b", "d", "out", "_", "~1", "~2", "partial"} |->
               IF t = "A" THEN "a" ELSE t]
a == <<"a">>
A == <<"A">>
a1 == <<"a", "~1">>
b == <<"b">>
d == <<"d">>
temp == <<"a", "partial">>

\* host_name leaves all names alone but those with a separator or a control
\* character, which it makes _; that name is in the source, too.
slash == <<"/">>
under == <<"_">>
control == <<"^B">>
controlTemp == <<"^A", "partial">>
underTemp == <<"_", "partial">>
MCHostName == [n \in {a, A, a1, b, d, temp, slash, under, control, controlTemp} |->
                  CASE n \in {slash, control} -> under
                    [] n = controlTemp -> underTemp
                    [] OTHER -> n]
\* Their order as bytes.
Sorted == <<controlTemp, control, slash, A, under, a, temp, a1, b, d>>
MCRank == [n \in DOMAIN MCHostName |-> CHOOSE k \in DOMAIN Sorted : Sorted[k] = n]
MCTilde == <<"~1", "~2">>

Plain(name, loc) == [name |-> name, loc |-> loc, subvol |-> FALSE]
Subvol(name, loc) == [name |-> name, loc |-> loc, subvol |-> TRUE]

Filesystem(kind, entries) ==
    [root |-> 1, name |-> a, kind |-> kind, entries |-> entries,
     tree |-> [l \in DOMAIN kind |-> IF l > 4 THEN l ELSE 0], snapshots |-> {6}]

\* Names that collide once folded, once rewritten, and once renamed.
Colliding ==
    Filesystem(<<"dir", "file", "file", "file">>,
               <<<<Plain(A, 2), Plain(a, 3), Plain(a1, 4)>>>>)
Rewritten ==
    Filesystem(<<"dir", "file", "symlink", "special">>,
               <<<<Plain(slash, 2), Plain(under, 3), Plain(b, 4)>>>>)
\* A directory inside itself, and one with two names.
Looping ==
    Filesystem(<<"dir", "dir", "file">>,
               <<<<Plain(b, 2), Plain(d, 2)>>, <<Plain(a, 3), Plain(d, 1)>>, <<>>>>)
\* A subvolume, a snapshot, and a nesting that is too deep.
Nested ==
    Filesystem(<<"dir", "dir", "dir", "dir", "dir", "dir">>,
               <<<<Subvol(a, 5), Subvol(b, 6), Plain(d, 2)>>, <<Plain(d, 3)>>, <<Plain(d, 4)>>,
                 <<>>, <<>>, <<>>>>)
OneFile == Filesystem(<<"file">>, <<<<>>>>)
MCSources == {Colliding, Rewritten, Looping, Nested, OneFile}

Opts(force, manifest, exclude, x, no) ==
    [force |-> force, manifest |-> manifest, exclude |-> exclude,
     one_subvolume |-> x, no_snapshots |-> no]
MCOptions ==
    {Opts(FALSE, FALSE, {}, FALSE, FALSE), Opts(TRUE, TRUE, {b}, FALSE, TRUE),
     Opts(FALSE, TRUE, {d}, TRUE, FALSE)}

Old(kind) == [kind |-> kind, of |-> Theirs, whole |-> TRUE]
top == <<Dest>>
\* Nothing there; a file, or a directory, in the way of an entry; an earlier copy's
\* unfinished file, and a symlink in its place; a symlink in the way of a directory; a
\* file, and a symlink, at the destination.
MCPriors ==
    {<<>>, top :> Old("dir") @@ <<Dest, a>> :> Old("file"),
     top :> Old("dir") @@ <<Dest, a>> :> Old("dir"),
     top :> Old("dir") @@ <<Dest, temp>> :> Old("file"),
     top :> Old("dir") @@ <<Dest, temp>> :> Old("symlink") @@ <<Dest, b>> :> Old("file"),
     top :> Old("dir") @@ <<Dest, d>> :> Old("symlink"),
     top :> Old("file"), top :> Old("symlink") @@ <<Dest, a>> :> Old("file")}
\* Where the symlink under the temporary name may lead: to a file of the host's, to the
\* place the file is to take, or away.
MCLinks == {<<Dest, b>>, <<Dest, a>>}

\* A source one entry of which is rewritten to the name of another's temporary file.
Clashing ==
    Filesystem(<<"dir", "file", "file">>, <<<<Plain(controlTemp, 2), Plain(control, 3)>>, <<>>, <<>>>>)
ClashingSources == {Clashing, OneFile}

\* A file, a symlink and a directory.
Mixed ==
    Filesystem(<<"dir", "file", "symlink", "dir">>,
               <<<<Plain(a, 2), Plain(b, 3), Plain(d, 4)>>, <<>>, <<>>, <<>>>>)
MixedSources == {Mixed, OneFile}
=============================================================================
