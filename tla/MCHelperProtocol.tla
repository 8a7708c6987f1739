-------------------------- MODULE MCHelperProtocol --------------------------
(* HelperProtocol for TLC. *)
EXTENDS HelperProtocol, TLC

Path(len, utf8, named, holds) == [len |-> len, utf8 |-> utf8, named |-> named, holds |-> holds]

\* A partition with btrfs, one of each that is refused, and one whose length
\* only the client's build, or neither, takes.
MCPaths == {Path(1, TRUE, TRUE, "btrfs"), Path(1, TRUE, TRUE, "other"),
            Path(1, TRUE, TRUE, "nothing"), Path(1, TRUE, TRUE, "error"),
            Path(1, TRUE, FALSE, "btrfs"), Path(1, FALSE, TRUE, "btrfs"),
            Path(2, TRUE, TRUE, "btrfs"), Path(3, TRUE, TRUE, "btrfs")}

=============================================================================
