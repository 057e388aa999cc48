------------------------------- MODULE MCVFS -------------------------------
(***************************************************************************)
(* /a (directory) with the file x, /b (directory) with the directory x.    *)
(***************************************************************************)
EXTENDS VFS

MCNodes == {"root", "A", "B", "AX", "BX"}
MCParent == [n \in MCNodes |-> CASE n = "AX" -> "A" [] n = "BX" -> "B" [] n = "root" -> NULL [] OTHER -> "root"]
MCName == [n \in MCNodes |-> CASE n = "A" -> "a" [] n = "B" -> "b" [] n = "root" -> "" [] OTHER -> "x"]
MCDirectories == {"root", "A", "B", "BX"}

\* Buckets by the parent (and so with several entries), and one for all:
\* 257 directories suffice for two with one bucket for the same name.
ByParent(p, m) == p
OneBucket(p, m) == 0

Rel(toks) == [abs |-> FALSE, toks |-> toks]
Abs(toks) == [abs |-> TRUE, toks |-> toks]

MCPaths == {Rel(<<"a", "x">>), Rel(<<"b", "", "x", "">>), Rel(<<"a", "..", "b", "x">>),
            Rel(<<"x">>), Rel(<<"a", "x", "..">>), Rel(<<"..">>), Rel(<<".">>),
            Rel(<<"..", "a", "">>), Rel(<<"">>), Abs(<<"">>)}
AbsPaths == {Abs(<<"a", "x">>), Abs(<<"b">>), Abs(<<"">>), Abs(<<"", "a">>)}
FewPaths == {Rel(<<"a", "x">>), Rel(<<"b">>)}
MCWorkDirs == {NULL, "B"}
MCWithOps == {"A"}
MCGarbage == {<<"b">>}
=============================================================================
