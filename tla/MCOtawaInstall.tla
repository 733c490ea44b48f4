--------------------------- MODULE MCOtawaInstall ---------------------------
(***************************************************************************)
(* Package indexes and command lines of otawa-install.py for TLC.         *)
(***************************************************************************)
EXTENDS OtawaInstall

\* A line of the index: its kind and its parsed argument.
L(k, a) == [key |-> k, arg |-> a]

\* A complete entry: hg download, the given tools and uses, a test on a
\* file named after the package, a make or cmake build.
PkgB(n, uses, tls, b) ==
    <<L("package", n), L("download", "hg"), L("tools", tls), L("uses", uses),
      L("test", n), L("build", b)>>
Pkg(n, uses, tls) == PkgB(n, uses, tls, "make")

\* a uses b and c, both use d (a diamond); b is built with cmake; d is the
\* only package whose test file may already exist.
DiamondText ==
    Pkg("a", <<"b", "c">>, <<"make">>) \o <<L("blank", "")>>
    \o PkgB("b", <<"d">>, <<"cmake", "hg">>, "cmake") \o Pkg("c", <<"d">>, <<>>)
    \o Pkg("d", <<>>, <<"hg">>)

\* a has no download: line, b no build: line, c uses an unknown package.
SparseText ==
    <<L("package", "a"), L("build", "cmake"),
      L("package", "b"), L("download", "hg"),
      L("package", "c"), L("download", "hg"), L("uses", <<"zz">>)>>

\* Indexes the parser rejects: a field before any package, an unknown
\* downloader, an unknown line.
BadTexts ==
    { <<L("tools", <<"make">>), L("package", "a")>>,
      <<L("package", "a"), L("download", "svn")>>,
      <<L("package", "a"), L("junk", "")>> }

\* a requires b.
RequiresText ==
    <<L("package", "a"), L("download", "hg"), L("requires", <<"b">>), L("build", "make")>>
    \o Pkg("b", <<>>, <<>>)

\* a uses b and requires c, b and c are plain packages.
UsesAndRequiresText ==
    <<L("package", "a"), L("download", "hg"), L("uses", <<"b">>), L("requires", <<"c">>),
      L("build", "make")>>
    \o Pkg("b", <<>>, <<>>) \o Pkg("c", <<>>, <<>>)

\* a uses b and b uses a (a dependency cycle).
CycleText == Pkg("a", <<"b">>, <<>>) \o Pkg("b", <<"a">>, <<>>)

MCNames == {"a", "b", "c", "d"}
MCTexts == {DiamondText, SparseText, CycleText, RequiresText} \cup BadTexts
MCRequests == {<<>>, <<"a">>, <<"c">>, <<"x">>, <<"b", "a">>, <<"a", "a">>}
MCFiles == {"d"}
MCTools == {"hg", "cmake"}

\* The inputs of the runs that exhibit one behaviour each.
MCDiamondTexts == {DiamondText}
MCRequiresTexts == {RequiresText}
MCRequestA == {<<"a">>}
MCRequestAA == {<<"a", "a">>}
MCRequestsAandAA == MCRequestA \cup MCRequestAA

\* A diamond, and indexes with a requires: line.
MCDiamondAndRequires == MCDiamondTexts \cup MCRequiresTexts \cup {UsesAndRequiresText}
=============================================================================
