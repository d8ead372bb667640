---------------------------- MODULE MCAlgorithms ----------------------------
(***************************************************************************)
(* Algorithms for TLC: every small input.                                  *)
(***************************************************************************)
EXTENDS Algorithms

Upto(n, S) == UNION {[1..k -> S] : k \in 0..n}

---------------------------------------------------------------------------
Dir == Node("dir", <<>>)
Plain == Node("file", <<>>)
Link(to) == Node("link", to)

\* The process files of the judge (j) and of the two threads of a program.
ProcFiles ==
    (<<"proc">> :> Dir) @@ (Self :> Link(<<"proc", "j">>))
    @@ [p \in {<<"proc", d>> : d \in {"j", "1", "2"}} |-> Dir]
    @@ [p \in {<<"proc", d, "m">> : d \in {"j", "1", "2"}} |-> Plain]
    @@ [p \in {<<"proc", d, "e">> : d \in {"1", "2"}} |-> Link(<<"c">>)]
    @@ (<<"proc", "j", "e">> :> Link(<<"a", "f">>))

\* /b leads to a file or to a directory of another depth.
MCFileSystems ==
    {(<<>> :> Dir) @@ (<<"a">> :> Dir) @@ (<<"a", "d">> :> Dir) @@ (<<"c">> :> Plain)
        @@ (<<"a", "f">> :> Plain) @@ (<<"a", "d", "f">> :> Plain)
        @@ (<<"b">> :> Link(to)) @@ ProcFiles : to \in {<<"a", "d">>, <<"a", "f">>}}

MCFiles ==
    Upto(3, {"a", "b", "f", ".."}) \cup {<<"c">>, <<"a", "d">>, <<"a", "d", "f">>}
        \cup {<<"proc">> \o p : p \in Upto(2, {"self", "1", "2", "m", "e", ".."})}

RulePaths ==
    {<<>>, <<"a">>, <<"a", "d">>, <<"a", "f">>, <<"b">>, <<"b", "f">>, <<"x">>,
     <<"proc">>, Self, Self \o <<"m">>, Self \o <<"e">>}

MCRules == {Rule(t, p) : t \in {"file", "exact", "recursive"}, p \in RulePaths}

\* The two threads of process 1, with a working directory and a descriptor.
MCThreads ==
    {Thread(<<"proc", t>>, <<"proc", "1">>, <<"a", "d">>, [fd \in {"fd3"} |-> <<"a">>]) : t \in {"1", "2"}}

Relative == {Text(FALSE, p) : p \in Upto(2, {"f", ".."})}

MCCalls ==
    {[kind |-> "open", dirfd |-> "AT_FDCWD", text |-> Text(TRUE, p), flags |-> {"DIRECTORY"}] : p \in MCFiles}
    \cup {[kind |-> "open", dirfd |-> d, text |-> x, flags |-> {"WRONLY", "APPEND"}] :
            d \in {"AT_FDCWD", "fd3"}, x \in Relative}
    \cup {[kind |-> "rename", dirfd |-> "AT_FDCWD", text |-> x, newdirfd |-> "fd3", new |-> y] :
            x \in Relative, y \in {Text(FALSE, <<"f">>), Text(FALSE, <<"..", "a">>)}}
    \cup {[kind |-> "link", dirfd |-> "AT_FDCWD", text |-> Text(TRUE, <<"b", "f">>),
            newdirfd |-> "fd3", new |-> x] : x \in Relative}
    \cup {[kind |-> "utimensat", dirfd |-> "fd3", text |-> x, times |-> "now"] : x \in Relative}

---------------------------------------------------------------------------
\* Words and white space, or numbers: 3.00, 4.00, NaN, inf and -inf.
MCAlphabets == {{"a", "A", " ", "\n"}, {"3", "4", "n", " "}, {"3", "i", "m", " "}}

MCNumber == [c \in {"3", "4"} |-> IF c = "3" THEN 300 ELSE 400]
MCInfinite == [c \in {"i", "m"} |-> IF c = "i" THEN 1 ELSE -1]
MCUpper == [c \in {"A"} |-> "a"]

---------------------------------------------------------------------------
MCBytes == {"a", "\r", "\n"}

\* Two names are of an input and an output at once.
MCArchiveFiles ==
    {File({type}, batch, case) :
        type \in {"in", "out"}, batch \in {Key(FALSE, 1), Key(FALSE, 2), Key(TRUE, 1), None},
        case \in {Key(FALSE, 1), Key(FALSE, 2)}}
    \cup {File({"in", "out"}, batch, Key(FALSE, 1)) : batch \in {Key(FALSE, 1), None}}

MCCasePoints == [i \in 1..MaxFiles |-> i]

---------------------------------------------------------------------------
MCCases ==
    [in : {Nothing, "i"}, out : {Nothing, "o"}, generator : BOOLEAN, generator_args : BOOLEAN,
     generator_in : {Nothing, "g"}, binary : BOOLEAN]

\* One text with the line ends of two systems, in the directory or in the archive, where
\* an older file of a name may be too.
InFile == <<"a", "\r", "\n">>
OutFile == <<"a", "\n">>

MCDisks ==
    {[dir |-> ("i" :> InFile) @@ ("o" :> OutFile), archive |-> Nothing],
     [dir |-> ("i" :> InFile), archive |-> ("i" :> <<>>) @@ ("o" :> OutFile) @@ ("g" :> <<"a">>)],
     [dir |-> ("g" :> <<"a">>), archive |-> ("o" :> OutFile)]}

MCRuns == [well : BOOLEAN, stdout : {<<"a">>}, stderr : {<<"a", "\r">>}]

---------------------------------------------------------------------------
\* Two problems, one of them in two directories or in the root of a pattern itself, and
\* the directory below /a that a star would match, were it to cross the slash.
MCProblemDirs == {<<"a", "p">>, <<"a", "q">>, <<"a", "x", "p">>, <<"a", "x", "q">>, <<"p">>}
MCPatternLists ==
    {<<OneOf(<<"a">>, {"p"}, {<<"a", "x", "p">>}), Deep(<<"a", "x">>)>>,
     <<OneOf(<<"a">>, {"p"}, {<<"a", "x", "p">>}), OneOf(<<"a", "x">>, {"q"}, {})>>,
     <<Deep(<<"a", "x">>), OneOf(<<"a">>, {"p", "q"}, {})>>, <<Deep(<<"p">>), Deep(<<>>)>>}

---------------------------------------------------------------------------
\* A case and what is around it; "x-" is how a file may write "x_".
MCDashed == [item \in {"x_", "x-"} |-> "x-"]

Dict(values) == UNION {[keys -> values] : keys \in SUBSET {"x_", "x-"}}
MCNodes ==
    {<<Level(plain, eval, exec), Level(<<>>, <<>>, <<>>), Level(outer, <<>>, <<>>)>> :
        plain \in Dict({1, Absent}), eval \in Dict({2, Broken}), exec \in Dict({3}), outer \in Dict({4})}
=============================================================================
