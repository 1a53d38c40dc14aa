----------------------------- MODULE MCFileService ------------------------------
(* TLC instances of FileService: requests and trees, in four families that     *)
(* vary one thing each.                                                        *)
EXTENDS FileService

Root == <<"/", "r">>

\* Where a path really leads: below the root, to the root, next to it.
Below == <<"/", "r", "/", "n">>
Beside == <<"/", "r", "n">>

File(size, mtime) ==
  [NoNode EXCEPT !.kind = "file", !.real = Below, !.size = size, !.mtime = mtime, !.readable = TRUE]
Dir(entries) ==
  [NoNode EXCEPT !.kind = "dir", !.real = Below, !.size = 2, !.mtime = 3, !.readable = TRUE,
                 !.entries = entries]
Special == [NoNode EXCEPT !.kind = "other", !.real = Below, !.readable = TRUE]
Unreadable(node) == [node EXCEPT !.readable = FALSE]
Link(node, real) == [node EXCEPT !.link = TRUE, !.real = real]
DeadLink == [NoNode EXCEPT !.link = TRUE]

\* By way of a directory that is a link out of the root.
Through(node) == [node EXCEPT !.real = Beside]

Entry(name, kind) == [name |-> name, kind |-> kind]
Entries == {Entry(<<"n">>, "file"), Entry(<<"n", "%">>, "dir"), Entry(<<"#", ".">>, "file"),
            Entry(<<"c">>, "file"), Entry(<<".", "n">>, "file"), Entry(<<"n", "n">>, "none")}

Alone(node) == [at |-> node, index |-> NoNode]

AllTrees ==
  {Alone(node) : node \in
     {NoNode, File(1, 1), File(3, 2), Unreadable(File(1, 2)), Special,
      Link(File(3, 1), Below), Link(File(1, 2), Beside), Link(Special, Below),
      Link(Dir(Entries), Root), DeadLink, Through(File(2, 1))}}
  \union
  [at : {Dir(Entries), Unreadable(Dir({})), Dir({Entry(<<"n">>, "dir")})},
   index : {NoNode, File(1, 1), Link(File(3, 2), Below), Link(File(2, 2), Beside),
            Unreadable(File(1, 1)), Dir({})}]

Asking(path, version, lines, ext) ==
  [path |-> path, version |-> version, lines |-> lines, ext |-> ext]
Case(asked, node, bound) ==
  [request |-> asked, tree |-> Alone(node), changes |-> bound]

Host == Line("host", "h")
Page1 == <<"/", "n">>

\* Every tree, changing up to twice under one request.
WhileTreesChange ==
  [request : {Asking(Page1, "HTTP/1.1", lines, 48) :
                lines \in {<<Host>>, <<Line("if-modified-since", 1), Host>>,
                           <<Line("range", RangeHeader("span", 0, 1)), Host>>}},
   tree : AllTrees, changes : {2}]

\* Every path of up to three pieces, and up to five that go down and up.
Pieces ==
  {<<"/">>, <<"/", "n">>, <<"/", ".", ".">>, <<"/", ".">>, <<"/", ".", "n">>,
   <<"%2F", "%2E", ".">>, <<"%2F", "n">>, <<"%0A">>, <<"n", "%23">>, <<"%25">>}
DownAndUp == {<<"/", "n">>, <<"n", "/">>, <<"%2F", ".", "%2E">>}
Joined(pieces, most) == {FlattenSeq(path) : path \in UNION {[1 .. n -> pieces] : n \in 0 .. most}}
Paths == Joined(Pieces, 3) \union Joined(DownAndUp, 5)

ForEveryPath ==
  {Case(Asking(path, "HTTP/1.1", <<Host>>, NoExtension), Dir(Entries), 0) : path \in Paths}

\* Every list of up to three header lines, for an empty file and one of three bytes.
Lines ==
  {Host} \union {Line("connection", value) : value \in {"close", "keep-alive"}}
    \union {Line("if-modified-since", time) : time \in {1, 2}}
    \union {Line("range", h) : h \in RangeHeaders({0, 2, OFF_MAX + 1}) \ {NoHeader}}

ForEveryHeader ==
  {Case(Asking(Page1, version, lines, 48), File(size, 2), 0) :
     version \in {"HTTP/1.0", "HTTP/1.1"}, size \in {0, 3},
     lines \in {lines \in UNION {[1 .. n -> Lines] : n \in 0 .. 3} :
                  \A i, j \in DOMAIN lines : lines[i].name = lines[j].name => i = j}}

\* Every extension.
ForEveryType ==
  {Case(Asking(Page1, "HTTP/1.1", <<Host>>, ext), File(1, 1), 0) :
     ext \in Extensions \union {NoExtension}}

AllCases == WhileTreesChange \union ForEveryPath \union ForEveryHeader \union ForEveryType
================================================================================
