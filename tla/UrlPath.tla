-------------------------------- MODULE UrlPath ---------------------------------
(* The two directions between URL paths and names in the file tree: FileServer *)
(* ::normalize and is_within_root one way, the links of a listing              *)
(* (url_encode_path, build_directory_html) the other. A path is a sequence of  *)
(* characters; an escape is one character of the encoded text. "n" stands for  *)
(* every character that needs no care (tab is one), "c" for the other control  *)
(* characters.                                                                 *)
EXTENDS Integers, SequencesExt

Escapes == [e \in {"%2F", "%2E", "%25", "%23", "%0A"} |->
              CASE e = "%2F" -> "/" [] e = "%2E" -> "." [] e = "%25" -> "%"
                [] e = "%23" -> "#" [] OTHER -> "c"]

\* The characters that some step treats in a way of its own, and one of the rest.
Characters == {"/", ".", "%", "#", "c", "n"}

IsUrlText(path) ==
  path \in Seq(STRING) /\ ToSet(path) \subseteq Characters \union DOMAIN Escapes

\* A name in the file tree.
IsFileName(name) == name \in Seq(Characters \ {"/"}) /\ name # <<>>

\* Step 1, percent decoding. What is no escape ("%" alone) or spells the byte 0
\* ("%00") stays as it is.
Decode(path) ==
  [i \in DOMAIN path |-> IF path[i] \in DOMAIN Escapes THEN Escapes[path[i]] ELSE path[i]]

\* Where a piece between slashes begins; empty ones do not count.
Begins(text) == {i \in DOMAIN text : text[i] # "/" /\ (i = 1 \/ text[i - 1] = "/")}

NthBegin(text, n) == CHOOSE i \in Begins(text) : Cardinality(Begins(text) \cap 1 .. i) = n

\* Where the piece that holds i ends.
EndOf(text, i) ==
  CHOOSE j \in i .. Len(text) :
    /\ \A k \in i .. j : text[k] # "/"
    /\ j = Len(text) \/ text[j + 1] = "/"

\* The pieces, in order.
Segments(text) ==
  [n \in 1 .. Cardinality(Begins(text)) |->
     SubSeq(text, NthBegin(text, n), EndOf(text, NthBegin(text, n)))]

Here == <<".">>
Up == <<".", ".">>
Names(segments) == {i \in DOMAIN segments : segments[i] \notin {Here, Up}}

Refused == [ok |-> FALSE, names |-> <<>>]

\* Mutant: ".." at the root stays at the root.
EnterClamped(at, segment) ==
  CASE segment = Here -> at
    [] segment = Up -> IF at.names = <<>> THEN at ELSE [at EXCEPT !.names = Front(@)]
    [] OTHER -> [at EXCEPT !.names = Append(@, segment)]

\* Step 3, one segment: "." is skipped, ".." pops a name, and at the root it
\* refuses the path whatever follows.
Enter(at, segment) ==
  CASE ~at.ok \/ segment = Here -> at
    [] at.ok /\ segment = Up ->
         IF at.names = <<>> THEN Refused ELSE [at EXCEPT !.names = Front(@)]
    [] OTHER -> [at EXCEPT !.names = Append(@, segment)]

\* All segments in order, from the root.
Walk(segments) ==
  LET at[n \in 0 .. Len(segments)] ==
        IF n = 0 THEN [ok |-> TRUE, names |-> <<>>] ELSE Enter(at[n - 1], segments[n])
  IN at[Len(segments)]

Hidden(name) == name[1] = "."

\* normalize: the names of the canonical path (none for "/"), or a refusal.
Normalize(path) ==
  LET text == Decode(path)
      walk == Walk(Segments(text))
  IN IF \/ "c" \in ToSet(text)
        \/ \E i \in DOMAIN walk.names : Hidden(walk.names[i])
     THEN Refused ELSE walk

\* What realpath returns: "/", or one slash before each name.
IsRealPath(path) ==
  /\ path \in Seq(STRING) /\ path # <<>> /\ path[1] = "/"
  /\ path # <<"/">> =>
       \A i \in DOMAIN path : path[i] = "/" => i < Len(path) /\ path[i + 1] # "/"

\* is_within_root, on the characters of the two absolute paths.
IsWithinRoot(resolved, root) ==
  /\ IsPrefix(root, resolved)
  /\ Len(resolved) = Len(root) \/ resolved[Len(root) + 1] = "/"

--------------------------------------------------------------------------------
(* The links of a listing.                                                     *)

\* url_encode_path: what is not plain text is escaped.
UrlEncodePath(name) ==
  [i \in DOMAIN name |-> IF name[i] \in {"n", ".", "/"} THEN name[i]
                         ELSE CHOOSE e \in DOMAIN Escapes : Escapes[e] = name[i]]

Slash(path) == IF path = <<>> \/ Last(path) # "/" THEN Append(path, "/") ELSE path

\* Mutant: the links of every directory start from the path of the request.
HrefFromRequest(path, show_parent, entry) ==
  LET href == Slash(path) \o UrlEncodePath(entry.name)
  IN IF entry.dir THEN Append(href, "/") ELSE href

\* build_directory_html: the link to an entry, relative to the page except in
\* the listing of the root.
Href(path, show_parent, entry) ==
  LET href == (IF show_parent THEN <<>> ELSE Slash(path)) \o UrlEncodePath(entry.name)
  IN IF entry.dir THEN Append(href, "/") ELSE href

\* ... and the link "../".
ParentHref == Up \o <<"/">>

--------------------------------------------------------------------------------
(* The client, by RFC 3986, 5.2: what it asks for when it follows a link.      *)

UpToLastSlash(path) == SubSeq(path, 1, SelectLastInSeq(path, LAMBDA char : char = "/"))

\* A "#" starts the fragment, which is not sent.
WithoutFragment(ref) ==
  LET mark == SelectInSeq(ref, LAMBDA char : char = "#")
  IN IF mark = 0 THEN ref ELSE SubSeq(ref, 1, mark - 1)

\* What starts with "//" names another host.
LeavesHost(ref) == IsPrefix(<<"/", "/">>, ref)

\* The path of a link that stays on this host, on the page of `path`.
Follow(path, href) ==
  LET ref == WithoutFragment(href)
      base == UpToLastSlash(path)
  IN CASE href = ParentHref -> IF Len(base) = 1 THEN base ELSE UpToLastSlash(Front(base))
       [] href # ParentHref /\ ref # <<>> /\ ref[1] = "/" -> ref
       [] OTHER -> base \o ref

\* A client removes dot segments before it asks, also those it spells "%2E", and
\* does not send the fragment.
SentByClient(path) ==
  LET Plain(piece) == [i \in DOMAIN piece |-> IF piece[i] = "%2E" THEN "." ELSE piece[i]]
      raw == Segments(path)
  IN /\ path # <<>> /\ path[1] = "/" /\ "#" \notin ToSet(path)
     /\ \A i \in DOMAIN raw : Plain(raw[i]) \notin {Here, Up}

--------------------------------------------------------------------------------
(* References: the same functions said without the loops.                      *)

\* A name stays when no later stretch of segments has climbed above it.
Stays(segments, i) ==
  \A j \in i .. Len(segments) :
     Cardinality({k \in i .. j : segments[k] = Up})
       < Cardinality(Names(segments) \cap (i .. j))

\* The path climbs above the root when some beginning has more ".." than names.
Climbs(segments) ==
  \E j \in DOMAIN segments :
     Cardinality({k \in 1 .. j : segments[k] = Up})
       > Cardinality(Names(segments) \cap (1 .. j))

BalancedNames(segments) ==
  LET kept == {i \in Names(segments) : Stays(segments, i)}
      Nth(n) == CHOOSE i \in kept : Cardinality({k \in kept : k <= i}) = n
  IN [n \in 1 .. Cardinality(kept) |-> segments[Nth(n)]]

\* The URL path of a directory with every name escaped and one slash after each.
CanonicalDir(names) ==
  LET dir[n \in 0 .. Len(names)] ==
        IF n = 0 THEN <<"/">> ELSE Append(dir[n - 1] \o UrlEncodePath(names[n]), "/")
  IN dir[Len(names)]
================================================================================
