------------------------------ MODULE FileService -------------------------------
(* From a complete request head to the response: do_parse, prepare_response,   *)
(* FileServer::open and list_directory, one system call per step, while others *)
(* change the file tree in between. The tree is what the calls can tell of it: *)
(* what stands at the requested path and at index.html below it. How the       *)
(* response is sent is ConnectionSend; GET and HEAD differ only there, and the *)
(* branch for other methods is never reached (EventLoop).                      *)
EXTENDS HttpRequest, HttpResponse, MimeTypes, UrlPath

CONSTANTS
  ROOT,    \* root_dir_, as realpath returns it
  Trees,   \* what the file tree may become while a request is handled
  Cases    \* requests, each with the tree it meets and the changes it may see

ASSUME RootAssumption == IsRealPath(ROOT) /\ ROOT # <<"/">>

\* What stands at a path: whether its last name is a link, and the path that
\* realpath returns, which lies elsewhere if any name on the way is a link.
IsLink(node) == node.link

NodeOK(node) ==
  /\ node.kind \in {"none", "file", "dir", "other"} /\ node.link \in BOOLEAN
  /\ node.kind # "none" => IsRealPath(node.real)
  /\ node.size \in Nat /\ node.mtime \in Nat /\ node.readable \in BOOLEAN
  /\ \A entry \in node.entries : IsFileName(entry.name)

TreeOK(t) == NodeOK(t.at) /\ NodeOK(t.index)

ASSUME CasesAssumption ==
  /\ \A t \in Trees : TreeOK(t)
  /\ \A case \in Cases :
       /\ TreeOK(case.tree) /\ case.changes \in Nat
       /\ IsUrlText(case.request.path) /\ LinesOK(case.request.lines)
       /\ case.request.ext \in Extensions \union {NoExtension}

VARIABLES
  pc,          \* the next system call, or where the request is
  request,     \* the request as the client sent it
  headers,     \* HttpRequest::headers_
  tree,        \* kernel: what stands at the path and its index.html now
  changes,     \* bound of the model: changes this request may still see
  seen,        \* ghost: the trees this request has seen
  place,       \* full_path: the path itself or its index.html
  st,          \* open: the last stat result
  info,        \* FileInfo, with the descriptor it owns
  sender,      \* Connection: file_fd_, send_offset_, send_remaining_
  open_files,  \* kernel: files opened and not closed
  response,    \* Connection::response_
  header,      \* Connection::header_buf_
  listing      \* list_directory: what build_directory_html shows

vars == <<pc, request, headers, tree, changes, seen, place, st, info, sender,
          open_files, response, header, listing>>

--------------------------------------------------------------------------------
\* The `kind` of a link and the rest are those of what it leads to ("none" when
\* that does not exist).
NoNode == [kind |-> "none", link |-> FALSE, real |-> <<>>, size |-> 0, mtime |-> 0,
           readable |-> FALSE, entries |-> {}]

NoTree == [at |-> NoNode, index |-> NoNode]

NoRequest == [path |-> <<>>, version |-> "HTTP/1.1", lines |-> <<>>, ext |-> NoExtension]
NoStat == [size |-> 0, mtime |-> 0]
NoInfo == [fd |-> FALSE, size |-> 0, last_modified |-> 0, mime_type |-> NO_TYPE]
NoFile == [fd |-> FALSE, first |-> 0, remaining |-> 0]
NoListing == [shown |-> {}, show_parent |-> FALSE]

StatOf(node) == [size |-> node.size, mtime |-> node.mtime]

Init ==
  /\ pc = "idle"
  /\ request = NoRequest /\ headers = <<>>
  /\ tree = NoTree /\ changes = 0 /\ seen = {}
  /\ place = "at" /\ st = NoStat
  /\ info = NoInfo /\ sender = NoFile /\ open_files = 0
  /\ response = ResetResponse([headers |-> <<>>]) /\ header = <<>>
  /\ listing = NoListing

\* prepare_headers: the response is complete.
PrepareHeaders(complete) ==
  /\ response' = complete
  /\ header' = BuildHeaders(complete)
  /\ pc' = "answered"

\* prepare_response for a FileError, and do_parse for what it cannot parse.
AnswerError(fresh, status) ==
  /\ PrepareHeaders(Page(fresh, status))
  /\ UNCHANGED listing

Proceed(call) == pc' = call /\ UNCHANGED <<response, header, listing>>

KernelVars == <<tree, changes, seen>>
FileVars == <<info, sender, open_files>>

--------------------------------------------------------------------------------
(* The steps of one request.                                                   *)

\* Connection::reset and do_parse, then prepare_response up to open: the path is
\* normalized before the file system is asked. The tree met is any: between two
\* requests nothing of it is remembered.
Take(case) ==
  LET parsed == Parse(case.request.lines)
      keep == parsed.ok /\ IsKeepAlive(case.request.version, parsed.headers)
      fresh == [ResetResponse(response) EXCEPT !.keep_alive = keep]
  IN /\ pc = "idle"
     /\ request' = case.request /\ headers' = parsed.headers
     /\ tree' = case.tree /\ changes' = case.changes /\ seen' = {case.tree}
     /\ IF parsed.ok /\ Normalize(case.request.path).ok
        THEN pc' = "lstat" /\ response' = fresh /\ UNCHANGED <<header, listing>>
        ELSE AnswerError(fresh, Status.BAD_REQUEST)
     /\ UNCHANGED <<place, st, FileVars>>

\* open, once stat has answered for the path.
Found(node) ==
  /\ st' = StatOf(node)
  /\ CASE node.kind = "dir" -> Proceed("index")
       [] node.kind = "file" -> Proceed("open")
       [] OTHER -> AnswerError(response, Status.FORBIDDEN)

\* lstat: of a link as the last name it tells only that it is one; links on the way
\* it follows.
LookAt ==
  /\ pc = "lstat"
  /\ CASE IsLink(tree.at) ->
            Proceed("realpath") /\ st' = [size |-> Len(tree.at.real), mtime |-> 0]
       [] ~IsLink(tree.at) /\ tree.at.kind # "none" -> Found(tree.at)
       [] OTHER -> AnswerError(response, Status.NOT_FOUND) /\ UNCHANGED st
  /\ UNCHANGED <<request, headers, KernelVars, place, FileVars>>

\* realpath, on what stands there now: it fails when nothing does.
Resolves(node) == node.kind # "none" /\ IsWithinRoot(node.real, ROOT)

FollowLink ==
  /\ pc = "realpath"
  /\ IF Resolves(tree.at) THEN Proceed("stat") ELSE AnswerError(response, Status.FORBIDDEN)
  /\ UNCHANGED <<request, headers, KernelVars, place, st, FileVars>>

\* Mutant: the size and time of the link stay in st.
StatTargetOnly ==
  /\ pc = "stat"
  /\ IF tree.at.kind = "none" THEN AnswerError(response, Status.NOT_FOUND)
     ELSE CASE tree.at.kind = "dir" -> Proceed("index")
            [] tree.at.kind = "file" -> Proceed("open")
            [] OTHER -> AnswerError(response, Status.FORBIDDEN)
  /\ UNCHANGED <<request, headers, KernelVars, place, st, FileVars>>

StatTarget ==
  /\ pc = "stat"
  /\ IF tree.at.kind = "none"
     THEN AnswerError(response, Status.NOT_FOUND) /\ UNCHANGED st
     ELSE Found(tree.at)
  /\ UNCHANGED <<request, headers, KernelVars, place, FileVars>>

\* Mutant: the index page keeps the size and time of its directory.
LookAtIndexOnly ==
  /\ pc = "index"
  /\ IF tree.index.kind = "file" THEN place' = "index" /\ Proceed("open")
     ELSE Proceed("opendir") /\ UNCHANGED place
  /\ UNCHANGED <<request, headers, KernelVars, st, FileVars>>

\* A directory: its index.html takes its place when it is a regular file.
LookAtIndex ==
  /\ pc = "index"
  /\ IF tree.index.kind = "file"
     THEN st' = StatOf(tree.index) /\ place' = "index" /\ Proceed("open")
     ELSE Proceed("opendir") /\ UNCHANGED <<st, place>>
  /\ UNCHANGED <<request, headers, KernelVars, FileVars>>

\* The entries readdir returns whose name is not hidden and that stat finds.
Visible(node) ==
  {[name |-> e.name, dir |-> e.kind = "dir"] :
     e \in {e \in node.entries : ~Hidden(e.name) /\ e.kind # "none"}}

\* IS_DIRECTORY: list_directory and the page. opendir may fail; the list is
\* empty then.
ListDirectory ==
  /\ pc = "opendir"
  /\ listing' = [shown |-> IF tree.at.kind = "dir" /\ tree.at.readable
                           THEN Visible(tree.at) ELSE {},
                 show_parent |-> Normalize(request.path).names # <<>>]
  /\ PrepareHeaders(Page(response, Status.OK))
  /\ UNCHANGED <<request, headers, KernelVars, place, st, FileVars>>

\* open(2) by name, of whatever stands there now, and FileInfo from st.
Open ==
  /\ pc = "open"
  /\ IF tree[place].kind # "none" /\ tree[place].readable
     THEN /\ open_files' = open_files + 1
          /\ info' = [fd |-> TRUE, size |-> st.size, last_modified |-> st.mtime,
                      mime_type |-> DetectMimeType(IF place = "index" THEN TEXT_HTML
                                                   ELSE request.ext)]
          /\ Proceed("respond")
     ELSE AnswerError(response, Status.NOT_FOUND) /\ UNCHANGED <<info, open_files>>
  /\ UNCHANGED <<request, headers, KernelVars, place, st, sender>>

\* Mutant: prepare_response gives up the descriptor without closing it.
RespondNotModifiedLeaking ==
  /\ pc = "respond"
  /\ IfModifiedSince(headers) >= info.last_modified
  /\ PrepareHeaders(NotModified(response, info.last_modified))
  /\ info' = [info EXCEPT !.fd = FALSE]
  /\ UNCHANGED <<request, headers, KernelVars, place, st, sender, open_files, listing>>

\* If-Modified-Since: no newer than the client's copy. ~FileInfo closes the file.
RespondNotModified ==
  /\ pc = "respond"
  /\ IfModifiedSince(headers) >= info.last_modified
  /\ PrepareHeaders(NotModified(response, info.last_modified))
  /\ open_files' = open_files - 1 /\ info' = [info EXCEPT !.fd = FALSE]
  /\ UNCHANGED <<request, headers, KernelVars, place, st, sender, listing>>

\* Mutant: the descriptor is handed over and closed all the same.
HandOverClosed(first, last) ==
  /\ sender' = [fd |-> TRUE, first |-> first,
                remaining |-> IF last >= first THEN last - first + 1 ELSE 0]
  /\ info' = [info EXCEPT !.fd = FALSE]
  /\ open_files' = open_files - 1

\* set_send_file(info.release_fd(), ...): ~FileInfo finds nothing to close.
HandOver(first, last) ==
  /\ sender' = [fd |-> TRUE, first |-> first,
                remaining |-> IF last >= first THEN last - first + 1 ELSE 0]
  /\ info' = [info EXCEPT !.fd = FALSE]
  /\ UNCHANGED open_files

\* The file, or the part the Range header asks for.
RespondFile ==
  /\ pc = "respond"
  /\ IfModifiedSince(headers) < info.last_modified
  /\ \E range \in RangesRead(headers) :
       LET part == Interval(range, info.size)
           length == IF info.size > 0 THEN part.last - part.first + 1 ELSE 0
       IN /\ PrepareHeaders(Contents(response, info, part, length))
          /\ HandOver(part.first, part.last)
  /\ UNCHANGED <<request, headers, KernelVars, place, st, listing>>

\* External: the response goes out and the connection closes the file. What was
\* known of the request is dropped; the response stays until the next reset.
Sent ==
  /\ pc = "answered" /\ pc' = "idle"
  /\ open_files' = IF sender.fd THEN open_files - 1 ELSE open_files
  /\ request' = NoRequest /\ headers' = <<>>
  /\ tree' = NoTree /\ changes' = 0 /\ seen' = {}
  /\ place' = "at" /\ st' = NoStat /\ info' = NoInfo /\ sender' = NoFile
  /\ header' = <<>> /\ listing' = NoListing
  /\ UNCHANGED response

\* External: somebody changes the tree between two system calls.
Change ==
  /\ pc \notin {"idle", "respond", "answered"} /\ changes > 0
  /\ \E new \in Trees \ {tree} : tree' = new /\ seen' = seen \union {new}
  /\ changes' = changes - 1
  /\ UNCHANGED <<pc, request, headers, place, st, FileVars, response, header, listing>>

Step ==
  \/ LookAt \/ FollowLink \/ StatTarget \/ LookAtIndex \/ ListDirectory
  \/ Open \/ RespondNotModified \/ RespondFile

Next == (\E case \in Cases : Take(case)) \/ Step \/ Sent \/ Change

Spec == Init /\ [][Next]_vars

--------------------------------------------------------------------------------
(* What the answers are worth.                                                 *)

FileTypeOK ==
  /\ pc \in {"idle", "lstat", "realpath", "stat", "index", "opendir", "open",
             "respond", "answered"}
  /\ changes \in Nat /\ place \in {"at", "index"}
  /\ st \in [size : Nat, mtime : Nat]
  /\ info \in [fd : BOOLEAN, size : Nat, last_modified : Nat,
               mime_type : {NO_TYPE, FALLBACK_MIME} \union Extensions]
  /\ sender \in [fd : BOOLEAN, first : Int, remaining : Nat]
  /\ open_files \in 0 .. 1
  /\ response.status \in {Status[name] : name \in DOMAIN Status}
  /\ listing.show_parent \in BOOLEAN

Answered == pc = "answered"
HasFile == info # NoInfo  \* open() found a file, whatever became of it
IsListing == header.status = Status.OK /\ ~HasFile

\* normalize keeps exactly the names no later ".." takes back, in order, and
\* refuses exactly the paths that climb above the root on the way, keep a hidden
\* name, or hold a control character other than tab, whatever is escaped and
\* wherever the slashes stand.
NormalizeIsBalanced ==
  pc # "idle" =>
    LET text == Decode(request.path)
        segments == Segments(text)
        names == BalancedNames(segments)
    IN Normalize(request.path) =
         IF \/ "c" \in ToSet(text) \/ Climbs(segments)
            \/ \E i \in DOMAIN names : Hidden(names[i])
         THEN Refused ELSE [ok |-> TRUE, names |-> names]

\* A client that follows a link of a listing asks for the entry it names. That
\* holds if and only if the page was asked for with a slash after the last name
\* (the links are relative), in the root if the path does not begin with "//".
\* An entry with a control character other than tab in its name has no working
\* link.
\* From a page with a plain path the link "../" leads to the parent.
LinksLead ==
  Answered /\ IsListing /\ SentByClient(request.path) =>
    LET path == request.path
        names == Normalize(path).names
        Leads(href, to) ==
          /\ ~LeavesHost(href)
          /\ Normalize(Follow(path, href)) = [ok |-> TRUE, names |-> to]
    IN /\ \A entry \in listing.shown :
            LET href == Href(path, listing.show_parent, entry)
            IN Leads(href, Append(names, entry.name)) <=>
                 /\ "c" \notin ToSet(entry.name)
                 /\ IF names = <<>> THEN ~LeavesHost(path)
                    ELSE Normalize(UpToLastSlash(path)).names = names
       /\ listing.show_parent /\ path = CanonicalDir(names)
            => Leads(ParentHref, Front(names))

\* A file is announced with the type of its extension, if and only if that
\* stands in the table in its place; else with the fallback, as if unknown.
TypeIsFoundInPlace ==
  Answered /\ sender.fd =>
    LET ext == IF place = "index" THEN TEXT_HTML ELSE request.ext
        known == \E row \in DOMAIN MIME_TABLE : MIME_TABLE[row] = ext /\ InPlace(row)
    IN header.content_type = IF known THEN ext ELSE FALLBACK_MIME

\* is_keep_alive hears every header line but the last.
KeepAliveAsAsked ==
  Answered =>
    LET lines == request.lines
        Says(value) == \E i \in DOMAIN lines :
                         lines[i] = Line("connection", value) /\ i # Len(lines)
    IN header.connection = "keep-alive" <=>
         /\ lines # <<>>
         /\ IF request.version = "HTTP/1.1" THEN ~Says("close") ELSE Says("keep-alive")

\* The header and what follows it belong together: no length on 304 alone, a
\* Content-Range on 206 alone and inside the file, a Content-Length that is the
\* number of bytes handed over or the length of the page. A number in the Range
\* header that off_t cannot hold is excepted.
HeaderFitsBody ==
  Answered /\ RangeFits(headers) =>
    /\ header.content_length = Absent <=> header.status = Status.NOT_MODIFIED
    /\ header.content_range # <<>> <=> header.status = Status.PARTIAL_CONTENT
    /\ \A i \in DOMAIN header.content_range :
         LET part == header.content_range[i]
         IN 0 <= part.first /\ part.first <= part.last /\ part.last < part.of
    /\ header.content_length # Absent =>
         header.content_length = IF sender.fd THEN sender.remaining ELSE response.body
    /\ sender.fd => response.body = 0

\* Every open file has one owner, FileInfo or the connection, and when the
\* response is ready FileInfo has none: 304 closes it, 200 and 206 hand it over.
FileHasOneOwner ==
  /\ ~(info.fd /\ sender.fd)
  /\ open_files = IF info.fd \/ sender.fd THEN 1 ELSE 0
  /\ Answered => ~info.fd

\* The bytes of a file the Range header asks for.
Wanted(h, size) ==
  {i \in 0 .. size - 1 : CASE h.form = "suffix" -> i >= size - h.a
                           [] h.form = "from" -> i >= h.a
                           [] h.form = "span" -> h.a <= i /\ i <= h.b
                           [] OTHER -> FALSE}

\* What lies out of the root, by way of a link.
Outside(node) == node.kind # "none" /\ ~IsPrefix(Segments(ROOT), Segments(node.real))

\* What the server promises to say of a tree: what a link leads to out of the root,
\* links to nothing and special files are refused, a directory answers with its
\* index page or a listing (also one that cannot be read), a file by date and range.
Node(t) == IF t.at.kind = "dir" THEN t.index ELSE t.at
Forbidden(t) ==
  \/ Outside(t.at) \/ (t.at.kind = "dir" /\ t.index.kind = "file" /\ Outside(t.index))
  \/ t.at.kind = "none" /\ IsLink(t.at)
  \/ t.at.kind = "other"
Listed(t) == t.at.kind = "dir" /\ t.index.kind # "file"
Missing(t) == t.at.kind = "none" \/ ~Node(t).readable
Unchanged(t) == IfModifiedSince(request.lines) >= Node(t).mtime
Part(t) == Wanted(Header(request.lines, "range", NoHeader), Node(t).size)

Promised(t) ==
  CASE Forbidden(t) -> Status.FORBIDDEN
    [] ~Forbidden(t) /\ Listed(t) -> Status.OK
    [] ~Forbidden(t) /\ ~Listed(t) /\ Missing(t) -> Status.NOT_FOUND
    [] OTHER -> CASE Unchanged(t) -> Status.NOT_MODIFIED
                  [] ~Unchanged(t) /\ Part(t) # {} -> Status.PARTIAL_CONTENT
                  [] OTHER -> Status.OK

\* The promise that open does not keep: it verifies a link that is the last name of
\* the path, and serves what lies behind one among the directories on the way or
\* behind index.html.
Unchecked(t) ==
  \/ Outside(t.at) /\ ~IsLink(t.at)
  \/ t.at.kind = "dir" /\ t.index.kind = "file" /\ Outside(t.index)

Reached == request.lines # <<>> /\ Normalize(request.path).ok

\* A tree that holds still gets the answer it promises: the status, the time of
\* the file that is sent (not of a link to it or of the directory around it),
\* and the bytes the Range header asks for. This is for requests that end their
\* header with a line of no consequence. Trees in which open serves what lies out
\* of the root, against the promise, are excepted.
AnswersAsItStood ==
  Answered /\ Reached /\ Last(request.lines).name = "host" /\ RangeFits(request.lines) =>
    \A t \in seen : seen = {t} /\ ~Unchecked(t) =>
      /\ header.status = Promised(t)
      /\ HasFile => header.last_modified = Node(t).mtime
      /\ IsListing => listing.shown = IF t.at.readable THEN Visible(t.at) ELSE {}
      /\ sender.fd =>
           sender.first .. sender.first + sender.remaining - 1 =
             IF Part(t) # {} THEN Part(t) ELSE 0 .. Node(t).size - 1

\* However the tree changes between the system calls, every part of the answer
\* was true of some tree the request has seen: a refusal of one without the file,
\* with a special one or with one out of the root, a listing of one directory (or
\* nothing), the size and time of one regular file; only that these are one and
\* the same tree is not promised.
AnswersFromWhatWasSeen ==
  Answered /\ Reached =>
    \E t, u \in seen :
      CASE header.status = Status.FORBIDDEN -> t.at.kind \in {"none", "other"} \/ Outside(t.at)
        [] header.status = Status.NOT_FOUND -> t[place].kind = "none" \/ ~t[place].readable
        [] IsListing -> t.at.kind = "dir" /\ listing.shown \in {{}, Visible(u.at)}
        [] OTHER ->
             /\ t[place].kind = "file" /\ u[place].readable
             /\ header.last_modified = t[place].mtime
             /\ header.status = Status.OK => header.content_length = t[place].size
             /\ \A i \in DOMAIN header.content_range :
                  header.content_range[i].of = t[place].size
================================================================================
