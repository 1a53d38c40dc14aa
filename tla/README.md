# A verification of file_web_server in TLA+

`file_web_server` is a static file server in C++: one thread, one kqueue, a fixed
pool of connections, a small state machine per connection, HTTP/1.1 over plain
TCP or TLS on the same port. There are no locks and nothing is stored, so what is
hard in it is *order*: which events of a batch come first, what a connection is
when its event is finally looked at, what is left of a response after a short
write. This directory holds models of that part of the code, the TLC runs that
check them on small instances, and proofs, checked by TLAPS, for all sizes.

Line numbers refer to the files under `src/` of the repository.

## The system

| component | state | operations | models |
|---|---|---|---|
| connection pool, `core/connection_pool.h` | array of connections, stack of free indices, counter | `acquire`, `release` | `ConnectionPool`, abstract: `SlotAllocator` |
| event loop, `core/event_loop.cpp` | pending changes, events of a batch, head of the keep-alive list, `g_running` | `run`, `dispatch`, `handle_accept`, `handle_timer`, `process_connection`, `prepare_response`, `create_connection`, `destroy_connection`, `update_events` | `EventLoop`, `KeepAliveList`, `ConnectionTable`; `prepare_response` in `FileService`; abstract: `RecencyList` |
| connection, `core/connection.cpp` | state, descriptors, SSL object, buffers, send counters, time of last activity | `init`, `reset`, `close`, the `do_*` steps, `set_send_file` | `ConnectionControl` (which state follows), `ConnectionRead` (which bytes come in), `ConnectionSend` (which go out) |
| HTTP request, `http/http_request.cpp` | method, path, version, headers | `parse`, `parse_range`, `parse_if_modified_since`, `is_keep_alive` | `HttpRequest`, `HttpRange` |
| HTTP response, `http/http_response.cpp` | status, body, lengths, flags | `reset`, setters, `build_headers`, `error_body` | `HttpResponse` |
| file server, `server/file_server.cpp` | root directory | `normalize`, `open`, `list_directory`, `build_directory_html` | `UrlPath`, `FileService` |
| MIME table, `http/mime_types.h` | a constant table | binary search | `MimeTypes` |
| TLS context, `core/tls_context.h` | `SSL_CTX` | `load_certificate`, `new_ssl` | `TlsAvailable`, an `SSL_new` that may fail, records in `ConnectionRead` |
| `main`, command line, logging, version, tests, build files | | | end of `main` in `EventLoop`, the rest not modelled |

**How they interact.** `run()` hands the queued changes to `kevent`, gets a batch
of events and calls `dispatch` for one after the other. The `udata` of an event
is a bare `Connection*` (or the tag of the listener or the timer). Handlers call
`process_connection`, which runs one `do_*` step and then, without waiting, the
ones that can follow (handshake, parse, prepare, first write); it then updates
the keep-alive list by comparing the state before and after, and queues changes
for the `Want` the last step returned. `destroy_connection` unlinks, queues two
deletions, closes and releases the slot. A slot can be handed out again by an
accept in the same batch.

**What is hard.** The pointers in events and changes outlive what they point to;
the pool trusts its caller; a step in the middle of a chain may close the
connection; a change is submitted a round after it was queued, when descriptors
have been closed and reused; a failed deletion becomes an event itself and takes
room in the batch; the timer competes with other events; every write may be
short, in a state that the retry may not remember; a request may arrive in any
pieces, some of them held inside OpenSSL; the file tree may change between two
system calls that ask about the same path. `PROJECT.json` lists these
hazards line by line, with the properties that watch them.

**What makes each part correct.**
Pool: no slot handed out twice, none lost, the count is right, refusal only when
full. List: doubly linked, acyclic, exactly the connections in `KEEP_ALIVE`.
Loop: live connections, open descriptors, slots in use, registrations and
pointers agree with each other; it stops when it is told to; idle
connections are reaped. Sending: the client gets the header once, the announced
bytes in order, and no file stays open. Reading: the buffer is bounded, the end of
a head is found however it is cut, answers match requests, who was heard is not
reaped, and every request ends. Paths: nothing climbs out of the root, and a link
of a listing leads to the entry it names. Files: the header fits the body, one
owner per descriptor, and what an answer says of the tree was true of it.

## The modules

| module | what it is |
|---|---|
| `PoolSlots` | the slots of the pool; a `Connection*` is an index |
| `ConnectionPool` | `acquire` and `release` as written, `size_t` wrap-around and unchecked store included; `lent` is a ghost that remembers who holds what |
| `SlotAllocator` | what a pool promises: grant a slot nobody holds, take back one that is held |
| `KeepAliveList` | the intrusive list: three node members and a head, every pointer assignment of add and remove |
| `RecencyList` | the list as a sequence, latest arrival in front |
| `ConnectionControl` | no variables: each `do_*` method as the set of its outcomes (new control state, `Want`), and the chain of `process_connection` on top |
| `EventLoop` | extends the pool, the list and the control module with the kernel's registrations, the changelist, the batch and the loop's position |
| `HttpRange` | `parse_range` as a function |
| `ConnectionSend` | one connection and its responses, byte by byte: counters, files, chunks, and what the client has received |
| `ConnectionTable` | pool and list used together, as the loop may use them: open, refuse, idle, busy, destroy |
| `ConnectionRead` | the read side of one connection: a client, its clock, the socket, OpenSSL and `read_buf_` as intervals of one stream |
| `UrlPath` | `normalize`, `is_within_root`, `url_encode_path` and the links of a listing; what a client makes of a link; reference definitions |
| `MimeTypes` | the extension table by the order of its rows, and `std::lower_bound` on it |
| `HttpRequest` | `parse` on header lines, `is_keep_alive`, dates, and `Range` numbers with the width of `off_t` |
| `HttpResponse` | the fields of a response, and the header `build_headers` makes of them |
| `FileService` | one request from its head to its response header, one system call per step, in a tree that others change |
| `MC*` | instances for TLC (`MCEventLoop` declares the descriptors interchangeable; the liveness run does not use that) |
| `ConnectionPoolProofs`, `KeepAliveListProofs`, `ConnectionTableProofs`, `EventLoopProofs`, `ConnectionSendProofs`, `ConnectionReadProofs`, `FileServiceProofs` | theorems about the module each is named for |
| `SetInduction` | induction over the naturals in the form the provers can use |

How they build on each other: `ConnectionTable` extends `ConnectionPool` and
`KeepAliveList`; `EventLoop` extends it with `ConnectionControl`; `ConnectionSend`
uses `HttpRange`; `FileService` extends `HttpRequest` (and so `HttpRange`),
`HttpResponse`, `MimeTypes` and `UrlPath`. `ConnectionControl`, `ConnectionRead`,
`ConnectionSend` and `FileService` look at the same connection from four sides:
each keeps one concern in detail and the others as outcomes, because the product
of them is out of TLC's reach.

### EventLoop and the code

One action is one step of the thread between two points where the environment
can matter. `pc` says where the thread is:

| `pc` | code | actions |
|---|---|---|
| `check` | `while (g_running)` | `TestRunning` |
| `submit` | the first half of `kevent`: one change after the other | `ApplyChange`, `RejectChange`, `RejectWithoutRoom`, `Submitted` |
| `wait` | the second half of `kevent`: any set of ready events in any order | `Collect`, `ReturnEvents` |
| `dispatch` | the loop over `events_` and the branches of `dispatch` | `DispatchNothing`, `DispatchGone`, `DispatchListener`, `DispatchTimer`, `DispatchConnection`, `BatchDone` |
| `accept` | `handle_accept`, one connection per step | `AcceptConnection`, `AcceptNone`, `AcceptRefused` |
| `sweep` | `handle_timer`, one node per step | `SweepExpired`, `SweepKept`, `SweepDone` |
| `stopped` | `run` returned | `Stopped` |
| `crashed` | `SSL_accept(nullptr)` brought the process down | `DispatchCrash`, then `Stopped` |

`DispatchConnection` is the whole of `process_connection`: it picks an outcome of
`ConnectionControl!Died` or `Carried`, updates the list and queues the changes.
The kernel's part is external code modelled from how `run` uses it: a change on a
closed descriptor, or a deletion of something that is not registered, becomes an
`EV_ERROR` event with the `udata` of the change; if no room is left for it the
call fails; errors are returned before ready events are looked for; `close` drops
the registrations of a descriptor.

When `SSL_new` fails, `process_connection` calls `do_tls_accept` all the same, and
that hands `nullptr` to `SSL_accept`. This is undefined as far as the code goes:
OpenSSL before 3.2 dereferences the pointer, later versions report an error, and
the build asks for no version. Both outcomes are in the model: `DoTlsAccept` is the
error, `DispatchCrash` the crash.

`crowd` is a ghost: how many connections were open when the batch at hand came. It
is there to say what it takes to fill `events_`.

`last_active_` is one bit here (`idle`), and `TimePasses` sets it only in
`KEEP_ALIVE` and only while the loop waits or sweeps: the sweep alone reads the
clock, so a connection that has been silent since long before it entered the list
is one that ages during that sweep. The clock itself is in `ConnectionRead`.

`event_loop` checks `TableSpec` as a property: every step of the loop is a step of
`ConnectionTable` or leaves slots and links alone. So what `connection_table`
shows of four slots is about the loop, and the loop is not asked again.

### ConnectionRead and the code

A byte is its position in what the client writes. Four numbers cut the stream:
up to `base` it was dropped, up to `got` it is in `read_buf_`, up to `inside` it is
decrypted but still in OpenSSL, up to `sent` it is in the socket. One `do_read`
is one of `ReadPart`, `ReadTooLarge`, `ReadHead` and `ReadNothing`: `reset()` first
when the state is `KEEP_ALIVE`, at most `READ_SIZE` bytes (on TLS the rest of the
current record before the next), the search for the blank line in the whole
buffer, then the limit. `ReadHead` goes through `do_parse`. The event that starts
a read looks at the socket only (`sent > inside`), as kqueue does. `PeerGone` is
`EV_EOF` or a read of 0 bytes, `Reap` is the sweep, `Tick` the clock. The client asks,
sends in pieces of any size and hangs up at any time, but waits for its answer
before it asks again.

### ConnectionSend and the code

`Receive`, `Refuse` and the three `Prepare` actions set what `do_parse` and
`prepare_response` set; `SendHeaders*` is `do_send_headers`, `SendPage`,
`FileDone`, `SendFile*`, `SendChunk` and `ChunkMissing` are the branches of
`do_send_body` and its two variants, with every length the system call may take.
A byte of a body is its offset in the file or page, so `wire` shows a gap, a
repetition or a wrong start at once. `ParseAgain` is the event that finds the
connection still in `PARSING`, because the first write of the header was short: the
same buffer is parsed and the path opened again, and open may find anything now:
another file, another length, a page, a 304. The file of the earlier attempt stays
in `file_fd_`. `attempt` remembers what happened: `first`, `again`, or `stale` when
a page or a 304 met such a file. The 501 branch of `prepare_response` has no
action: no call reaches it, because the caller reads `UNKNOWN` as "not parsed yet"
(see the findings).

Constants that switch behaviour off, to state what holds without it:

* `InlineSendMayFail`: the first write after parsing meets a dead socket. The code
  does not handle it (finding `slot_leak`), so one promise is checked without it.
* `ExpiryRace`: a connection may expire while an event or registration of its own
  is under way in the same round (finding `double_release`). The passing runs
  check that this is the *only* way to break the pool's contract.
* `FilesShrink`: another process truncates a file while it is sent.

### FileService and the code

`pc` is the next system call; every step is what the code does with its answer.

| `pc` | code in `file_server.cpp` and `event_loop.cpp` | action |
|---|---|---|
| `idle` | `do_parse`; `prepare_response` up to `open`; `normalize` | `Take` |
| `lstat` | the first look at the path | `LookAt` |
| `realpath` | of a link: where it leads, and `is_within_root` | `FollowLink` |
| `stat` | what the link leads to | `StatTarget` |
| `index` | of a directory: `stat` of `index.html` | `LookAtIndex` |
| `opendir` | `list_directory`, `build_directory_html` and the page | `ListDirectory` |
| `open` | `::open` and the fields of `FileInfo` | `Open` |
| `respond` | date, range, `set_send_file`, `prepare_headers` | `RespondNotModified`, `RespondFile` |
| `answered` | the response goes out (`ConnectionSend`) | `Sent` |

The file tree is what these calls can tell of it: what stands at the path and
what stands at its `index.html`, each a file, a directory with entries, something
special or nothing. A node says whether its last name is a link, which is all that
`lstat` can tell, and the path `realpath` returns for it, which lies out of the root
if any name on the way is a link that leads there. `Change` replaces it by any other tree
between two calls; `seen` remembers the trees. `FileInfo` and the connection each
have a descriptor or none, and the kernel counts what is open. `Sent` forgets the
request, because nothing of it but the fields of the response outlives `reset`;
those stay, so that `ResetResponse` is tested by the next request.

A path is a sequence of characters, where `n` is any plain one, `c` any control
character other than tab (which `normalize` lets through), and an escape is one element. A content type is its row in the table. A
header line is a name and what its text means.

## The runs

| run | instance | shows |
|---|---|---|
| `connection_table` | 4 slots, all states | pool and list are exact, no free slot is linked, and they implement `SlotAllocator` and `RecencyList` |
| `event_loop` | 2 slots, 3 descriptors, batches of up to 3, plaintext and TLS | pool, list, descriptors, registrations and pointers stay consistent; a batch names a connection once; no slot is lost; TLS until closed; without a signal the loop stops only after a crowded round; it implements `TableSpec` |
| `loop_liveness` | 2 slots, 2 descriptors, batches of 2, inline failures, fairness | a signal ends the loop; idle connections are reaped |
| `connection_send` | files of 0, 1, 4 bytes, pages of 1 and 3, all `Range` forms over 1 and 2, chunks of 2, answers started again up to twice | counters in range; the body in order, but for a page or 304 that meets a stale file; short only by `sendfile` on a shrinking file; a descriptor lost only by a restart, a header byte repeated only after one |
| `connection_read` | two requests per connection, heads of 3, 4, 8, 9 bytes, reads of 3, a limit of 5, plaintext and TLS, fairness | the buffer is bounded, a blank line is found however it is cut, answers match requests unless one was split on a reused connection, who was heard is not reaped, every request ends but for the named cases |
| `file_service` | four families of cases, see below | paths, links, types and `Connection` are what they should be; header and body fit; one owner per file; the answer is right in a still tree and true of a tree it has seen in a moving one |

Six runs expect a violation: each checks one sentence of the repository's own
documentation or comments that the code does not keep. `PROJECT.json` quotes the
sentence and tells the trace.

| run | what TLC finds |
|---|---|
| `double_release` | an expired connection with an event under way is destroyed twice |
| `slot_leak` | a connection closed by the inline write keeps its slot for ever |
| `fragment_lost` | a request that reaches a reused connection in two reads loses its beginning |
| `close_ignored` | `Connection: close` is announced and not done |
| `stale_file` | after a short first write the answer starts again; if it is a page or a 304 now, bytes of the file opened first follow its header |
| `events_full` | two connections that end in one round queue four changes that fail, `kevent` has room for three, and the loop ends without a signal |

Findings that need no run of their own, because a property of a passing run, or an
action of the model, says exactly what the code does instead:

* an unsupported method is never answered (`EveryRequestEnds` excepts it);
* `SSL_accept(nullptr)` after a failed `SSL_new` (`DispatchCrash`);
* links out of the root are served when they stand among the directories on the way,
  or at `index.html`: open resolves the path only if its last name is a link. The
  README of the server and `file_server.h` promise more. `Forbidden` states that
  promise, and `AnswersAsItStood` excepts the trees of `Unchecked`; without the
  exception TLC finds it violated;
* `.avi` is not found in the table, since `.avif` stands before it
  (`TypeIsFoundInPlace`);
* a directory that cannot be read is answered with 200 and an empty listing, where
  the design note says 403 (`AnswersAsItStood`);
* the links of a listing below the root lead elsewhere when the page was asked for
  without a slash at its end (`LinksLead`);
* the last header line of every request is ignored (`KeepAliveAsAsked`).

### Bounds, and why they are enough

* **Slots.** Two slots are the least for one connection to be destroyed and its
  slot given to another while a third descriptor waits for a full pool; three
  descriptors make reuse of a number and refusal both happen. `connection_table`
  has four, so removal of the first, an inner, the last and the only node all
  occur, and the free stack takes every order it can.
* **`MAX_EVENTS`.** The program has fewer events than twice its connections (1024 and
  16384), and so have the instances: three in `event_loop` and `events_full`, where
  two connections can make four errors in a round, so that `kevent` may run out of
  room (`RejectWithoutRoom`) and, with one connection open, may not. In
  `loop_liveness` batches hold two events, so the timer competes for room.
* **Sizes.** Chunks of two bytes split a file of four into two full chunks and
  leave a partial one after a range; ranges over 1 and 2 begin inside a file, at its
  end and beyond it, and end inside, at and beyond it, for files of 0, 1 and 4
  bytes. The header has two bytes, so a write can be empty, short or complete.
* **`RESTART_BOUND`.** `ParseAgain` can go on for ever (each round repeats header
  bytes or opens a file); the model stops it after two in the life of a slot, so that a
  file can be overwritten by a file and then met by a page. Nothing else is bounded:
  there are no state constraints.
* **Reading** (`connection_read`). Reads of three bytes and a blank line of two cut
  that line in every way. With a limit of five, heads of 3 and 4 bytes fit one or two
  reads, one of 8 is accepted beyond the limit only if one read takes it from five bytes to its end, one of 9
  never is. Records of up to four bytes are larger than a read, so a rest stays in
  OpenSSL. Two requests are the least for a reused connection. Ages beyond the
  timeout are alike.
* **Trees and requests** (`file_service`). Four families vary one thing each: every
  tree, changing up to twice under one request (plain, dated, ranged); every path
  of up to three of ten pieces, and of up to five of three that go down and up;
  every list of up to three header lines over both HTTP versions and files of 0 and
  3 bytes; every extension of the table and none. Two changes are enough to show three
  different trees to a request. `OFF_MAX` is 3, so a number beyond `off_t` occurs.
* **`SIZE_MAX`** is the largest `size_t`; it only has to be larger than the pool.

The bounds are for TLC. The theorems below have none.

### Fairness

`FairSpec` assumes that the thread takes a step when it can (`WF_vars(Thread)`):
it is the only thread, and every call in it is non-blocking but `kevent`. It also
assumes that a periodic timer that can be returned again and again is returned in
the end (`SF_vars`): a batch may be full without it, but kqueue moves what it has
returned to the end of its queue. Nothing is assumed of clients, and a signal
need not come. Without the timer `SignalStopsLoop` would be false: a signal
between the test of the flag and `kevent` interrupts nothing, and it is the timer
that wakes the loop, up to a second later.

`ConnectionRead!FairSpec` assumes weak fairness of four steps. `Detect`, `Read` and
`PeerGone` answer level-triggered events: kqueue returns them again until the socket
is empty or closed, and `event_loop` shows that a live connection is never deaf.
`Answered` says that the client takes its answer; without it nothing could end, for
the code has no timeout there. Clients need not ask, send on or hang up, and the
clock need not run.

## The theorems

All hold for every value of the constants that satisfies the assumptions named in
the modules: `PoolAssumption` (at least one slot and a `size_t` that can count
them); `LoopAssumption` (room for one event, a value that is no descriptor);
`ControlAssumption` (switches are Booleans); `SendAssumption` (a header and a chunk
of at least one byte, sizes that are natural numbers, pages that are not empty);
`ReadAssumption` (reads, limit and records of at least one byte, heads longer than
their blank line); `OffAssumption`, `PageAssumption`; `RootAssumption` (the root is
a path as `realpath` returns it, and not `/`); and `CasesAssumption` (sizes and
times in the tree are natural numbers, links lead to absolute paths without empty
or dotted names, the name of an entry is not empty and holds no slash; a request
asks for a path made of the characters and escapes `UrlPath` tells apart, for a
type whose extension has a place in the order of strings, has a header name at most
once, and what stands in a date or range line is a date or a range). The last two
are what `realpath`, `stat`, `readdir` and `HttpRequest::parse` return.

* **Pool** (`ConnectionPoolProofs`). `PoolTypeCorrect`, `FreeStackCorrect`,
  `ActiveCountCorrect`, `RefusalCorrect`, and `PoolImplementsAllocator`: every
  step of the array and the stack is a step of `SlotAllocator` or changes
  nothing it sees. The inductive invariant is the conjunction of types, exact
  stack and exact count. They need each other: that `release` does not wrap needs
  the count (`lent` is not empty, so the head is positive), that the stack stays
  exact needs that the head is inside it, and that `acquire` grants a free slot
  needs the exact stack.
* **List** (`KeepAliveListProofs`). `LinksAlwaysAgree`: types and agreement of
  the two directions are inductive together. That a walk from the head reaches
  every member (`WalkAlwaysComplete`) does not follow from that: a separate cycle
  also agrees with itself. `ChainInv` adds that *some* sequence without repetition
  has exactly the members, each linked to its neighbours; adding a node puts it in
  front of that sequence, removing one takes it out. From a chain, what the walk
  returns after `n` steps is found by induction on `n`, and so the walk is the
  chain. `ListImplementsRecency` follows: the walk is the refinement mapping.
* **Table** (`ConnectionTableProofs`). `TableImplementsPool`, `TableImplementsList`:
  the order in which the loop uses pool and list keeps the contract of each (what
  is released was lent, what is added is outside, what is removed is inside), so
  their theorems hold of both together (`TablePoolExact`, `TableListComplete`,
  `TableImplementsBoth`). `MembersAlwaysLent` is part of its invariant: it is why a
  slot that comes from the free stack is not in the list.
* **Event loop** (`EventLoopProofs`), all under `~ExpiryRace`. `LoopInv` says of
  every queue what it may hold. `StoreInv`: connections, descriptors and slots
  agree. `QueueInv`: with the queued changes applied in their order a live
  connection has exactly one registration (`NeverDeaf`), and every registration,
  present or queued, names the connection that owns its descriptor now.
  `BatchFresh`: an event names a live connection, no connection twice, and none
  with a registration still queued (`NamedOnce`). `RoundInv`: what the position in
  the round adds, such as an empty batch before `kevent` returns. The parts carry
  each other round the loop: a batch names a connection once *because* it had one
  registration; the handler may destroy it *because* nothing else names it; what it
  queues is in order *because* it was live. That is the argument the code makes
  nowhere, and an expiry in the sweep breaks it exactly at `NamedOnce`: the reaped
  connection may be in the rest of the batch. Hence `~ExpiryRace`, and the run
  `double_release` shows that the condition is needed. From `LoopInv`:
  `LoopTypesCorrect`, `DescriptorsAlwaysOwned`, `ListAlwaysFollowsState`,
  `PointersAlwaysFresh`, `NeverGoesDeaf`, `TlsStaysUntilClosed`;
  `SlotsAlwaysAccounted` needs `~InlineSendMayFail` as well
  (finding `slot_leak`). The changelist is a sequence in which a later change
  overrides an earlier one, so most of the lemmas are about what stays registered
  when a change is appended or applied (`RegAppend`, `RegTail`).
  `LoopImplementsTable` is the refinement that the run checks, and with it
  `LoopImplementsBoth` and `ReleasesAreLent`: without the race
  `destroy_connection` never releases a slot that is not lent.
  `RoundErrorsAreBounded` counts the changes that fail in a round: at most two for
  each connection that was open when the batch came (`crowd`). `BoundInv` says that
  the errors so far, the deletions queued, and two for every live connection that no
  queued change names are together no more than that. An accept takes a free slot but queues a registration with it, and whatever
  the handlers and the sweep do to a connection is done once and queues at most two
  changes that fail. From it `StopsOnlyWhenCrowded`: `run` gives up without a signal
  only if twice the crowd exceeds `MAX_EVENTS`, for all sizes, so in the program only
  after a round that found more than 512 connections open. That it then may is what
  `events_full` shows.
* **Reading** (`ConnectionReadProofs`). `BufferStaysBounded`,
  `NeverWaitsOnAWholeHead`, `WholeRequestsAnswered`, `NeverReapsTheHeard`.
  `ReadInv` adds where the heads of the stream lie, that the records of OpenSSL
  cover what it holds, that one request is under way at a time, and in each state
  how far the stream was consumed: up to the start of the head that is being read,
  as long as no request was split. That a whole head cannot be overlooked needs that the
  buffer is searched from its beginning, not from the bytes just read.
* **Sending** (`ConnectionSendProofs`). All five hold without any restriction on the
  constants: short first writes, answers started again with another file, page or
  304, and files that shrink are in them. `BodyAlwaysInOrder` and `SendTypeCorrect`
  rest on `SendInv`, which adds which
  control places exist (`Places`), that no body byte is out before the header
  is, and what the counters mean: for a page, `body_sent` is what the client has;
  for a file, `send_offset` and `send_remaining` split the range at the chunk
  boundary, and on TLS the client has `chunk_sent` bytes beyond it. The last
  part is the heart: the code moves the offset only when a chunk is through, so
  the offset alone does not say what was sent. What a page or a 304 sends that met
  the file of an earlier attempt is excepted (`attempt = "stale"`); the run
  `stale_file` shows that it has to be. `FilesNeverLeak` and `HeaderNeverRepeats` name
  the harm of a restart: one descriptor for each, and the header bytes again; nothing
  else does either. For `EndsShortOnlyBySendfile`, `EndInv` adds
  that a connection in `SENDING_BODY` has its whole header out.
* **Files** (`FileServiceProofs`). The tree may become anything between two system
  calls, so the code never knows what is there, only what was. `FileInv` says for
  every place in `open` and `prepare_response` which trees the request must have
  seen to get there (`FoundInv`), what the response is still made of (`AskedInv`:
  nothing but what `reset` and `do_parse` left), and, when it is ready, which of six
  answers it is and which trees justify it (`AnsweredInv`). From it
  `AlwaysAnswersFromWhatWasSeen`, for every sequence of changes; and when the
  request has seen one tree only, all those trees are that one, and the answer is
  what it promises (`AlwaysAnswersAsItStood`), a refusal of what lies out of the root
  included, `Unchecked` trees excepted. `HeaderAlwaysFitsBody`,
  `FileAlwaysHasOneOwner`, `FileTypesCorrect` and `KeepAliveAlwaysAsAsked` use the
  same invariant with lemmas about the functions: `RangeIsWanted` and
  `IntervalIsPart` (`parse_range` returns exactly the bytes asked for),
  `FrontLines` and `LookUp` (what the lost last line takes away).
  `WithinRootIsBelow` is about `is_within_root` alone: comparing characters and then
  looking at one more agrees with comparing names, for every root but `/`. Its
  proof counts the beginnings of the names from the left.

  Three theorems are about every request alone; `RequestInvariance` carries what the
  assumption says of a case to each state. `NormalizeAlwaysBalanced`: the loop of
  `normalize` and the balance of names and ".." agree for every path. By induction
  on the segments read, the depth of the walk is the number of names less the number
  of "..", a name stays if and only if the walk has never been above it since, and the
  name that stays at depth `m` is the `m`-th of the result. `TypeIsAlwaysFoundInPlace`:
  the bracket of the binary search (what is left of it is smaller, what is right of
  it is not) is an invariant also of the table as it stands, which is out of order at
  one key; for that key (`.avif`) the proof follows the seven probes one by one.
  `LinksAlwaysLead`: decoding takes back what encoding did (`EncodedName`, `Decodes`,
  `DecodesJoined`), a text that is longer by a name after a slash has one piece more
  (`NameAdded`), a segment more is a step more (`WalkAppend`); so a link to a name
  normalizes to the directory and the name if and only if its base normalizes to the
  directory (`LinkNormalized`). What is left is where the base of a relative link is
  cut. The parent link is the same lemma read from the end (`TakenBack`).

Induction over data comes in by `NatSetInduction`: the library's induction theorems
take an operator as parameter, which no installed prover can instantiate, but for
the *set* of numbers that have a property the same argument is first-order.

What stays with TLC are the liveness properties `SignalStopsLoop`, `IdleIsReaped`
and `EveryRequestEnds`: fairness is out of reach of the prover. The invariants and
action properties of the passing runs are all proved, those of the loop under
`~ExpiryRace` (`double_release` shows that it is needed) and one under
`~InlineSendMayFail` as well (`slot_leak`).

## Not modelled, and why

* Text: the request line as words, lower-casing of names, lines without a colon, a
  header name that occurs twice; `Date`, reason phrases, error pages; the layout of
  a listing, its order, sizes, dates and HTML escaping.
* Pipelining: the client of `ConnectionRead` waits for its answer.
* The root directory `/` (`RootAssumption`): `is_within_root` would refuse every link
  there, and no document speaks of such a root.
* A timeout outside `KEEP_ALIVE`: the code has none, so there is nothing to check
  about a client that stalls in the middle of a request or an answer.
* Failure of `fcntl`, `setsockopt`, `kqueue()` and memory allocation; start-up in
  `main`; loading of certificates; the command line; logging; build files; the
  certificate script. They are calls made once, or change no state that is read later.
* Threads: there are none. Persistence: there is none, so no crash recovery.

## Plan

Done, in this order: pool and its abstract allocator; keep-alive list; control
state machine and event loop; ranges and sending; the proofs of pool, list and
sending; pool and list as one table, implemented by the loop; reading; paths, MIME
table, requests, responses and the file service; the proofs of the walk along the
list and of `RecencyList`, of the table, of the event loop and its refinement, of
reading and of the file service; the bound on the errors of a round and what it
takes to fill `MAX_EVENTS`; the proofs about paths, links and the MIME table.

Left: a proof, by a measure that falls with each step, that a request which is
answered ends, should the prover come to handle fairness; the text of a request line
and of the header names, if the parser grows cases of its own.
