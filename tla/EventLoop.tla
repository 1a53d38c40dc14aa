------------------------------- MODULE EventLoop -------------------------------
(* core/event_loop.cpp: the single thread that submits kqueue changes, waits,  *)
(* and dispatches the events of a batch one after the other, composed with the *)
(* connection pool, the keep-alive list and the connections' state machine.    *)
(* kqueue is the environment: it applies the changes one by one, answers those *)
(* that fail with EV_ERROR events, drops the registrations of a socket that is *)
(* closed, and otherwise returns ready events in any order.                    *)
EXTENDS ConnectionTable, ConnectionControl, Sequences

CONSTANTS
  Fds,         \* descriptors that accept() can return
  NoFd,        \* -1
  MAX_EVENTS,  \* EventLoop::MAX_EVENTS, the room for events of one kevent call
  ExpiryRace   \* a connection may expire while an event or a registration of
               \* its own is still under way in the same round of the loop

ASSUME LoopAssumption ==
  /\ NoFd \notin Fds
  /\ MAX_EVENTS \in Nat \ {0}
  /\ ExpiryRace \in BOOLEAN

VARIABLES
  conn,        \* connections_: the control state of each slot
  fd_,         \* Connection::fd_
  open_fds,    \* kernel: the open sockets
  kq,          \* kernel: the udata registered for a descriptor and a filter
  changelist,  \* changelist_
  events,      \* the rest of events_[0 .. n), the next one in front
  pc,          \* where the loop is
  cursor,      \* the next connection that handle_timer looks at
  g_running,   \* cleared by handle_signal
  crowd        \* ghost: how many connections were live when kevent last returned

sockVars == <<conn, fd_, open_fds, kq>>
loopVars == <<changelist, events, pc, cursor, g_running, crowd>>
vars == <<poolVars, listVars, sockVars, loopVars>>

--------------------------------------------------------------------------------
\* udata of the two events that belong to no connection.
Listener == -2
Timer    == -3

Filters == {"READ", "WRITE"}

Change(op, fd, filter, udata) ==
  [op |-> op, fd |-> fd, filter |-> filter, udata |-> udata]

Event(flag, fd, filter, udata) ==
  [flag |-> flag, fd |-> fd, filter |-> filter, udata |-> udata]

TagEvent(tag) == Event("none", NoFd, "READ", tag)

\* add_listener submitted the listener and the timer; run() starts.
Init ==
  /\ PoolInit
  /\ ListInit
  /\ conn = [c \in Slots |-> ClosedConn]
  /\ fd_ = [c \in Slots |-> NoFd]
  /\ open_fds = {}
  /\ kq = [f \in Fds |-> [x \in Filters |-> NoConn]]
  /\ changelist = <<>>
  /\ events = <<>>
  /\ pc = "check"
  /\ cursor = NoConn
  /\ g_running = TRUE
  /\ crowd = 0

--------------------------------------------------------------------------------
(* Helpers of the loop.                                                        *)

\* Mutant: the filter that is not asked for stays registered.
WantChangesAdding(c, f, want) ==
  IF want = "NONE" THEN <<>> ELSE <<Change("ADD", f, want, c)>>

\* update_events: the changes for a Want.
WantChanges(c, f, want) ==
  CASE want = "READ"  -> <<Change("ADD", f, "READ", c), Change("DELETE", f, "WRITE", NoConn)>>
    [] want = "WRITE" -> <<Change("DELETE", f, "READ", NoConn), Change("ADD", f, "WRITE", c)>>
    [] want = "NONE"  -> <<>>

DeleteBoth(f) ==
  <<Change("DELETE", f, "READ", NoConn), Change("DELETE", f, "WRITE", NoConn)>>

\* Mutant: the member keeps the number of the closed descriptor.
CloseKeepingNumber(c) ==
  IF conn[c].state = "CLOSED"
  THEN UNCHANGED sockVars
  ELSE /\ conn' = [conn EXCEPT ![c] = ClosedConn]
       /\ open_fds' = open_fds \ {fd_[c]}
       /\ kq' = [kq EXCEPT ![fd_[c]] = [x \in Filters |-> NoConn]]
       /\ UNCHANGED fd_

\* Mutant: shutdown without close, so the kernel keeps the registrations.
CloseByShutdown(c) ==
  IF conn[c].state = "CLOSED"
  THEN UNCHANGED sockVars
  ELSE /\ conn' = [conn EXCEPT ![c] = ClosedConn]
       /\ fd_' = [fd_ EXCEPT ![c] = NoFd]
       /\ UNCHANGED <<open_fds, kq>>

\* Connection::close: idempotent, and the kernel forgets a closed descriptor.
Close(c) ==
  IF conn[c].state = "CLOSED"
  THEN UNCHANGED sockVars
  ELSE /\ conn' = [conn EXCEPT ![c] = ClosedConn]
       /\ fd_' = [fd_ EXCEPT ![c] = NoFd]
       /\ open_fds' = open_fds \ {fd_[c]}
       /\ kq' = [kq EXCEPT ![fd_[c]] = [x \in Filters |-> NoConn]]

\* Mutant: an expired connection stays in the keep-alive list.
DestroyLinked(c) ==
  /\ changelist' = IF fd_[c] = NoFd THEN changelist ELSE changelist \o DeleteBoth(fd_[c])
  /\ Close(c)
  /\ Release(c)
  /\ UNCHANGED listVars

\* Mutant: the pool does not get the slot back.
DestroyUnreleased(c) ==
  /\ RemoveFromKeepAliveList(c)
  /\ changelist' = IF fd_[c] = NoFd THEN changelist ELSE changelist \o DeleteBoth(fd_[c])
  /\ Close(c)
  /\ UNCHANGED poolVars

\* Mutant: the deletions are queued once per filter and direction.
DestroyDeletingTwice(c) ==
  /\ RemoveFromKeepAliveList(c)
  /\ changelist' = IF fd_[c] = NoFd THEN changelist
                   ELSE changelist \o DeleteBoth(fd_[c]) \o DeleteBoth(fd_[c])
  /\ Close(c)
  /\ Release(c)

\* destroy_connection.
DestroyConnection(c) ==
  /\ RemoveFromKeepAliveList(c)
  /\ changelist' = IF fd_[c] = NoFd THEN changelist ELSE changelist \o DeleteBoth(fd_[c])
  /\ Close(c)
  /\ Release(c)

\* process_connection found the connection closed by its first step: the socket
\* is gone already when destroy_connection runs, so no change is queued.
DestroyClosed(c) ==
  /\ RemoveFromKeepAliveList(c)
  /\ Close(c)
  /\ Release(c)
  /\ UNCHANGED changelist

\* Mutant: a connection that becomes idle is not linked.
SyncForgetsArrival(c, state) ==
  IF conn[c].state = "KEEP_ALIVE" /\ state # "KEEP_ALIVE"
  THEN RemoveFromKeepAliveList(c) ELSE UNCHANGED listVars

\* The list follows the state: linked on entering KEEP_ALIVE, unlinked on
\* leaving it.
SyncKeepAliveList(c, state) ==
  CASE conn[c].state # "KEEP_ALIVE" /\ state = "KEEP_ALIVE" -> AddToKeepAliveList(c)
    [] conn[c].state = "KEEP_ALIVE" /\ state # "KEEP_ALIVE" -> RemoveFromKeepAliveList(c)
    [] OTHER -> UNCHANGED listVars

\* create_connection on the slot s that acquire() returned.
CreateConnection(s, f) ==
  /\ Acquire(s)
  /\ conn' = [conn EXCEPT ![s] = AcceptedConn]
  /\ fd_' = [fd_ EXCEPT ![s] = f]
  /\ open_fds' = open_fds \union {f}
  /\ ClearListNode(s)
  /\ changelist' = Append(changelist, Change("ADD", f, "READ", s))

--------------------------------------------------------------------------------
(* One turn of the loop in EventLoop::run: check, submit, wait, dispatch.      *)

\* Mutant: the flag is not tested.
TestNothing ==
  /\ pc = "check"
  /\ pc' = "submit"
  /\ UNCHANGED <<poolVars, listVars, sockVars, changelist, events, cursor, g_running, crowd>>

\* while (g_running)
TestRunning ==
  /\ pc = "check"
  /\ pc' = IF g_running THEN "submit" ELSE "stopped"
  /\ UNCHANGED <<poolVars, listVars, sockVars, changelist, events, cursor, g_running, crowd>>

\* kevent can carry out a change: the descriptor is open and, for EV_DELETE,
\* there is something to delete.
Applies(ch) ==
  /\ ch.fd \in open_fds
  /\ ch.op = "DELETE" => kq[ch.fd][ch.filter] # NoConn

ApplyChange ==
  /\ pc = "submit" /\ changelist # <<>> /\ Applies(Head(changelist))
  /\ LET ch == Head(changelist)
     IN kq' = [kq EXCEPT ![ch.fd][ch.filter] = ch.udata]
  /\ changelist' = Tail(changelist)
  /\ UNCHANGED <<poolVars, listVars, conn, fd_, open_fds, events, pc, cursor, g_running, crowd>>

\* A change that fails becomes an EV_ERROR event with the udata of the change.
RejectChange ==
  /\ pc = "submit" /\ changelist # <<>> /\ ~Applies(Head(changelist))
  /\ Len(events) < MAX_EVENTS
  /\ LET ch == Head(changelist)
     IN events' = Append(events, Event("ERROR", ch.fd, ch.filter, ch.udata))
  /\ changelist' = Tail(changelist)
  /\ UNCHANGED <<poolVars, listVars, sockVars, pc, cursor, g_running, crowd>>

\* ... unless the event list is full: kevent returns -1 and run() breaks.
RejectWithoutRoom ==
  /\ pc = "submit" /\ changelist # <<>> /\ ~Applies(Head(changelist))
  /\ Len(events) = MAX_EVENTS
  /\ pc' = "stopped"
  /\ changelist' = <<>>
  /\ events' = <<>>
  /\ UNCHANGED <<poolVars, listVars, sockVars, cursor, g_running, crowd>>

Live == {c \in Slots : conn[c].state # "CLOSED"}

\* Errors are returned without looking for ready events.
Submitted ==
  /\ pc = "submit" /\ changelist = <<>>
  /\ pc' = IF events = <<>> THEN "wait" ELSE "dispatch"
  /\ crowd' = IF events = <<>> THEN crowd ELSE Cardinality(Live)
  /\ UNCHANGED <<poolVars, listVars, sockVars, changelist, events, cursor, g_running>>

\* Ready events: the listener, the timer, and each registration, with EV_EOF
\* when the peer is gone.
ReadyEvents ==
  {TagEvent(Listener), TagEvent(Timer)} \union
  {Event(flag, r[1], r[2], kq[r[1]][r[2]]) :
     flag \in {"none", "EOF"},
     r \in {q \in Fds \X Filters : kq[q[1]][q[2]] # NoConn}}

SameKnote(e, d) == e.fd = d.fd /\ e.filter = d.filter /\ e.udata = d.udata

Collect(e) ==
  /\ pc = "wait" /\ Len(events) < MAX_EVENTS
  /\ \A i \in 1 .. Len(events) : ~SameKnote(events[i], e)
  /\ events' = Append(events, e)
  /\ UNCHANGED <<poolVars, listVars, sockVars, changelist, pc, cursor, g_running, crowd>>

ReturnEvents ==
  /\ pc = "wait" /\ events # <<>>
  /\ pc' = "dispatch"
  /\ crowd' = Cardinality(Live)
  /\ UNCHANGED <<poolVars, listVars, sockVars, changelist, events, cursor, g_running>>

BatchDone ==
  /\ pc = "dispatch" /\ events = <<>>
  /\ pc' = "check"
  /\ UNCHANGED <<poolVars, listVars, sockVars, changelist, events, cursor, g_running, crowd>>

--------------------------------------------------------------------------------
(* EventLoop::dispatch, one action per branch.                                 *)

\* The event at hand.
ev == Head(events)

Dispatching == pc = "dispatch" /\ events # <<>> /\ events' = Tail(events)

\* EV_ERROR of a failed EV_DELETE: its udata is nullptr.
DispatchNothing ==
  /\ Dispatching
  /\ ev.flag = "ERROR" /\ ev.udata = NoConn
  /\ UNCHANGED <<poolVars, listVars, sockVars, changelist, pc, cursor, g_running, crowd>>

\* EV_ERROR or EV_EOF of a connection.
DispatchGone ==
  /\ Dispatching
  /\ ev.flag \in {"ERROR", "EOF"} /\ ev.udata \in Slots
  /\ DestroyConnection(ev.udata)
  /\ UNCHANGED <<pc, cursor, g_running, crowd>>

DispatchListener ==
  /\ Dispatching
  /\ ev.udata = Listener
  /\ pc' = "accept"
  /\ UNCHANGED <<poolVars, listVars, sockVars, changelist, cursor, g_running, crowd>>

DispatchTimer ==
  /\ Dispatching
  /\ ev.udata = Timer
  /\ pc' = "sweep"
  /\ cursor' = keepalive_head
  /\ UNCHANGED <<poolVars, listVars, sockVars, changelist, g_running, crowd>>

\* process_connection: the connection died in its first step, ...
ProcessDied(c) == Died(conn[c]) # {} /\ DestroyClosed(c)

\* ... it was closed while its response was being sent, ...
ProcessClosedInline(c) ==
  /\ \E o \in Carried(conn[c]) : o.conn.state = "CLOSED"
  /\ SyncKeepAliveList(c, "CLOSED")
  /\ Close(c)
  /\ UNCHANGED <<poolVars, changelist>>

\* ... or it goes on.
ProcessCarried(c) ==
  /\ \E o \in Carried(conn[c]) :
       /\ o.conn.state # "CLOSED"
       /\ conn' = [conn EXCEPT ![c] = o.conn]
       /\ SyncKeepAliveList(c, o.conn.state)
       /\ changelist' = changelist \o WantChanges(c, fd_[c], o.want)
  /\ UNCHANGED <<poolVars, fd_, open_fds, kq>>

\* Nothing is done for a connection that is closed already.
ProcessConnection(c) ==
  IF conn[c].state = "CLOSED"
  THEN UNCHANGED <<poolVars, listVars, sockVars, changelist>>
  ELSE ProcessDied(c) \/ ProcessClosedInline(c) \/ ProcessCarried(c)

DispatchConnection ==
  /\ Dispatching
  /\ ev.flag = "none" /\ ev.udata \in Slots
  /\ ProcessConnection(ev.udata)
  /\ UNCHANGED <<pc, cursor, g_running, crowd>>

\* process_connection hands nullptr to SSL_accept, and OpenSSL dereferences it.
\* DispatchConnection is what happens with an OpenSSL that reports an error.
DispatchCrash ==
  /\ pc = "dispatch" /\ events # <<>>
  /\ ev.flag = "none" /\ ev.udata \in Slots
  /\ conn[ev.udata].state # "CLOSED" /\ HandsOverNull(conn[ev.udata])
  /\ pc' = "crashed"
  /\ UNCHANGED <<poolVars, listVars, sockVars, changelist, events, cursor, g_running, crowd>>

--------------------------------------------------------------------------------
(* EventLoop::handle_accept, one turn of its loop per step.                    *)

AcceptConnection ==
  /\ pc = "accept"
  /\ \E f \in Fds \ open_fds, s \in Slots : CreateConnection(s, f)
  /\ UNCHANGED <<kq, events, pc, cursor, g_running, crowd>>

\* No connection is waiting.
AcceptNone ==
  /\ pc = "accept"
  /\ pc' = "dispatch"
  /\ UNCHANGED <<poolVars, listVars, sockVars, changelist, events, cursor, g_running, crowd>>

\* The pool is full: the new socket is closed and the loop left.
AcceptRefused ==
  /\ pc = "accept"
  /\ Fds \ open_fds # {}
  /\ AcquireFull
  /\ pc' = "dispatch"
  /\ UNCHANGED <<listVars, sockVars, changelist, events, cursor, g_running, crowd>>

--------------------------------------------------------------------------------
(* EventLoop::handle_timer, one node of the list per step. Time is read by     *)
(* is_expired alone, so it passes while kevent blocks and during the sweep.    *)

\* Something of c is still to be dispatched or submitted in this round.
UnderWay(c) ==
  \/ \E i \in 1 .. Len(events) : events[i].udata = c
  \/ \E i \in 1 .. Len(changelist) : changelist[i].udata = c

Expires(c) == IsExpired(conn[c]) /\ (ExpiryRace \/ ~UnderWay(c))

SweepExpired ==
  /\ pc = "sweep" /\ cursor # NoConn /\ Expires(cursor)
  /\ cursor' = keepalive_next[cursor]
  /\ DestroyConnection(cursor)
  /\ UNCHANGED <<events, pc, g_running, crowd>>

SweepKept ==
  /\ pc = "sweep" /\ cursor # NoConn /\ ~Expires(cursor)
  /\ cursor' = keepalive_next[cursor]
  /\ UNCHANGED <<poolVars, listVars, sockVars, changelist, events, pc, g_running, crowd>>

SweepDone ==
  /\ pc = "sweep" /\ cursor = NoConn
  /\ pc' = "dispatch"
  /\ UNCHANGED <<poolVars, listVars, sockVars, changelist, events, cursor, g_running, crowd>>

--------------------------------------------------------------------------------
(* The environment of the thread.                                              *)

Blocking == pc = "wait" /\ events = <<>>

\* last_active_ of c becomes older than the keep-alive timeout. The sweep alone
\* asks, of connections in KEEP_ALIVE, and it may find one expired at once: so
\* one whose response took longer than the timeout is one that ages during the
\* sweep (ConnectionRead has the clock).
TimePasses(c) ==
  /\ Blocking \/ pc = "sweep"
  /\ conn[c].state = "KEEP_ALIVE" /\ ~conn[c].idle
  /\ conn' = [conn EXCEPT ![c].idle = TRUE]
  /\ UNCHANGED <<poolVars, listVars, fd_, open_fds, kq, loopVars>>

\* SIGINT or SIGTERM: handle_signal clears the flag, and a kevent that blocks
\* returns EINTR, which run() answers with continue. Only TestRunning reads the
\* flag, so a signal during a batch counts as one that arrives after it; one
\* between the test and the wait (pc = "submit") finds nobody to interrupt.
Signal ==
  /\ (g_running /\ pc \in {"check", "submit"}) \/ Blocking
  /\ g_running' = FALSE
  /\ pc' = IF Blocking THEN "check" ELSE pc
  /\ UNCHANGED <<poolVars, listVars, sockVars, changelist, events, cursor, crowd>>

\* run() returned and main() ends the process, or the process is gone.
Stopped == pc \in {"stopped", "crashed"} /\ UNCHANGED vars

--------------------------------------------------------------------------------
Submit == ApplyChange \/ RejectChange \/ RejectWithoutRoom \/ Submitted

Dispatch ==
  DispatchNothing \/ DispatchGone \/ DispatchListener \/ DispatchTimer
  \/ DispatchConnection \/ DispatchCrash \/ BatchDone

Accept == AcceptConnection \/ AcceptNone \/ AcceptRefused

Sweep == SweepExpired \/ SweepKept \/ SweepDone

\* Everything the thread does once the kernel lets it.
Thread == TestRunning \/ Submit \/ ReturnEvents \/ Dispatch \/ Accept \/ Sweep

Next ==
  \/ Thread
  \/ \E e \in ReadyEvents : Collect(e)
  \/ \E c \in Slots : TimePasses(c)
  \/ Signal
  \/ Stopped

Spec == Init /\ [][Next]_vars

\* The thread is scheduled, and the periodic timer is always returned in the end.
FairSpec == Spec /\ WF_vars(Thread) /\ SF_vars(Collect(TagEvent(Timer)))

--------------------------------------------------------------------------------
(* Properties.                                                                 *)

\* Types of the composed state.
TypeOK ==
  /\ PoolTypeOK /\ ListTypeOK
  /\ conn \in [Slots -> ConnRecords]
  /\ fd_ \in [Slots -> Fds \union {NoFd}]
  /\ open_fds \subseteq Fds
  /\ kq \in [Fds -> [Filters -> Slots \union {NoConn}]]
  /\ pc \in {"check", "submit", "wait", "dispatch", "accept", "sweep", "stopped", "crashed"}
  /\ cursor \in Slots \union {NoConn}
  /\ g_running \in BOOLEAN
  /\ crowd \in 0 .. MAX_CONNECTIONS

\* Every live connection owns one open descriptor, no two the same, and no
\* socket is left open without an owner (accept, close, init over a used slot).
DescriptorsOwned ==
  /\ \A c \in Slots : fd_[c] = NoFd <=> c \notin Live
  /\ \A c, d \in Live : fd_[c] = fd_[d] => c = d
  /\ open_fds = {fd_[c] : c \in Live}

\* The keep-alive list holds exactly the connections in KEEP_ALIVE, each
\* reachable from the head by the links the sweep follows.
ListFollowsState ==
  /\ \A c \in Slots : in_keepalive_list[c] <=> conn[c].state = "KEEP_ALIVE"
  /\ LinksAgree /\ WalkVisitsEveryMember

\* A batch names a connection once, and never one whose registration is still
\* under way: the second event would find a connection that the first one
\* destroyed, and the registration a descriptor that is closed.
NamedOnce ==
  \A i \in 1 .. Len(events) : events[i].udata \in Slots =>
    /\ \A j \in 1 .. Len(events) : events[j].udata = events[i].udata => i = j
    /\ \A j \in 1 .. Len(changelist) : changelist[j].udata # events[i].udata

\* A udata pointer never outlives its connection: a registration in the kernel,
\* a registration under way in the changelist, an event of the batch and the
\* node that the sweep will visit next all name a live connection, and the
\* first three the descriptor that it owns now. No two things that a batch or
\* the changelist still has to do are about one connection, so none of them can
\* find it destroyed by the other.
PointersFresh ==
  /\ \A f \in Fds, x \in Filters : kq[f][x] # NoConn => f = fd_[kq[f][x]]
  /\ \A i \in 1 .. Len(changelist) :
       changelist[i].udata \in Slots => changelist[i].fd = fd_[changelist[i].udata]
  /\ \A i \in 1 .. Len(events) :
       events[i].udata \in Slots => events[i].fd = fd_[events[i].udata]
  /\ NamedOnce
  /\ pc = "sweep" /\ cursor # NoConn => in_keepalive_list[cursor]

\* The registration of filter x on f once the queued changes are applied.
Registered(f, x) ==
  LET mine == {i \in 1 .. Len(changelist) : changelist[i].fd = f /\ changelist[i].filter = x}
  IN IF mine = {} THEN kq[f][x]
     ELSE changelist[CHOOSE i \in mine : \A j \in mine : j <= i].udata

\* A live connection is never deaf: with the queued changes applied exactly one
\* of its filters is registered, and on a plaintext connection it is READ while
\* the next move is the client's.
NeverDeaf ==
  pc \notin {"stopped", "crashed"} =>
    \A c \in Live :
      /\ \E x \in Filters :
           /\ Registered(fd_[c], x) = c
           /\ \A y \in Filters \ {x} : Registered(fd_[c], y) = NoConn
      /\ ~conn[c].ssl /\ conn[c].state \in {"PROTO_DETECT", "READING", "KEEP_ALIVE"}
           => Registered(fd_[c], "READ") = c

\* run() returns only after SIGINT or SIGTERM (event_loop.h says so).
StopsOnlyOnSignal == pc = "stopped" => ~g_running

\* run() gives up without a signal, for want of room for the errors of a kevent
\* call, only if the round before found many connections: more than half as many
\* as there is room for events. However a round ends them, each of them costs at
\* most two changes that fail (destroy_connection, update_events, run).
StopsOnlyIfCrowded == pc = "stopped" /\ g_running => 2 * crowd > MAX_EVENTS

\* A slot is in use exactly while its connection is live: no live connection sits
\* in a free slot, and whatever closes a connection also returns its slot
\* (process_connection, destroy_connection).
SlotsInUseAreLive == lent = Live

\* release() is called for slots that acquire() handed out and nobody returned
\* yet (connection_pool.h, release).
ReleasesOnlyLentSlots ==
  [][active_count' = Dec(active_count) => lent' # lent]_poolVars

\* A connection that speaks TLS never falls back to plaintext, whatever requests
\* it serves (Connection::reset leaves ssl_ alone).
TlsUntilClosed ==
  [][\A c \in Slots : conn[c].ssl => conn'[c].ssl \/ conn'[c].state = "CLOSED"]_vars

\* After SIGINT or SIGTERM the loop ends, also when the signal comes between the
\* test of g_running and the wait (run, handle_signal).
SignalStopsLoop == ~g_running ~> pc \in {"stopped", "crashed"}

\* A connection that stays idle beyond the timeout is reaped, unless it becomes
\* active or the server stops (handle_timer and the keep-alive list).
IdleIsReaped ==
  \A c \in Slots : (conn[c].state = "KEEP_ALIVE" /\ conn[c].idle)
                     ~> \/ conn[c].state # "KEEP_ALIVE" \/ ~conn[c].idle
                        \/ pc \in {"stopped", "crashed"}
================================================================================
