----------------------------- MODULE BsdSockets -----------------------------
(***************************************************************************)
(* bsdsocket.library (bsdsocket.rs): the table of descriptors, and the     *)
(* events of sockets, which WaitSelect detects and announces by a signal   *)
(* and GetSocketEvents hands out.                                          *)
(*                                                                         *)
(* A host socket is what poll(2) says of it.  Addresses and data are left  *)
(* out; so are the descriptor sets of WaitSelect, whose result is that of  *)
(* poll(2).                                                                *)
(***************************************************************************)
EXTENDS Integers, FiniteSets, FiniteSetsExt, Functions

CONSTANTS
  Hosts,            \* host sockets
  MAX_OPEN_SOCKETS,
  TableLimit,       \* the last size of the table
  MaxInt,           \* the last descriptor
  MaxId,            \* bound: descriptors handed out
  Targets,          \* the descriptors that the program duplicates onto
  EventMasks,       \* what it arms
  ListensShared     \* it calls listen() or connect() on a socket it duplicated

Events == {"ACCEPT", "READ", "CLOSE", "WRITE", "ERROR"}

ASSUME TableAssumption ==
  /\ MAX_OPEN_SOCKETS \in Nat \ {0} /\ TableLimit \in Nat /\ MAX_OPEN_SOCKETS <= TableLimit
  /\ MaxInt \in Nat /\ MaxId \in 1 .. MaxInt /\ Targets \subseteq 0 .. MaxInt
  /\ EventMasks \subseteq SUBSET Events /\ ListensShared \in BOOLEAN

VARIABLES
  sockets,      \* descriptor -> SocketEntry
  next_id, dtablesize, event_cursor,
  sigeventmask, \* there is a signal for events
  signalled,        \* and it is in tc_SigRecvd
  hosts,        \* host socket -> its state
  owed,         \* history: the program took the signal, and has to ask until nothing is left
  silent,       \* history: descriptors whose events came while there was no signal
  seen,         \* history: which armed events were true of a socket when it was polled
  passed,       \* history: the descriptors returned since one has an event
  unfair        \* history: one was returned twice while another was waiting

socketVars == <<sockets, next_id, dtablesize, event_cursor, sigeventmask, signalled, hosts,
                owed, silent, seen, passed, unfair>>
history == <<owed, silent, seen, passed, unfair>>

Fds == 0 .. MaxInt
Descriptors == DOMAIN sockets
SocketEntry(h) == [host |-> h, event_mask |-> {}, pending_events |-> {},
                   is_listener |-> FALSE, connected |-> FALSE]
Waiting(s) == {fd \in DOMAIN s : s[fd].pending_events # {}}

-----------------------------------------------------------------------------
(* Host sockets: input is what can be read or accepted, eof that nothing    *)
(* follows it, shut that nothing can be written.                            *)

NewHost == [stage |-> "new", input |-> FALSE, eof |-> FALSE, shut |-> FALSE]
Connected == [NewHost EXCEPT !.stage = "connected"]
Unused == {h \in Hosts : \A fd \in Descriptors : sockets[fd].host # h}

\* What poll(2) says; Linux reports a socket without a connection as hung up.
POLLIN(h) == hosts[h].input \/ hosts[h].eof
POLLOUT(h) == hosts[h].stage \notin {"listening", "connecting"}
POLLERR(h) == hosts[h].stage = "failed"
POLLHUP(h) == hosts[h].stage = "new" \/ (hosts[h].eof /\ hosts[h].shut)

\* What is the case, whatever the library believes of the socket.
True(h) ==
  LET s == hosts[h] IN
    (IF s.stage = "listening" /\ POLLIN(h) THEN {"ACCEPT"} ELSE {})
    \union (IF s.stage # "listening" /\ POLLIN(h) THEN {"READ"} ELSE {})
    \union (IF s.eof THEN {"CLOSE"} ELSE {})
    \union (IF POLLOUT(h) /\ s.stage # "new" THEN {"WRITE"} ELSE {})
    \union (IF POLLERR(h) THEN {"ERROR"} ELSE {})

HostChanges(h, s) ==
  /\ hosts' = [hosts EXCEPT ![h] = s]
  /\ UNCHANGED <<sockets, next_id, dtablesize, event_cursor, sigeventmask, signalled, history>>

Arrives(h) ==
  /\ hosts[h].stage \in {"listening", "connected"} /\ ~ hosts[h].eof
  /\ HostChanges(h, [hosts[h] EXCEPT !.input = TRUE])

\* What arrived before can still be read.
PeerCloses(h) ==
  /\ hosts[h].stage = "connected"
  /\ HostChanges(h, [hosts[h] EXCEPT !.eof = TRUE])

ConnectEnds(h) ==
  /\ hosts[h].stage = "connecting"
  /\ \/ HostChanges(h, Connected)
     \/ HostChanges(h, [stage |-> "failed", input |-> FALSE, eof |-> TRUE, shut |-> TRUE])

-----------------------------------------------------------------------------
(* Descriptors. *)

\* A descriptor begins anew: what is remembered of the one before it goes.
Renewed(fd) ==
  /\ seen' = [seen EXCEPT ![fd] = {}]
  /\ passed' = [x \in Fds |-> IF x = fd THEN {} ELSE passed[x] \ {fd}]
  /\ silent' = silent \ {fd}
  /\ UNCHANGED <<owed, unfair>>

Following(n) == IF n = MaxInt THEN 1 ELSE n + 1
Full == Cardinality(Descriptors) >= dtablesize
With(fd, entry) == [x \in Descriptors \union {fd} |-> IF x = fd THEN entry ELSE sockets[x]]
quiet == UNCHANGED <<dtablesize, event_cursor, sigeventmask, signalled>>

socket ==
  \E h \in Unused :
    /\ ~ Full
    /\ next_id <= MaxId
    /\ next_id' = Following(next_id)
    /\ sockets' = With(next_id, SocketEntry(h))
    /\ Renewed(next_id)
    /\ quiet
    /\ UNCHANGED hosts

accept(fd) ==
  \E h \in Unused, more \in BOOLEAN :
    LET l == sockets[fd].host IN
    /\ ~ Full
    /\ next_id <= MaxId
    /\ hosts[l].stage = "listening" /\ hosts[l].input
    /\ next_id' = Following(next_id)
    /\ sockets' = With(next_id, [SocketEntry(h) EXCEPT !.connected = TRUE])
    /\ hosts' = [hosts EXCEPT ![l].input = more, ![h] = Connected]
    /\ Renewed(next_id)
    /\ quiet

\* Mutants: the next free descriptor stays below the one asked for; the table
\* grows past its size; the duplicate takes the events along.
bug_Raised(new_fd) == next_id
bug_HasRoom(id) == TRUE
bug_Duplicate(fd) == sockets[fd]

\* After a duplicate on new_fd.
Raised(new_fd) == IF new_fd >= next_id THEN Following(new_fd) ELSE next_id
HasRoom(id) == id \in Descriptors \/ ~ Full
Duplicate(fd) == [SocketEntry(sockets[fd].host) EXCEPT
                    !.is_listener = sockets[fd].is_listener, !.connected = sockets[fd].connected]

\* A host socket is closed with its last descriptor.
HostsClosed ==
  hosts' = [h \in Hosts |-> IF \E fd \in DOMAIN sockets' : sockets'[fd].host = h
                            THEN hosts[h] ELSE NewHost]

Duplicated(fd, id) ==
  /\ HasRoom(id)
  /\ sockets' = With(id, Duplicate(fd))
  /\ HostsClosed
  /\ Renewed(id)
  /\ quiet

Dup2Socket(fd, new_fd) ==
  /\ Duplicated(fd, new_fd)
  /\ next_id' = Raised(new_fd)

Dup(fd) ==
  /\ next_id <= MaxId
  /\ Duplicated(fd, next_id)
  /\ next_id' = Following(next_id)

CloseSocket(fd) ==
  /\ sockets' = Restrict(sockets, Descriptors \ {fd})
  /\ HostsClosed
  /\ Renewed(fd)
  /\ quiet
  /\ UNCHANGED next_id

\* SocketBaseTagList with SBTC_DTABLESIZE.
SetTableSize(requested) ==
  /\ dtablesize' = Max({Min({Max({requested, MAX_OPEN_SOCKETS}), TableLimit}), dtablesize})
  /\ UNCHANGED <<sockets, next_id, event_cursor, sigeventmask, signalled, hosts, history>>

-----------------------------------------------------------------------------
(* Connections. *)

Flagged(fd, flags, s) ==
  /\ \A other \in Descriptors \ {fd} : sockets[other].host = sockets[fd].host => ListensShared
  /\ hosts[sockets[fd].host].stage = "new"
  /\ sockets' = [sockets EXCEPT ![fd] = flags]
  /\ hosts' = [hosts EXCEPT ![sockets[fd].host] = s]
  /\ UNCHANGED <<next_id, dtablesize, event_cursor, sigeventmask, signalled, history>>

listen(fd) ==
  Flagged(fd, [sockets[fd] EXCEPT !.is_listener = TRUE],
          [NewHost EXCEPT !.stage = "listening"])

connect(fd) ==
  \E s \in {Connected, [NewHost EXCEPT !.stage = "connecting"]} :
    Flagged(fd, [sockets[fd] EXCEPT !.connected = TRUE], s)

\* All that waits.
recv(fd) ==
  LET h == sockets[fd].host IN
  /\ hosts[h].stage = "connected" /\ hosts[h].input
  /\ HostChanges(h, [hosts[h] EXCEPT !.input = FALSE])

\* how: reading, writing or both.  A program does this to a connection.
shutdown(fd) ==
  LET h == sockets[fd].host IN
  /\ hosts[h].stage = "connected"
  /\ \E how \in 0 .. 2 :
       HostChanges(h, [hosts[h] EXCEPT !.eof = @ \/ how \in {0, 2}, !.shut = @ \/ how \in {1, 2}])

-----------------------------------------------------------------------------
(* Events. *)

\* setsockopt with SO_EVENTMASK.
ArmEvents(fd, mask) ==
  /\ sockets' = [sockets EXCEPT ![fd].event_mask = mask, ![fd].pending_events = @ \intersect mask]
  /\ seen' = [seen EXCEPT ![fd] = @ \intersect mask]
  /\ passed' = [passed EXCEPT ![fd] = IF sockets'[fd].pending_events = {} THEN {} ELSE @]
  /\ UNCHANGED <<next_id, dtablesize, event_cursor, sigeventmask, signalled, hosts,
                 owed, silent, unfair>>

SetSocketSignals ==
  /\ sigeventmask' = ~ sigeventmask
  /\ UNCHANGED <<sockets, next_id, dtablesize, event_cursor, signalled, hosts, history>>

\* The peek finds nothing to come, neither data nor an error.
peeked_eof(h) == hosts[h].eof /\ ~ hosts[h].input /\ ~ POLLERR(h)

\* What is read of one socket: POLLIN is FD_ACCEPT of a listener, otherwise
\* FD_READ if that is armed, and otherwise, at the end of file, FD_CLOSE.
new_bits(fd) ==
  LET e == sockets[fd]
      input == IF e.is_listener THEN {"ACCEPT"}
               ELSE IF "READ" \in e.event_mask THEN {"READ"}
               ELSE IF peeked_eof(e.host) THEN {"CLOSE"} ELSE {}
  IN e.event_mask \intersect
       ((IF POLLIN(e.host) THEN input ELSE {})
        \union (IF POLLHUP(e.host) /\ e.connected THEN {"CLOSE"} ELSE {})
        \union (IF POLLOUT(e.host) /\ ~ e.is_listener /\ e.connected THEN {"WRITE"} ELSE {})
        \union (IF POLLERR(e.host) THEN {"ERROR"} ELSE {}))

\* Mutant: the signal is raised only for a socket that had no event.
bug_any_new_event ==
  \E fd \in Descriptors : new_bits(fd) # {} /\ new_bits(fd) \intersect sockets[fd].pending_events = {}

any_new_event == \E fd \in Descriptors : new_bits(fd) # {}

\* The signal is there already: WaitSelect takes it, and polls nothing.  Wait
\* takes it, too.
TakeSignal ==
  /\ signalled
  /\ signalled' = FALSE
  /\ owed' = TRUE
  /\ UNCHANGED <<sockets, next_id, dtablesize, event_cursor, sigeventmask, hosts,
                 silent, seen, passed, unfair>>

\* WaitSelect that polls, as it does if it is not asked for the signal.
WaitSelect ==
  /\ sockets' = [fd \in Descriptors |-> [sockets[fd] EXCEPT !.pending_events = @ \union new_bits(fd)]]
  /\ signalled' = (signalled \/ (any_new_event /\ sigeventmask))
  /\ seen' = [fd \in Fds |-> IF fd \in Descriptors
              THEN seen[fd] \union (sockets[fd].event_mask \intersect True(sockets[fd].host)) ELSE {}]
  /\ silent' = IF sigeventmask THEN {fd \in silent : new_bits(fd) = {}}
               ELSE silent \union {fd \in Descriptors : new_bits(fd) # {}}
  /\ UNCHANGED <<next_id, dtablesize, event_cursor, sigeventmask, hosts, owed, passed, unfair>>

\* Mutant: always from the lowest.
bug_next(candidates) == Min(candidates)
next(candidates) ==
  LET after == {fd \in candidates : fd > event_cursor}
  IN IF after # {} THEN Min(after) ELSE Min(candidates)

GetSocketEvents ==
  LET fd == next(Waiting(sockets))
      others == Waiting(sockets) \ {fd}
  IN /\ Waiting(sockets) # {}
     /\ sockets' = [sockets EXCEPT ![fd].pending_events = {}]
     /\ event_cursor' = fd
     /\ seen' = [seen EXCEPT ![fd] = {}]
     /\ silent' = silent \ {fd}
     /\ unfair' = (unfair \/ \E x \in others : fd \in passed[x])
     /\ passed' = [x \in Fds |-> IF x \in others THEN passed[x] \union {fd} ELSE {}]
     /\ UNCHANGED <<next_id, dtablesize, sigeventmask, signalled, hosts, owed>>

NoSocketEvents ==
  /\ Waiting(sockets) = {}
  /\ owed' = FALSE
  /\ UNCHANGED <<sockets, next_id, dtablesize, event_cursor, sigeventmask, signalled, hosts,
                 silent, seen, passed, unfair>>

-----------------------------------------------------------------------------

SocketsInit ==
  /\ sockets = << >>
  /\ next_id = 1
  /\ dtablesize = MAX_OPEN_SOCKETS
  /\ event_cursor = -1
  /\ sigeventmask = FALSE
  /\ signalled = FALSE
  /\ hosts = [h \in Hosts |-> NewHost]
  /\ owed = FALSE
  /\ silent = {}
  /\ seen = [fd \in Fds |-> {}]
  /\ passed = [fd \in Fds |-> {}]
  /\ unfair = FALSE

SocketsNext ==
  \/ socket \/ TakeSignal \/ WaitSelect \/ GetSocketEvents \/ NoSocketEvents \/ SetSocketSignals
  \/ SetTableSize(TableLimit)
  \/ \E fd \in Descriptors :
       \/ accept(fd) \/ listen(fd) \/ connect(fd) \/ recv(fd) \/ shutdown(fd)
       \/ Dup(fd) \/ CloseSocket(fd)
       \/ \E new_fd \in Targets : Dup2Socket(fd, new_fd)
       \/ \E mask \in EventMasks : ArmEvents(fd, mask)
  \/ \E h \in Hosts \ Unused : Arrives(h) \/ PeerCloses(h) \/ ConnectEnds(h)

SocketsSpec == SocketsInit /\ [][SocketsNext]_socketVars

-----------------------------------------------------------------------------
(* Properties. *)

\* A descriptor stays that of its socket until the program closes it or
\* duplicates another onto it, however descriptors are chosen, and no way to
\* open one passes the size of the table (socket, accept, Dup2Socket).
DescriptorsKept ==
  /\ [][\A fd \in Descriptors :
          \/ fd \in DOMAIN sockets' /\ sockets'[fd].host = sockets[fd].host
          \/ CloseSocket(fd)
          \/ \E old \in Descriptors : Dup2Socket(old, fd)]_socketVars
  /\ [](Cardinality(Descriptors) <= dtablesize)

\* A program that asks for events until there are none each time it takes the
\* signal misses none: what waits was announced, and the announcement is still
\* there or being answered (wait_select_poll).
Announced == \A fd \in Waiting(sockets) : fd \in silent \/ signalled \/ owed

\* An event that waits was true of its own socket at a poll since the last
\* one was returned, and is still armed: none is left from a socket that had
\* the descriptor before, or that it is a duplicate of.
EventsTrue == \A fd \in Descriptors : sockets[fd].pending_events \subseteq seen[fd]

\* Events reach a program once, under the right descriptor, announced, and no
\* socket is returned twice while another waits (get_socket_events_handler).
EventsDelivered == Announced /\ EventsTrue /\ ~ unfair
=============================================================================
