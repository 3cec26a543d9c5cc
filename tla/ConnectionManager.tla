--------------------------- MODULE ConnectionManager ---------------------------
(***************************************************************************)
(* Connections (app-framework/connection): connection_mgr.c for Linux with *)
(* its polling thread, and the application library connection.c.           *)
(*                                                                         *)
(* A connection is a node of g_connections with a handle and a file        *)
(* descriptor.  Three parties take nodes out of the list, close the        *)
(* descriptor and free the node: the application that closes it, the       *)
(* polling thread when a TCP peer is gone, and the manager that removes    *)
(* the application.  The list has a lock; what find_connection returned is *)
(* used after the lock was released, and the polling thread has its nodes  *)
(* from epoll and not from the list.  Descriptors are used again, handles  *)
(* are not.  The kernel is external.                                       *)
(***************************************************************************)
EXTENDS Naturals, FiniteSets

CONSTANTS
  ConnApp,      \* applications
  MaxHandle,    \* bound: connections that are ever opened
  Fd,           \* file descriptors
  MaxConn       \* MAX_CONNECTION_PER_APP

Handle == 1 .. MaxHandle
NoFd == 0

ASSUME ConnAssumption == MaxHandle \in Nat /\ MaxConn \in Nat /\ NoFd \notin Fd

VARIABLES
  conn,       \* the nodes: their state, owner, type and descriptor
  handleMax,  \* g_handle_max
  socket,     \* which connection each open descriptor is a socket of
  watched,    \* nodes that epoll watches
  peer,       \* what epoll would report of each socket
  doing,      \* the native call of each application, and its node
  conns,      \* g_conns of each application
  inbox,      \* connection events in the queue of each application
  gone,       \* applications removed
  poll,       \* where the polling thread is, and its node
  batch,      \* epoll_events not yet handled
  touched     \* history: a node was used after it was freed

nodeVars == <<conn, handleMax>>
kernel   == <<socket, watched, peer>>
appSide  == <<doing, conns, gone>>
connVars == <<nodeVars, kernel, appSide, inbox, poll, batch, touched>>

Nowhere == [at |-> "idle", node |-> 0]
At(where, h) == [at |-> where, node |-> h]

\* get_conn_type: of a UART the manager does what it does of UDP.
ConnType == {"TCP", "UDP"}

ConnTypeOK ==
  /\ \A h \in Handle :
       /\ conn[h].st \in {"none", "listed", "unlinked", "freed"}
       /\ conn[h].type \in ConnType /\ conn[h].fd \in Fd \cup {NoFd}
  /\ handleMax \in 0 .. MaxHandle
  /\ socket \in [Fd -> 0 .. MaxHandle] /\ watched \subseteq Handle
  /\ peer \in [Handle -> {"quiet", "data", "hangup"}]
  /\ \A a \in ConnApp : doing[a].node \in 0 .. MaxHandle /\ conns[a] \subseteq Handle
  /\ \A a \in ConnApp : inbox[a] \subseteq
       [handle : Handle, kind : {"data", "closed"}, from : 0 .. MaxHandle]
  /\ gone \subseteq ConnApp /\ batch \subseteq Handle /\ touched \in BOOLEAN
  /\ poll.at \in {"idle", "close", "unlinked", "fdClosed"}

ConnInit ==
  /\ conn = [h \in Handle |-> [st |-> "none", app |-> "", type |-> "TCP", fd |-> NoFd]]
  /\ handleMax = 0
  /\ socket = [f \in Fd |-> 0] /\ watched = {} /\ peer = [h \in Handle |-> "quiet"]
  /\ doing = [a \in ConnApp |-> Nowhere] /\ conns = [a \in ConnApp |-> {}]
  /\ gone = {} /\ inbox = [a \in ConnApp |-> {}]
  /\ poll = Nowhere /\ batch = {} /\ touched = FALSE

Listed(h) == conn[h].st = "listed"
Of(a) == {h \in Handle : Listed(h) /\ conn[h].app = a}

\* close(fd), after EPOLL_CTL_DEL: the kernel forgets the socket.
Closed(f) == [socket EXCEPT ![f] = 0]

-----------------------------------------------------------------------------
(* The applications.                                                       *)

PollFrame == UNCHANGED <<poll, batch>>
Goes(a, where, h) == doing' = [doing EXCEPT ![a] = At(where, h)]
Rests(a) == doing' = [doing EXCEPT ![a] = Nowhere]
Free(a) == doing[a].at = "idle" /\ a \notin gone

\* add_connection
AddConnection(node) ==
  /\ handleMax' = handleMax + 1
  /\ conn' = [conn EXCEPT ![handleMax'] = node]

\* _conn_open: below the quota the node is added to the list, its fd still 0.
OpenConnection(a, type) ==
  /\ Free(a) /\ handleMax < MaxHandle /\ Cardinality(Of(a)) < MaxConn
  /\ AddConnection([st |-> "listed", app |-> a, type |-> type, fd |-> NoFd])
  /\ Goes(a, "connect", handleMax')
  /\ UNCHANGED <<kernel, conns, gone, inbox, touched>> /\ PollFrame

\* tcp_open or udp_open gives a descriptor that is free.
Connected(a, f) ==
  /\ doing[a].at = "connect" /\ socket[f] = 0
  /\ socket' = [socket EXCEPT ![f] = doing[a].node]
  /\ conn' = [conn EXCEPT ![doing[a].node].fd = f]
  /\ Goes(a, "watch", doing[a].node)
  /\ UNCHANGED <<handleMax, watched, peer, conns, gone, inbox, touched>> /\ PollFrame

\* EPOLL_CTL_ADD succeeds, and api_open_connection keeps the handle.
Watch(a) ==
  /\ doing[a].at = "watch"
  /\ watched' = watched \cup {doing[a].node}
  /\ conns' = [conns EXCEPT ![a] = @ \cup {doing[a].node}]
  /\ Rests(a)
  /\ UNCHANGED <<nodeVars, socket, peer, gone, inbox, touched>> /\ PollFrame

\* EPOLL_CTL_ADD fails: the descriptor is closed first.
WatchFails(a) ==
  /\ doing[a].at = "watch"
  /\ socket' = Closed(conn[doing[a].node].fd)
  /\ Goes(a, "fail", doing[a].node)
  /\ UNCHANGED <<nodeVars, watched, peer, conns, gone, inbox, touched>> /\ PollFrame

\* The arguments are wrong, or tcp_open or udp_open fails and closes its socket.
ConnectFails(a) ==
  /\ doing[a].at = "connect" /\ Goes(a, "fail", doing[a].node)
  /\ UNCHANGED <<nodeVars, kernel, conns, gone, inbox, touched>> /\ PollFrame

\* The node is unlinked and freed.
OpenFails(a) ==
  /\ doing[a].at = "fail"
  /\ conn' = [conn EXCEPT ![doing[a].node].st = "freed"]
  /\ Rests(a)
  /\ UNCHANGED <<handleMax, kernel, conns, gone, inbox, touched>> /\ PollFrame

\* Slip: the library keeps its node.
CloseKeepingNode(a, h) ==
  /\ Free(a) /\ h \in conns[a]
  /\ IF Listed(h)
     THEN conn' = [conn EXCEPT ![h].st = "unlinked"] /\ Goes(a, "unlinked", h)
     ELSE UNCHANGED <<conn, doing>>
  /\ UNCHANGED <<handleMax, kernel, conns, gone, inbox, touched>> /\ PollFrame

\* api_close_connection: find_connection unlinks the node if it is still there; the
\* node of the library is removed before the thread serves another message.
CloseConnection(a, h) ==
  /\ Free(a) /\ h \in conns[a]
  /\ conns' = [conns EXCEPT ![a] = @ \ {h}]
  /\ IF Listed(h)
     THEN conn' = [conn EXCEPT ![h].st = "unlinked"] /\ Goes(a, "unlinked", h)
     ELSE UNCHANGED <<conn, doing>>
  /\ UNCHANGED <<handleMax, kernel, gone, inbox, touched>> /\ PollFrame

\* The rest of _conn_close: the descriptor, then the node.
CloseDescriptor(a) ==
  /\ doing[a].at = "unlinked"
  /\ socket' = Closed(conn[doing[a].node].fd)
  /\ watched' = watched \ {doing[a].node}
  /\ Goes(a, "fdClosed", doing[a].node)
  /\ UNCHANGED <<nodeVars, peer, conns, gone, inbox, touched>> /\ PollFrame

FreeNode(a) ==
  /\ doing[a].at = "fdClosed"
  /\ conn' = [conn EXCEPT ![doing[a].node].st = "freed"]
  /\ Rests(a)
  /\ UNCHANGED <<handleMax, kernel, conns, gone, inbox, touched>> /\ PollFrame

\* _conn_send and _conn_config find the node under the lock ...
FindForUse(a, h) ==
  /\ Free(a) /\ h \in conns[a] /\ Listed(h)
  /\ Goes(a, "use", h)
  /\ UNCHANGED <<nodeVars, kernel, conns, gone, inbox, touched>> /\ PollFrame

\* ... and use it without.
UseNode(a) ==
  /\ doing[a].at = "use"
  /\ touched' = (touched \/ conn[doing[a].node].st = "freed")
  /\ Rests(a)
  /\ UNCHANGED <<nodeVars, kernel, conns, gone, inbox>> /\ PollFrame

\* on_connection_data: the handler of the connection, if the library has it.
OnConnectionData(a, e) ==
  /\ Free(a) /\ e \in inbox[a]
  /\ inbox' = [inbox EXCEPT ![a] = @ \ {e}]
  /\ UNCHANGED <<nodeVars, kernel, appSide, touched>> /\ PollFrame

\* cleanup_connections, when the thread of the application has ended.
CleanupConnections(a) ==
  /\ Free(a)
  /\ gone' = gone \cup {a} /\ conns' = [conns EXCEPT ![a] = {}]
  /\ inbox' = [inbox EXCEPT ![a] = {}]
  /\ socket' = [f \in Fd |-> IF \E h \in Of(a) : conn[h].fd = f THEN 0 ELSE socket[f]]
  /\ watched' = watched \ Of(a)
  /\ conn' = [h \in Handle |-> IF h \in Of(a) THEN [conn[h] EXCEPT !.st = "freed"]
                               ELSE conn[h]]
  /\ UNCHANGED <<handleMax, peer, doing, touched>> /\ PollFrame

-----------------------------------------------------------------------------
(* The peers and the polling thread.                                       *)

\* A peer sends, or hangs up for good.
PeerActs(h, what) ==
  /\ \E f \in Fd : socket[f] = h
  /\ peer[h] = "quiet" /\ (what = "hangup" => conn[h].type = "TCP")
  /\ peer' = [peer EXCEPT ![h] = what]
  /\ UNCHANGED <<nodeVars, socket, watched, appSide, inbox, poll, batch, touched>>

\* epoll_wait returns the sockets that have something.
EpollWait ==
  /\ poll.at = "idle" /\ batch = {}
  /\ batch' = {h \in watched : peer[h] # "quiet"} /\ batch' # {}
  /\ UNCHANGED <<nodeVars, kernel, appSide, inbox, poll, touched>>

PollTouchesFreed ==
  /\ \E h \in batch : conn[h].st = "freed" /\ batch' = batch \ {h}
  /\ poll.at = "idle" /\ touched' = TRUE
  /\ UNCHANGED <<nodeVars, kernel, appSide, inbox, poll>>

\* The socket that the descriptor of a node stands for now, 0 if it was closed.
Stream(h) == socket[conn[h].fd]

\* post_msg_to_module: nothing is posted for a module that is no longer there.
Post(h, kind) ==
  inbox' = IF conn[h].app \in gone THEN inbox
           ELSE [inbox EXCEPT ![conn[h].app] =
                   @ \cup {[handle |-> h, kind |-> kind, from |-> Stream(h)]}]

\* recv gives data.
PollReceives(h) ==
  /\ poll.at = "idle" /\ h \in batch /\ conn[h].st # "freed"
  /\ Stream(h) # 0 /\ peer[Stream(h)] = "data"
  /\ peer' = [peer EXCEPT ![Stream(h)] = "quiet"]
  /\ Post(h, "data") /\ batch' = batch \ {h}
  /\ UNCHANGED <<nodeVars, socket, watched, appSide, poll, touched>>

NothingReceived(h) ==
  /\ poll.at = "idle" /\ h \in batch /\ conn[h].st # "freed"
  /\ Stream(h) # 0 => peer[Stream(h)] # "data"
  /\ batch' = batch \ {h}

\* recv gives 0 or an error: a TCP connection is reported closed, and closed.
PollDisconnected(h) ==
  /\ NothingReceived(h) /\ conn[h].type = "TCP"
  /\ Post(h, "closed") /\ poll' = At("close", h)
  /\ UNCHANGED <<nodeVars, kernel, appSide, touched>>

PollNothing(h) ==
  /\ NothingReceived(h) /\ conn[h].type # "TCP"
  /\ UNCHANGED <<nodeVars, kernel, appSide, inbox, poll, touched>>

\* Slip: the node epoll gave is closed without a look into the list.
PollCloseUnchecked ==
  /\ poll.at = "close" /\ conn[poll.node].st # "freed"
  /\ conn' = [conn EXCEPT ![poll.node].st = "unlinked"]
  /\ poll' = At("unlinked", poll.node)
  /\ UNCHANGED <<handleMax, kernel, appSide, inbox, batch, touched>>

\* _conn_close finds the node by its handle ...
PollClose ==
  /\ poll.at = "close" /\ Listed(poll.node)
  /\ conn' = [conn EXCEPT ![poll.node].st = "unlinked"]
  /\ poll' = At("unlinked", poll.node)
  /\ UNCHANGED <<handleMax, kernel, appSide, inbox, batch, touched>>

\* ... or the application was faster.
PollCloseMissing ==
  /\ poll.at = "close" /\ ~Listed(poll.node)
  /\ poll' = Nowhere /\ touched' = (touched \/ conn[poll.node].st = "freed")
  /\ UNCHANGED <<nodeVars, kernel, appSide, inbox, batch>>

\* Slip: the node is freed, and its descriptor stays open.
PollCloseLeaking ==
  /\ poll.at = "unlinked"
  /\ watched' = watched \ {poll.node}
  /\ poll' = At("fdClosed", poll.node)
  /\ UNCHANGED <<nodeVars, socket, peer, appSide, inbox, batch, touched>>

PollCloseDescriptor ==
  /\ poll.at = "unlinked"
  /\ socket' = Closed(conn[poll.node].fd)
  /\ watched' = watched \ {poll.node}
  /\ poll' = At("fdClosed", poll.node)
  /\ UNCHANGED <<nodeVars, peer, appSide, inbox, batch, touched>>

PollFree ==
  /\ poll.at = "fdClosed"
  /\ conn' = [conn EXCEPT ![poll.node].st = "freed"] /\ poll' = Nowhere
  /\ UNCHANGED <<handleMax, kernel, appSide, inbox, batch, touched>>

Polling ==
  \/ EpollWait \/ PollTouchesFreed
  \/ PollClose \/ PollCloseMissing \/ PollCloseDescriptor \/ PollFree
  \/ \E h \in Handle : PollReceives(h) \/ PollDisconnected(h) \/ PollNothing(h)

ConnAppNext(a) ==
  \/ \E type \in ConnType : OpenConnection(a, type)
  \/ \E f \in Fd : Connected(a, f)
  \/ Watch(a) \/ WatchFails(a) \/ ConnectFails(a) \/ OpenFails(a)
  \/ \E h \in Handle : CloseConnection(a, h) \/ FindForUse(a, h)
  \/ CloseDescriptor(a) \/ FreeNode(a) \/ UseNode(a) \/ CleanupConnections(a)
  \/ \E e \in inbox[a] : OnConnectionData(a, e)

\* A behaviour ends where a freed node is used: what follows is undefined.
ConnNext ==
  /\ ~touched
  /\ \/ Polling
     \/ \E a \in ConnApp : ConnAppNext(a)
     \/ \E h \in Handle, what \in {"data", "hangup"} : PeerActs(h, what)

ConnSpec == ConnInit /\ [][ConnNext]_connVars

-----------------------------------------------------------------------------
\* A node that was unlinked is closed and freed by the party that unlinked it, and by
\* no other, however the application and the polling thread meet at it.
OneCloser ==
  LET Closing(p) == p.at \in {"unlinked", "fdClosed"}
  IN /\ \A a \in ConnApp : Closing(doing[a]) => conn[doing[a].node].st = "unlinked"
     /\ Closing(poll) => conn[poll.node].st = "unlinked"
     /\ \A a \in ConnApp : Closing(doing[a]) /\ Closing(poll) => doing[a].node # poll.node

\* Every open descriptor is the socket of a node that is still to be freed, and the
\* nodes epoll watches have theirs: no descriptor is lost, or used by two connections.
DescriptorHasOwner ==
  /\ \A f \in Fd : socket[f] # 0 => conn[socket[f]].st # "freed" /\ conn[socket[f]].fd = f
  /\ \A h \in watched : Stream(h) = h

\* A handler of an application is called only with what the peer of that connection
\* sent: what the polling thread read through a descriptor that was closed and used
\* again is for a connection its application has closed.
HandlerHearsPeer ==
  \A a \in ConnApp : \A e \in inbox[a] :
    Free(a) /\ e.handle \in conns[a] => e.from = e.handle
=============================================================================
