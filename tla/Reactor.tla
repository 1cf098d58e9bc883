-------------------------------- MODULE Reactor --------------------------------
(***************************************************************************)
(* code/Epoller.cpp, code/TcpServer.cpp and the reading half of             *)
(* code/TcpTool.cpp: how a connection is accepted, reported by epoll, handed *)
(* to a worker as a raw TcpTool pointer, read, closed and deleted.          *)
(*                                                                          *)
(* Three parties act concurrently: the peers and the kernel (arrivals),     *)
(* the event loop (epoll_wait, handleEvent, accept), and the workers        *)
(* (_handleRead).  A connection and its TcpTool share one name, and the tool *)
(* keeps the descriptor that accept returned; a descriptor that is closed    *)
(* can be returned again, and epoll_ctl goes by the descriptor alone.        *)
(* Several references to one tool can be under way at a time: an event in   *)
(* epoll's ready list, an event in the batch that epoll_wait returned,      *)
(* queued tasks and workers.                                                *)
(*                                                                          *)
(* The pool is taken at its word (module TaskPool): a task is executed once *)
(* and addTask blocks while the queue is full.  What a message says is left *)
(* to dowork; here it is a header and a body, each one unit of data.        *)
(***************************************************************************)
EXTENDS Integers, FiniteSets, FiniteSetsExt

CONSTANTS
  Conns,      \* connections; each is made, used and closed once
  Workers,    \* worker threads
  NoConn,
  Listen,     \* the listening socket among epoll's events
  Fds, NoFd,  \* the descriptors that the process has for connections
  Room,       \* maxTaskNum of the pool
  Frames,     \* what headers decode to (module Framing); "good" is what the
              \* code is meant to find: a length that fits its buffer
  Errnos,     \* what errno can hold in a worker when read has returned a
              \* negative length: "EAGAIN", or something else
  MaxUnits    \* bound of the model: units of data that one peer sends

ASSUME ReactorAssumption ==
  /\ IsFiniteSet(Conns) /\ IsFiniteSet(Workers)
  /\ NoConn \notin Conns /\ Listen \notin Conns /\ Listen # NoConn
  /\ NoFd \notin Fds
  /\ Room \in Nat \ {0} /\ MaxUnits \in Nat
  /\ Frames \subseteq {"good", "zero", "negative", "long"}
  /\ Errnos \subseteq {"EAGAIN", "other"}

VARIABLES
  sock,    \* away, backlog, open (a TcpTool exists), gone (it was deleted)
  fd,      \* the descriptor that accept returned; m_fd of the tool
  inbox,   \* units in the socket's receive buffer
  sent,    \* units the peer has sent so far
  fin,     \* the peer has closed
  rst,     \* ... and the connection has been reset since
  reg,     \* registered with epoll
  ptr,     \* ... with a pointer to this TcpTool
  level,   \* ... level-triggered (EPOLLIN without EPOLLET)
  ready,   \* epoll's ready list
  batch,   \* pointers of the events that epoll_wait returned, to be handled
  mpc, cur,    \* event loop: control state, tool of the event it handles
  tasks,   \* queued tasks of each tool
  wpc, wtool,  \* workers: control state, argument of _handleRead
  fault    \* "none", or how the program went wrong

netVars    == <<inbox, sent, fin, rst>>
epollVars  == <<reg, ptr, level, ready>>
loopVars   == <<batch, mpc, cur>>
workerVars == <<wpc, wtool>>
vars == <<sock, fd, netVars, epollVars, loopVars, tasks, workerVars, fault>>

Running     == fault = "none"
Readable(c) == inbox[c] > 0 \/ fin[c]
Backlog     == {c \in Conns : sock[c] = "backlog"}
InUse       == {fd[c] : c \in {d \in Conns : sock[d] = "open"}}
Queued      == MapThenSumSet(LAMBDA c : tasks[c], Conns)

Init ==
  /\ sock = [c \in Conns |-> "away"] /\ fd = [c \in Conns |-> NoFd]
  /\ inbox = [c \in Conns |-> 0] /\ sent = [c \in Conns |-> 0]
  /\ fin = [c \in Conns |-> FALSE] /\ rst = [c \in Conns |-> FALSE]
  /\ reg = [c \in Conns |-> FALSE] /\ level = [c \in Conns |-> FALSE]
  /\ ptr = [c \in Conns |-> c]
  /\ ready = {} /\ batch = {} /\ mpc = "wait" /\ cur = NoConn
  /\ tasks = [c \in Conns |-> 0]
  /\ wpc = [w \in Workers |-> "idle"] /\ wtool = [w \in Workers |-> NoConn]
  /\ fault = "none"

(***************************************************************************)
(* Peers and kernel                                                         *)
(***************************************************************************)
\* Whatever happens on a registered socket puts it on the ready list (a socket
\* on the list that is not readable is no event).
Report(c) == ready' = IF reg[c] THEN ready \cup {c} ELSE ready
Receiving(c, W) == \E w \in W : wtool[w] = c /\ wpc[w] \in {"head", "body", "long"}

\* The kernel has a socket that peer c can reach: a recv under way keeps it.
Connected(c) == sock[c] \in {"backlog", "open"} \/ reg[c] \/ Receiving(c, Workers)

Connect(c) ==
  /\ Running /\ sock[c] = "away"
  /\ sock' = [sock EXCEPT ![c] = "backlog"]
  /\ ready' = ready \cup {Listen}
  /\ UNCHANGED <<fd, netVars, reg, ptr, level, loopVars, tasks, workerVars, fault>>

\* n units arrive in one segment.
Arrive(c, n) ==
  /\ Running /\ Connected(c) /\ ~fin[c]
  /\ sent[c] + n <= MaxUnits
  /\ inbox' = [inbox EXCEPT ![c] = @ + n]
  /\ sent' = [sent EXCEPT ![c] = @ + n]
  /\ Report(c)
  /\ UNCHANGED <<sock, fd, fin, rst, reg, ptr, level, loopVars, tasks, workerVars,
                 fault>>

\* A header and its body arrive together, the header alone, the rest of it.
SendWhole(c) == sent[c] % 2 = 0 /\ Arrive(c, 2)
SendHead(c)  == sent[c] % 2 = 0 /\ sent[c] + 2 <= MaxUnits /\ Arrive(c, 1)
SendRest(c)  == sent[c] % 2 = 1 /\ Arrive(c, 1)

PeerClose(c) ==
  /\ Running /\ Connected(c) /\ ~fin[c]
  /\ fin' = [fin EXCEPT ![c] = TRUE]
  /\ Report(c)
  /\ UNCHANGED <<sock, fd, inbox, sent, rst, reg, ptr, level, loopVars, tasks,
                 workerVars, fault>>

\* Something sent to a closed peer comes back as a reset: one more event.
PeerReset(c) ==
  /\ Running /\ Connected(c) /\ fin[c] /\ ~rst[c]
  /\ rst' = [rst EXCEPT ![c] = TRUE]
  /\ Report(c)
  /\ UNCHANGED <<sock, fd, inbox, sent, fin, reg, ptr, level, loopVars, tasks,
                 workerVars, fault>>

\* The kernel looks at a socket once when it is registered or registered anew.
\* Accepted ones are edge-triggered; modFd makes them level-triggered.  Both
\* modFd and delFd mean the connection that has the descriptor f now, and fail
\* when there is none or it is not registered.
Registered(f) == {d \in Conns : sock[d] = "open" /\ fd[d] = f /\ reg[d]}

addFd(c) == /\ reg' = [reg EXCEPT ![c] = TRUE]
            /\ ptr' = [ptr EXCEPT ![c] = c]
            /\ ready' = ready \cup {c}

modFd(f, c) ==
  /\ level' = [d \in Conns |-> level[d] \/ d \in Registered(f)]
  /\ ptr' = [d \in Conns |-> IF d \in Registered(f) THEN c ELSE ptr[d]]
  /\ ready' = ready \cup Registered(f)

\* The sockets in D are registered no longer.
Unregister(D) == /\ reg' = [d \in Conns |-> reg[d] /\ d \notin D]
                 /\ ready' = ready \ D

delFd(f) == Unregister(Registered(f))

(***************************************************************************)
(* The event loop: run, wait, handleEvent, _acceptConnection                *)
(***************************************************************************)
\* What epoll_wait finds in the ready list: it asks each socket once more.
Events == {e \in ready : IF e = Listen THEN Backlog # {} ELSE Readable(e)}

\* epoll_wait(-1) blocks until there is an event.  Edge-triggered sockets leave
\* the ready list, a level-triggered one stays.
Poll ==
  /\ Running /\ mpc = "wait" /\ Events # {}
  /\ batch' = {IF e = Listen THEN Listen ELSE ptr[e] : e \in Events}
  /\ ready' = {c \in Events \ {Listen} : level[c]}
  /\ mpc' = "loop"
  /\ UNCHANGED <<sock, fd, netVars, reg, ptr, level, cur, tasks, workerVars, fault>>


\* The for loop is over: wait again.
EndBatch ==
  /\ Running /\ mpc = "loop" /\ batch = {}
  /\ mpc' = "wait"
  /\ UNCHANGED <<sock, fd, netVars, epollVars, batch, cur, tasks, workerVars,
                 fault>>

\* A new TcpTool with a descriptor that is free.
NewTool(c, f) == /\ sock' = [sock EXCEPT ![c] = "open"]
                 /\ fd' = [fd EXCEPT ![c] = f]


AcceptUnregistered ==
  /\ Running /\ mpc = "loop" /\ Listen \in batch
  /\ batch' = batch \ {Listen}
  /\ \E c \in Backlog, f \in Fds \ InUse : NewTool(c, f)
  /\ UNCHANGED <<netVars, epollVars, mpc, cur, tasks, workerVars, fault>>

\* The listening socket's event: one accept, a new TcpTool, addFd.  Without a
\* free descriptor accept fails and the connection stays in the backlog.  The
\* length passed to accept is not initialised: when it happens to be negative
\* the call fails as well, and the kernel drops the connection.
Accept ==
  /\ Running /\ mpc = "loop" /\ Listen \in batch
  /\ batch' = batch \ {Listen}
  /\ \/ /\ Backlog = {} \/ Fds \ InUse = {}
        /\ UNCHANGED <<sock, fd, reg, ptr, ready>>
     \/ \E c \in Backlog, f \in Fds \ InUse : NewTool(c, f) /\ addFd(c)
     \/ /\ Fds \ InUse # {}
        /\ \E c \in Backlog : sock' = [sock EXCEPT ![c] = "gone"]
        /\ UNCHANGED <<fd, reg, ptr, ready>>
  /\ UNCHANGED <<netVars, level, mpc, cur, tasks, workerVars, fault>>

\* tool->getFd() for the next event: reads the object behind the pointer.
HandleEvent(c) ==
  /\ Running /\ mpc = "loop" /\ c \in batch
  /\ IF sock[c] = "gone"
     THEN fault' = "use_after_free" /\ UNCHANGED <<loopVars>>
     ELSE batch' = batch \ {c} /\ cur' = c /\ mpc' = "add" /\ UNCHANGED fault
  /\ UNCHANGED <<sock, fd, netVars, epollVars, tasks, workerVars>>

\* threadpool->addTask: blocks while the queue is full.
AddTask ==
  /\ Running /\ mpc = "add" /\ Queued < Room
  /\ tasks' = [tasks EXCEPT ![cur] = @ + 1]
  /\ cur' = NoConn /\ mpc' = "loop"
  /\ UNCHANGED <<sock, fd, netVars, epollVars, batch, workerVars, fault>>

(***************************************************************************)
(* A worker: _handleRead with TcpTool::read and _closeConnection            *)
(***************************************************************************)
Return(w) == wpc' = [wpc EXCEPT ![w] = "idle"] /\ wtool' = [wtool EXCEPT ![w] = NoConn]

\* Mutant: takes a task without a look at the queue.
TakeBlindly(w, c) ==
  /\ Running /\ wpc[w] = "idle"
  /\ tasks' = [tasks EXCEPT ![c] = @ - 1]
  /\ wpc' = [wpc EXCEPT ![w] = "head"]
  /\ wtool' = [wtool EXCEPT ![w] = c]
  /\ UNCHANGED <<sock, fd, netVars, epollVars, loopVars, fault>>

\* A thread of the pool pops a task: _readcb(tool), which asks the tool for its
\* descriptor and keeps it in a local variable.
TakeTask(w, c) ==
  /\ Running /\ wpc[w] = "idle" /\ tasks[c] > 0
  /\ tasks' = [tasks EXCEPT ![c] = @ - 1]
  /\ IF sock[c] = "gone"
     THEN fault' = "use_after_free" /\ UNCHANGED workerVars
     ELSE /\ wpc' = [wpc EXCEPT ![w] = "head"]
          /\ wtool' = [wtool EXCEPT ![w] = c]
          /\ UNCHANGED fault
  /\ UNCHANGED <<sock, fd, netVars, epollVars, loopVars>>

localFd(w) == fd[wtool[w]]

\* The worker is to use its tool after another one deleted it.  In rearm and
\* unregister it uses no more of it than its local variables.
Dangles(w) ==
  wpc[w] \notin {"idle", "rearm", "unregister"} /\ sock[wtool[w]] = "gone"
UseFreed(w) ==
  /\ Running /\ Dangles(w)
  /\ fault' = "use_after_free"
  /\ UNCHANGED <<sock, fd, netVars, epollVars, loopVars, tasks, workerVars>>


\* recv in the state pc: takes a unit and goes on to one of the states in
\* Outcomes, sees the end of the stream, or blocks, for accept returns blocking
\* sockets.  One that was called before the tool was deleted still returns.
Recv(w, pc, Outcomes) ==
  LET c == wtool[w] IN
  /\ Running /\ wpc[w] = pc
  /\ IF inbox[c] > 0
     THEN /\ inbox' = [inbox EXCEPT ![c] = @ - 1]
          /\ \E o \in Outcomes : wpc' = [wpc EXCEPT ![w] = o]
     ELSE /\ fin[c]
          /\ wpc' = [wpc EXCEPT ![w] = "close"]
          /\ UNCHANGED inbox
  /\ UNCHANGED <<sock, fd, sent, fin, rst, epollVars, loopVars, tasks, wtool, fault>>

\* A zero length makes read return 0, a negative one makes it return that
\* number, with whatever an earlier call left in errno.  One too long keeps
\* the worker reading until the peer ends the connection (peers that send so
\* much that they overrun the buffer are left out).
AfterHead ==
  UNION {CASE f = "good"     -> {"body"}
           [] f = "zero"     -> {"close"}
           [] f = "negative" -> {IF e = "EAGAIN" THEN "rearm" ELSE "close" : e \in Errnos}
           [] f = "long"     -> {"long"} : f \in Frames}

RecvHead(w) == Recv(w, "head", AfterHead)
RecvBody(w) == Recv(w, "body", {"work"})
RecvLong(w) == Recv(w, "long", {"long"})

\* dowork is called through the tool and returns.
DoWork(w) ==
  /\ Running /\ wpc[w] = "work" /\ ~Dangles(w)
  /\ Return(w)
  /\ UNCHANGED <<sock, fd, netVars, epollVars, loopVars, tasks, fault>>

\* The socket that has the local descriptor now is registered anew, with the
\* pointer to this worker's tool.
Rearm(w) ==
  /\ Running /\ wpc[w] = "rearm"
  /\ modFd(localFd(w), wtool[w])
  /\ Return(w)
  /\ UNCHANGED <<sock, fd, netVars, reg, loopVars, tasks, fault>>

\* getUid for the goodbye and, in _closeConnection, getFd.
Close(w) ==
  /\ Running /\ wpc[w] = "close" /\ ~Dangles(w)
  /\ wpc' = [wpc EXCEPT ![w] = "unregister"]
  /\ UNCHANGED <<sock, fd, netVars, epollVars, loopVars, tasks, wtool, fault>>

\* Mutant: no delFd.
SkipDelFd(w) ==
  /\ Running /\ wpc[w] = "unregister"
  /\ wpc' = [wpc EXCEPT ![w] = "delete"]
  /\ UNCHANGED <<sock, fd, netVars, epollVars, loopVars, tasks, wtool, fault>>

\* delFd with the local descriptor.
DelFd(w) ==
  /\ Running /\ wpc[w] = "unregister"
  /\ delFd(localFd(w))
  /\ wpc' = [wpc EXCEPT ![w] = "delete"]
  /\ UNCHANGED <<sock, fd, netVars, ptr, level, loopVars, tasks, wtool, fault>>

\* close(m_fd) takes a registered socket out of epoll, unless another thread is
\* inside recv on it.
CloseSocket(c, w) ==
  Unregister(IF Receiving(c, Workers \ {w}) THEN {} ELSE {c})

\* Mutant: deletes the tool and then goes on to use it.
DeleteTooEarly(w) ==
  LET c == wtool[w] IN
  /\ Running /\ wpc[w] = "delete" /\ ~Dangles(w)
  /\ sock' = [sock EXCEPT ![c] = "gone"]
  /\ CloseSocket(c, w)
  /\ wpc' = [wpc EXCEPT ![w] = "work"]
  /\ UNCHANGED <<fd, netVars, ptr, level, loopVars, tasks, wtool, fault>>

\* delUser(tool->getUid()), delete tool, whose destructor closes the socket.
\* The goodbye that follows uses no member of the deleted tool.
Delete(w) ==
  LET c == wtool[w] IN
  /\ Running /\ wpc[w] = "delete" /\ ~Dangles(w)
  /\ sock' = [sock EXCEPT ![c] = "gone"]
  /\ CloseSocket(c, w)
  /\ Return(w)
  /\ UNCHANGED <<fd, netVars, ptr, level, loopVars, tasks, fault>>

-------------------------------------------------------------------------------
Loop == Poll \/ EndBatch \/ Accept \/ (\E c \in Conns : HandleEvent(c)) \/ AddTask

Worker(w) ==
  \/ \E c \in Conns : TakeTask(w, c)
  \/ UseFreed(w) \/ RecvHead(w) \/ RecvBody(w) \/ RecvLong(w)
  \/ DoWork(w) \/ Rearm(w) \/ Close(w) \/ DelFd(w) \/ Delete(w)

Peer(c) ==
  \/ Connect(c) \/ SendWhole(c) \/ SendHead(c) \/ SendRest(c)
  \/ PeerClose(c) \/ PeerReset(c)

Next ==
        \/ \E c \in Conns : Peer(c)
        \/ Loop
        \/ \E w \in Workers : Worker(w)

Spec == Init /\ [][Next]_vars

\* The threads of the server keep running; peers owe nothing.
Fairness ==
  /\ WF_vars(Loop)
  /\ \A w \in Workers : WF_vars(Worker(w))

-------------------------------------------------------------------------------
(***************************************************************************)
(* Properties                                                               *)
(***************************************************************************)
\* Every variable has its type.
TypeOK ==
  /\ sock \in [Conns -> {"away", "backlog", "open", "gone"}]
  /\ fd \in [Conns -> Fds \cup {NoFd}]
  /\ inbox \in [Conns -> Nat] /\ sent \in [Conns -> 0..MaxUnits]
  /\ fin \in [Conns -> BOOLEAN] /\ rst \in [Conns -> BOOLEAN]
  /\ reg \in [Conns -> BOOLEAN] /\ level \in [Conns -> BOOLEAN]
  /\ ptr \in [Conns -> Conns]
  /\ ready \subseteq Conns \cup {Listen} /\ batch \subseteq Conns \cup {Listen}
  /\ mpc \in {"wait", "loop", "add"} /\ cur \in Conns \cup {NoConn}
  /\ tasks \in [Conns -> Nat]
  /\ wpc \in [Workers -> {"idle", "head", "body", "long", "work", "rearm",
                      "close", "unregister", "delete"}]
  /\ wtool \in [Workers -> Conns \cup {NoConn}]
  /\ fault \in {"none", "use_after_free"}

\* Copies of the pointer to c that some part of the server still holds.
Holders(c) == {w \in Workers : wtool[w] = c}
Reported(c) == \E d \in ready \cap Conns : ptr[d] = c
One(condition) == IF condition THEN 1 ELSE 0
Refs(c) == One(Reported(c)) + One(c \in batch) + One(c = cur)
           + tasks[c] + Cardinality(Holders(c))

\* What epoll holds is an open connection, under the pointer to its own tool,
\* but for one case: a modFd that came after the connection was closed and its
\* descriptor given to another has stored a deleted tool there, level-triggered
\* (TcpServer.cpp:69).
EpollAlive ==
  \A d \in Conns :
    /\ d \in ready => reg[d]
    /\ reg[d] => /\ sock[d] = "open"
                 /\ \/ ptr[d] = d
                    \/ level[d] /\ sock[ptr[d]] = "gone" /\ fd[ptr[d]] = fd[d]

\* delFd comes before delete: once a tool is deleted nothing makes a new
\* reference to it, and what is left of it drains away, unless its descriptor
\* has been given to another connection and a late modFd stored it there.
NewReferencesByFd ==
  [][\A c \in Conns :
       sock[c] = "gone" /\ Refs(c)' > Refs(c) =>
         \E d \in Conns : sock[d] = "open" /\ fd[d] = fd[c] /\ ptr[d] = c]_vars

\* epoll forgets no connection that is open: one that is not registered is being
\* closed, or a worker that meant an earlier one with its descriptor has taken
\* it out (TcpServer.cpp:31) and is about to use the tool it has lost.
NoneForgotten ==
  \A d \in Conns :
    sock[d] = "open" /\ ~reg[d] =>
      \E w \in Workers : wpc[w] = "delete" /\ localFd(w) = fd[d]

\* Peers that take turns with the server: messages arrive whole, nothing new
\* happens on a connection that is being looked after, one peer connects at a
\* time.  Only the peers are restrained, the server's threads interleave freely.
Calm == /\ \A c \in Conns : /\ Refs(c) <= 1
                             /\ inbox[c] + (IF fin[c] THEN 2 ELSE 0) <= 2
        /\ Cardinality(Backlog) <= 1

\* Peers that are only kept from what the code cannot stand: nothing new happens
\* on a connection that is being looked after when it may come to an end, as it
\* does when its peer closes or a header decodes to a length that is not positive.
Harmless == Frames \subseteq {"good", "long"}
PolitePeer(c) == Peer(c) /\ (Refs(c)' <= 1 \/ (Harmless /\ ~fin'[c]))

PoliteNext ==
  \/ \E c \in Conns : PolitePeer(c)
  \/ Loop
  \/ \E w \in Workers : Worker(w)

PoliteSpec == Init /\ [][PoliteNext]_vars

CalmPeer(c) ==
  (Connect(c) \/ SendWhole(c) \/ PeerClose(c) \/ PeerReset(c)) /\ Calm'

CalmNext ==
  \/ \E c \in Conns : CalmPeer(c)
  \/ Loop
  \/ \E w \in Workers : Worker(w)

\* The behaviours of the server with such peers.
CalmSpec == Init /\ [][CalmNext]_vars /\ Fairness


(***************************************************************************)
(* What comments of the source say and the code does not do                 *)
(***************************************************************************)
\* Epoller.cpp:69, _readcb can get at the tool object through the pointer.
ToolAvailable == fault = "none"

\* TcpTool.cpp:16 and 39, read obtains the length of the message, then the
\* message, and has it processed: a message that has arrived gets to dowork.
MessagesProcessed ==
  \A c \in Conns :
    sock[c] = "open" /\ inbox[c] >= 2 ~> \E w \in Workers : wtool[w] = c /\ wpc[w] = "work"
===============================================================================
