----------------------------- MODULE ReactorProofs -----------------------------
(***************************************************************************)
(* Theorems about Reactor, for every set of connections, descriptors and    *)
(* workers, every queue size and every kind of frames.                      *)
(*                                                                          *)
(* Types come first, then which connections can be referred to at all and   *)
(* what epoll holds, given that a descriptor can be closed and given out    *)
(* again while a worker still has it in a variable.  From these follows how *)
(* references to a deleted tool come about, and that with polite peers there *)
(* are none.  Last comes what the length field of a message can decode to.  *)
(***************************************************************************)
EXTENDS Reactor, Framing, FiniteSetTheorems, TLAPS

\* A thread that handles an event or a task has a tool to handle.
HandInv ==
  /\ mpc = "add" => cur \in Conns
  /\ \A w \in Workers : wpc[w] # "idle" => wtool[w] \in Conns

TypeInv == TypeOK /\ HandInv

Made(c) == sock[c] \in {"open", "gone"}

\* No two open connections have the same descriptor.
OwnFds ==
  \A c, d \in Conns :
    sock[c] = "open" /\ sock[d] = "open" /\ fd[c] = fd[d] => c = d

\* Only accepted connections are referred to, and between delFd and delete
\* epoll does not know the connection any more.
RefInv ==
  /\ EpollAlive
  /\ OwnFds
  /\ \A c \in Conns : c \in batch \/ tasks[c] > 0 => Made(c)
  /\ mpc = "add" => Made(cur)
  /\ \A w \in Workers : wpc[w] # "idle" => Made(wtool[w])
  /\ \A w \in Workers : wpc[w] = "delete" => ~reg[wtool[w]]

Inv == TypeInv /\ RefInv

-------------------------------------------------------------------------------
(***************************************************************************)
(* Types                                                                    *)
(***************************************************************************)
LEMMA AfterHeadStates ==
  /\ AfterHead \subseteq {"body", "long", "close", "rearm"}
  /\ "rearm" \in AfterHead => "EAGAIN" \in Errnos
  /\ "close" \in AfterHead => ~Harmless
<1> DEFINE Negative == {IF e = "EAGAIN" THEN "rearm" ELSE "close" : e \in Errnos}
           Goes(f) == CASE f = "good"     -> {"body"}
                        [] f = "zero"     -> {"close"}
                        [] f = "negative" -> Negative
                        [] f = "long"     -> {"long"}
<1>0. /\ Negative \subseteq {"close", "rearm"}
      /\ "rearm" \in Negative => "EAGAIN" \in Errnos
  OBVIOUS
<1>1. ASSUME NEW f \in Frames
      PROVE  /\ Goes(f) \subseteq {"body", "long", "close", "rearm"}
             /\ "rearm" \in Goes(f) => "EAGAIN" \in Errnos
             /\ "close" \in Goes(f) => f \in {"zero", "negative"}
  <2> HIDE DEF Negative
  <2> QED
    BY <1>0, ReactorAssumption
<1>2. AfterHead = UNION {Goes(f) : f \in Frames}
  BY Zenon DEF AfterHead
<1> HIDE DEF Goes
<1>3. QED
  BY <1>1, <1>2 DEF Harmless

\* A recv keeps the types, whatever it goes on to.
LEMMA RecvTyped ==
  ASSUME NEW w \in Workers, NEW pc \in {"head", "body", "long"}, NEW Outcomes,
         Outcomes \subseteq {"body", "long", "close", "rearm", "work"},
         TypeInv, Recv(w, pc, Outcomes)
  PROVE  TypeInv'
<1>1. wtool[w] \in Conns
  BY DEF TypeInv, HandInv, Recv
<1>2. /\ UNCHANGED <<sock, fd, sent, fin, rst, reg, ptr, level, ready, batch, mpc,
                     cur, tasks, wtool, fault>>
      /\ inbox' \in [Conns -> Nat]
      /\ \E o \in {"body", "long", "close", "rearm", "work"} :
           wpc' = [wpc EXCEPT ![w] = o]
  BY <1>1 DEF TypeInv, TypeOK, Recv, epollVars, loopVars
<1>3. QED
  BY <1>1, <1>2 DEF TypeInv, TypeOK, HandInv

LEMMA InitTyped == Init => TypeInv
  BY ReactorAssumption DEF Init, TypeInv, TypeOK, HandInv

LEMMA ArriveTyped ==
  ASSUME NEW c \in Conns, NEW n \in 1..2, TypeInv, Arrive(c, n)
  PROVE  TypeInv'
  BY ReactorAssumption
     DEF Arrive, Report, TypeInv, TypeOK, HandInv, loopVars, workerVars

LEMMA NextTyped == TypeInv /\ [Next]_vars => TypeInv'
<1> SUFFICES ASSUME TypeInv, [Next]_vars
             PROVE  TypeInv'
  OBVIOUS
<1> USE DEF TypeInv, TypeOK, HandInv, netVars, epollVars, loopVars, workerVars
<1>1. ASSUME NEW c \in Conns, Peer(c)
      PROVE  TypeInv'
  <2>1. CASE Connect(c)
    BY <2>1 DEF Connect
  <2>2. CASE SendWhole(c) \/ SendHead(c) \/ SendRest(c)
    BY <2>2, ArriveTyped DEF SendWhole, SendHead, SendRest
  <2>3. CASE PeerClose(c)
    BY <2>3 DEF PeerClose, Report
  <2>4. CASE PeerReset(c)
    BY <2>4 DEF PeerReset, Report
  <2>5. QED
    BY <1>1, <2>1, <2>2, <2>3, <2>4 DEF Peer
<1>2. CASE Poll
  BY <1>2 DEF Poll, Events
<1>3. CASE EndBatch
  BY <1>3 DEF EndBatch
<1>4. CASE Accept
  <2>1. /\ batch' = batch \ {Listen}
        /\ UNCHANGED <<netVars, level, mpc, cur, tasks, workerVars, fault>>
    BY <1>4 DEF Accept
  <2>2. CASE UNCHANGED <<sock, fd, reg, ptr, ready>>
    BY <2>1, <2>2
  <2>3. ASSUME NEW c \in Conns, NEW f \in Fds, NewTool(c, f), addFd(c)
        PROVE  TypeInv'
    BY <2>1, <2>3 DEF NewTool, addFd
  <2>4. ASSUME NEW c \in Conns, sock' = [sock EXCEPT ![c] = "gone"],
               UNCHANGED <<fd, reg, ptr, ready>>
        PROVE  TypeInv'
    BY <2>1, <2>4
  <2>5. QED
    BY <1>4, <2>2, <2>3, <2>4 DEF Accept, Backlog
<1>5. ASSUME NEW c \in Conns, HandleEvent(c)
      PROVE  TypeInv'
  BY <1>5 DEF HandleEvent
<1>6. CASE AddTask
  BY <1>6 DEF AddTask
<1>7. ASSUME NEW w \in Workers, Worker(w)
      PROVE  TypeInv'
  <2>1. ASSUME NEW c \in Conns, TakeTask(w, c)
        PROVE  TypeInv'
    BY <2>1 DEF TakeTask
  <2>2. CASE UseFreed(w)
    BY <2>2 DEF UseFreed
  <2>3. CASE RecvHead(w)
    BY <2>3, RecvTyped, AfterHeadStates DEF RecvHead
  <2>4. CASE RecvBody(w)
    BY <2>4, RecvTyped DEF RecvBody
  <2>5. CASE RecvLong(w)
    BY <2>5, RecvTyped DEF RecvLong
  <2>6. CASE DoWork(w)
    BY <2>6 DEF DoWork, Return
  <2>7. CASE Rearm(w)
    <3>1. /\ wtool[w] \in Conns /\ Return(w)
          /\ modFd(localFd(w), wtool[w])
          /\ UNCHANGED <<sock, fd, netVars, reg, loopVars, tasks, fault>>
      BY <2>7 DEF Rearm
    <3>2. /\ level' \in [Conns -> BOOLEAN] /\ ptr' \in [Conns -> Conns]
          /\ ready' \subseteq Conns \cup {Listen}
      BY <3>1 DEF modFd, Registered
    <3>3. QED
      BY <3>1, <3>2 DEF Return
  <2>8. CASE Close(w)
    BY <2>8 DEF Close
  <2>9. CASE DelFd(w)
    BY <2>9 DEF DelFd, delFd, Unregister
  <2>10. CASE Delete(w)
    BY <2>10 DEF Delete, CloseSocket, Unregister, Return
  <2>11. QED
    BY <1>7, <2>1, <2>2, <2>3, <2>4, <2>5, <2>6, <2>7, <2>8, <2>9, <2>10 DEF Worker
<1>8. CASE UNCHANGED vars
  BY <1>8 DEF vars
<1>9. QED
  BY <1>1, <1>2, <1>3, <1>4, <1>5, <1>6, <1>7, <1>8 DEF Next, Loop

\* Every variable of the reactor keeps its type (Epoller.cpp, TcpServer.cpp).
THEOREM ReactorTypeCorrect == Spec => []TypeOK
<1>1. Init => TypeInv
  BY InitTyped
<1>2. TypeInv /\ [Next]_vars => TypeInv'
  BY NextTyped
<1>3. TypeInv => TypeOK
  BY DEF TypeInv
<1>4. QED
  BY <1>1, <1>2, <1>3, PTL DEF Spec

-------------------------------------------------------------------------------
(***************************************************************************)
(* What epoll holds exists                                                  *)
(***************************************************************************)
LEMMA InitReferred == Init => RefInv
  BY ReactorAssumption DEF Init, RefInv, EpollAlive, OwnFds, Made

\* Steps that change no socket and no registration report what is registered.
LEMMA EpollKept ==
  ASSUME TypeInv, EpollAlive, OwnFds,
         UNCHANGED <<sock, fd, reg, ptr, level>>,
         \A d \in Conns : d \in ready' => d \in ready \/ reg[d]
  PROVE  EpollAlive' /\ OwnFds'
  BY DEF EpollAlive, OwnFds, TypeInv, TypeOK

\* ... and leave the workers' part of RefInv alone.
LEMMA HandsKept ==
  ASSUME TypeInv, RefInv, UNCHANGED <<sock, reg, batch, mpc, cur, tasks>>,
         NEW w \in Workers,
         \/ UNCHANGED <<wpc, wtool>>
         \/ Return(w)
         \/ /\ wpc[w] # "idle" /\ wtool' = wtool
            /\ \E o \in {"body", "long", "work", "rearm", "close", "unregister"} :
                 wpc' = [wpc EXCEPT ![w] = o],
         EpollAlive' /\ OwnFds'
  PROVE  RefInv'
  BY DEF RefInv, Made, Return, TypeInv, TypeOK

\* Arrivals report only what is registered.
LEMMA ReportReferred ==
  ASSUME TypeInv, RefInv,
         UNCHANGED <<sock, fd, reg, ptr, level, loopVars, tasks, workerVars>>,
         NEW c \in Conns, Report(c)
  PROVE  RefInv'
<1>1. EpollAlive' /\ OwnFds'
  BY EpollKept DEF Report, RefInv
<1>2. QED
  BY <1>1 DEF RefInv, Made, loopVars, workerVars

LEMMA ConnectReferred ==
  ASSUME TypeInv, RefInv, NEW c \in Conns, Connect(c)
  PROVE  RefInv'
<1>1. /\ sock[c] = "away" /\ sock' = [sock EXCEPT ![c] = "backlog"]
      /\ ready' = ready \cup {Listen}
      /\ UNCHANGED <<fd, reg, ptr, level, batch, mpc, cur, tasks, wpc, wtool>>
  BY DEF Connect, loopVars, workerVars
<1>2. \A d \in Conns : Made(d) => Made(d)'
  BY <1>1 DEF Made, TypeInv, TypeOK
<1>3. EpollAlive' /\ OwnFds'
  BY <1>1, ReactorAssumption DEF RefInv, EpollAlive, OwnFds, TypeInv, TypeOK
<1>4. QED
  BY <1>1, <1>2, <1>3, ReactorAssumption DEF RefInv, TypeInv, HandInv

\* What epoll_wait returns belongs to tools that were made, deleted ones among
\* them when a registration has been overwritten.
LEMMA PointersMade ==
  ASSUME TypeInv, EpollAlive, NEW d \in Conns, reg[d]
  PROVE  ptr[d] \in Conns /\ Made(ptr[d])
  BY DEF EpollAlive, Made, TypeInv, TypeOK

LEMMA AcceptReferred ==
  ASSUME TypeInv, RefInv, Accept
  PROVE  RefInv'
<1>1. /\ UNCHANGED <<level, mpc, cur, tasks, wpc, wtool>>
      /\ batch' = batch \ {Listen}
  BY DEF Accept, workerVars
<1>2. CASE UNCHANGED <<sock, fd, reg, ptr, ready>>
  BY <1>1, <1>2 DEF RefInv, EpollAlive, OwnFds, Made
<1>3. ASSUME NEW c \in Backlog, NEW f \in Fds \ InUse, NewTool(c, f), addFd(c)
      PROVE  RefInv'
  <2>1. /\ c \in Conns /\ sock[c] = "backlog"
        /\ sock' = [sock EXCEPT ![c] = "open"] /\ fd' = [fd EXCEPT ![c] = f]
        /\ reg' = [reg EXCEPT ![c] = TRUE] /\ ptr' = [ptr EXCEPT ![c] = c]
        /\ ready' = ready \cup {c}
        /\ \A d \in Conns : sock[d] = "open" => fd[d] # f
    BY <1>3 DEF Backlog, NewTool, addFd, InUse
  <2>2. EpollAlive'
    BY <1>1, <2>1 DEF RefInv, EpollAlive, TypeInv, TypeOK
  <2>3. OwnFds'
    BY <2>1 DEF RefInv, OwnFds, TypeInv, TypeOK
  <2>4. \A d \in Conns : Made(d) => Made(d)' /\ d # c
    BY <2>1 DEF Made, TypeInv, TypeOK
  <2>5. QED
    BY <1>1, <2>1, <2>2, <2>3, <2>4 DEF RefInv, TypeInv, TypeOK, HandInv
<1>4. ASSUME NEW c \in Backlog, sock' = [sock EXCEPT ![c] = "gone"],
             UNCHANGED <<fd, reg, ptr, ready>>
      PROVE  RefInv'
  <2>1. c \in Conns /\ sock[c] = "backlog"
    BY DEF Backlog
  <2>2. EpollAlive' /\ OwnFds'
    BY <1>1, <1>4, <2>1 DEF RefInv, EpollAlive, OwnFds, TypeInv, TypeOK
  <2>3. \A d \in Conns : Made(d) => Made(d)'
    BY <1>4, <2>1 DEF Made, TypeInv, TypeOK
  <2>4. QED
    BY <1>1, <1>4, <2>2, <2>3 DEF RefInv, TypeInv, HandInv
<1>5. QED
  BY <1>2, <1>3, <1>4 DEF Accept

LEMMA LoopReferred ==
  ASSUME TypeInv, RefInv, Loop
  PROVE  RefInv'
<1>1. CASE Poll
  <2>1. /\ UNCHANGED <<sock, fd, reg, ptr, level, cur, tasks, wpc, wtool>>
        /\ mpc' = "loop"
        /\ \A d \in Conns : d \in ready' => d \in ready
        /\ \A c \in batch' : c = Listen \/ \E d \in Conns : d \in ready /\ c = ptr[d]
    BY <1>1 DEF Poll, Events, workerVars, TypeInv, TypeOK
  <2>2. EpollAlive' /\ OwnFds'
    BY <2>1, EpollKept DEF RefInv
  <2>3. \A c \in Conns : c \in batch' => Made(c)'
    <3>1. \A d \in Conns : d \in ready => Made(ptr[d])
      BY PointersMade DEF RefInv, EpollAlive
    <3>2. QED
      BY <2>1, <3>1, ReactorAssumption DEF Made
  <2>4. QED
    BY <2>1, <2>2, <2>3 DEF RefInv, Made
<1>2. CASE EndBatch
  BY <1>2 DEF EndBatch, RefInv, EpollAlive, OwnFds, Made, epollVars, workerVars
<1>3. CASE Accept
  BY <1>3, AcceptReferred
<1>4. ASSUME NEW c \in Conns, HandleEvent(c)
      PROVE  RefInv'
  <2>1. /\ UNCHANGED <<sock, fd, reg, ptr, level, ready, tasks, wpc, wtool>>
        /\ c \in batch /\ batch' \subseteq batch
        /\ cur' = c \/ UNCHANGED <<cur, mpc>>
    BY <1>4 DEF HandleEvent, epollVars, loopVars, workerVars
  <2>2. EpollAlive' /\ OwnFds'
    BY <2>1, EpollKept DEF RefInv
  <2>3. QED
    BY <2>1, <2>2 DEF RefInv, Made
<1>5. CASE AddTask
  <2>1. /\ UNCHANGED <<sock, fd, reg, ptr, level, ready, batch, wpc, wtool>>
        /\ mpc' = "loop" /\ mpc = "add" /\ tasks' = [tasks EXCEPT ![cur] = @ + 1]
    BY <1>5 DEF AddTask, epollVars, loopVars, workerVars
  <2>2. EpollAlive' /\ OwnFds'
    BY <2>1, EpollKept DEF RefInv
  <2>3. \A c \in Conns : tasks'[c] > 0 => tasks[c] > 0 \/ c = cur
    BY <2>1 DEF TypeInv, TypeOK
  <2>4. QED
    BY <2>1, <2>2, <2>3 DEF RefInv, Made
<1>6. QED
  BY <1>1, <1>2, <1>3, <1>4, <1>5 DEF Loop

\* A late modFd stores a deleted tool in the registration of another connection
\* that has the descriptor; in time it finds the tool's own.
LEMMA RearmReferred ==
  ASSUME TypeInv, RefInv, NEW w \in Workers, Rearm(w)
  PROVE  RefInv'
<1>1. /\ UNCHANGED <<sock, fd, reg, batch, mpc, cur, tasks>> /\ Return(w)
      /\ wtool[w] \in Conns /\ Made(wtool[w])
  BY DEF Rearm, loopVars, RefInv, TypeInv, HandInv
<1>2. \A d \in Conns : /\ d \in ready' => d \in ready \/ reg[d]
                       /\ level[d] => level'[d]
                       /\ \/ ptr'[d] = ptr[d]
                          \/ /\ sock[d] = "open" /\ reg[d] /\ level'[d]
                             /\ fd[d] = fd[wtool[w]] /\ ptr'[d] = wtool[w]
  BY DEF Rearm, modFd, Registered, localFd, TypeInv, TypeOK
<1>3. OwnFds'
  BY <1>1 DEF RefInv, OwnFds
<1>4. EpollAlive'
  BY <1>1, <1>2 DEF RefInv, EpollAlive, OwnFds, Made
<1>5. QED
  BY <1>1, <1>3, <1>4, HandsKept

LEMMA DelFdReferred ==
  ASSUME TypeInv, RefInv, NEW w \in Workers, DelFd(w)
  PROVE  RefInv'
<1>1. /\ UNCHANGED <<sock, fd, ptr, level, batch, mpc, cur, tasks, wtool>>
      /\ wpc' = [wpc EXCEPT ![w] = "delete"]
      /\ wtool[w] \in Conns /\ Made(wtool[w])
  BY DEF DelFd, loopVars, RefInv, TypeInv, HandInv
<1>2. /\ reg' = [d \in Conns |-> reg[d] /\ d \notin Registered(fd[wtool[w]])]
      /\ ready' = ready \ Registered(fd[wtool[w]])
  BY DEF DelFd, delFd, Unregister, localFd
<1>3. EpollAlive' /\ OwnFds'
  BY <1>1, <1>2 DEF RefInv, EpollAlive, OwnFds, TypeInv, TypeOK
<1>4. ~reg'[wtool[w]]
  BY <1>1, <1>2 DEF RefInv, EpollAlive, Registered
<1>5. \A d \in Conns : reg'[d] => reg[d]
  BY <1>2
<1>6. QED
  BY <1>1, <1>3, <1>4, <1>5 DEF RefInv, Made, TypeInv, TypeOK, HandInv

LEMMA DeleteReferred ==
  ASSUME TypeInv, RefInv, NEW w \in Workers, Delete(w)
  PROVE  RefInv'
<1>1. /\ UNCHANGED <<fd, ptr, level, batch, mpc, cur, tasks>> /\ Return(w)
      /\ sock' = [sock EXCEPT ![wtool[w]] = "gone"]
      /\ wtool[w] \in Conns /\ Made(wtool[w]) /\ ~reg[wtool[w]]
  BY DEF Delete, loopVars, RefInv, TypeInv, HandInv
<1>2. \A d \in Conns : /\ reg'[d] = (reg[d] /\ d # wtool[w])
                       /\ d \in ready' => d \in ready /\ d # wtool[w]
  BY <1>1 DEF Delete, CloseSocket, Unregister, RefInv, EpollAlive, TypeInv, TypeOK
<1>3. EpollAlive' /\ OwnFds'
  BY <1>1, <1>2 DEF RefInv, EpollAlive, OwnFds, TypeInv, TypeOK
<1>4. \A d \in Conns : (Made(d) => Made(d)') /\ (reg'[d] => reg[d])
  BY <1>1, <1>2 DEF Made, TypeInv, TypeOK
<1>5. QED
  BY <1>1, <1>3, <1>4 DEF RefInv, Return, TypeInv, TypeOK, HandInv

LEMMA WorkerReferred ==
  ASSUME TypeInv, RefInv, NEW w \in Workers, Worker(w)
  PROVE  RefInv'
<1>1. ASSUME NEW c \in Conns, TakeTask(w, c)
      PROVE  RefInv'
  <2>1. /\ UNCHANGED <<sock, fd, reg, ptr, level, ready, batch, mpc, cur>>
        /\ tasks[c] > 0 /\ tasks' = [tasks EXCEPT ![c] = @ - 1]
        /\ \/ UNCHANGED <<wpc, wtool>>
           \/ /\ wpc' = [wpc EXCEPT ![w] = "head"]
              /\ wtool' = [wtool EXCEPT ![w] = c]
    BY <1>1 DEF TakeTask, epollVars, loopVars, workerVars
  <2>2. EpollAlive' /\ OwnFds'
    BY <2>1, EpollKept DEF RefInv
  <2>3. \A d \in Conns : tasks'[d] > 0 => tasks[d] > 0
    BY <2>1 DEF TypeInv, TypeOK
  <2>4. QED
    BY <2>1, <2>2, <2>3 DEF RefInv, Made, TypeInv, TypeOK
<1>2. CASE UseFreed(w) \/ DoWork(w) \/ Close(w)
  <2>1. /\ UNCHANGED <<sock, fd, reg, ptr, level, ready, batch, mpc, cur, tasks>>
        /\ \/ UNCHANGED <<wpc, wtool>>
           \/ Return(w)
           \/ wpc[w] # "idle" /\ wtool' = wtool /\ wpc' = [wpc EXCEPT ![w] = "unregister"]
    BY <1>2 DEF UseFreed, DoWork, Close, epollVars, loopVars, workerVars
  <2>2. EpollAlive' /\ OwnFds'
    BY <2>1, EpollKept DEF RefInv
  <2>3. QED
    BY <2>1, <2>2, HandsKept
<1>3. ASSUME NEW pc \in {"head", "body", "long"}, NEW Outcomes,
             Outcomes \subseteq {"body", "long", "close", "rearm", "work"},
             Recv(w, pc, Outcomes)
      PROVE  RefInv'
  <2>1. /\ UNCHANGED <<sock, fd, reg, ptr, level, ready, batch, mpc, cur, tasks, wtool>>
        /\ wpc[w] # "idle"
        /\ \E o \in {"body", "long", "work", "rearm", "close", "unregister"} :
             wpc' = [wpc EXCEPT ![w] = o]
    BY <1>3 DEF Recv, epollVars, loopVars
  <2>2. EpollAlive' /\ OwnFds'
    BY <2>1, EpollKept DEF RefInv
  <2>3. QED
    BY <2>1, <2>2, HandsKept
<1>4. CASE RecvHead(w)
  BY <1>3, <1>4, AfterHeadStates DEF RecvHead
<1>5. CASE RecvBody(w)
  BY <1>3, <1>5 DEF RecvBody
<1>6. CASE RecvLong(w)
  BY <1>3, <1>6 DEF RecvLong
<1>7. QED
  BY <1>1, <1>2, <1>4, <1>5, <1>6, RearmReferred, DelFdReferred, DeleteReferred DEF Worker

LEMMA NextReferred == TypeInv /\ RefInv /\ [Next]_vars => RefInv'
<1> SUFFICES ASSUME TypeInv, RefInv, [Next]_vars
             PROVE  RefInv'
  OBVIOUS
<1>1. ASSUME NEW c \in Conns, Peer(c)
      PROVE  RefInv'
  <2>1. CASE Connect(c)
    BY <2>1, ConnectReferred
  <2>2. CASE SendWhole(c) \/ SendHead(c) \/ SendRest(c)
    BY <2>2, ReportReferred DEF SendWhole, SendHead, SendRest, Arrive
  <2>3. CASE PeerClose(c)
    BY <2>3, ReportReferred DEF PeerClose
  <2>4. CASE PeerReset(c)
    BY <2>4, ReportReferred DEF PeerReset
  <2>5. QED
    BY <1>1, <2>1, <2>2, <2>3, <2>4 DEF Peer
<1>2. CASE Loop
  BY <1>2, LoopReferred
<1>3. CASE \E w \in Workers : Worker(w)
  BY <1>3, WorkerReferred
<1>4. CASE UNCHANGED vars
  BY <1>4 DEF vars, epollVars, loopVars, workerVars, RefInv, EpollAlive, OwnFds, Made
<1>5. QED
  BY <1>1, <1>2, <1>3, <1>4 DEF Next

\* What is registered with epoll or about to be reported is an open connection
\* under its own tool; only a modFd that came after its descriptor changed hands
\* (TcpServer.cpp:69) has put a deleted tool there, and level-triggered.
THEOREM EpollHoldsLive == Spec => []EpollAlive
<1>1. Init => Inv
  BY InitTyped, InitReferred DEF Inv
<1>2. Inv /\ [Next]_vars => Inv'
  BY NextTyped, NextReferred DEF Inv
<1>3. Inv => EpollAlive
  BY DEF Inv, RefInv
<1>4. QED
  BY <1>1, <1>2, <1>3, PTL DEF Spec

-------------------------------------------------------------------------------
(***************************************************************************)
(* epoll forgets nothing that is open                                       *)
(***************************************************************************)
\* Steps that take nothing out of epoll and no worker out of _closeConnection.
LEMMA ForgottenKept ==
  ASSUME Inv, NoneForgotten, UNCHANGED <<sock, fd, reg>>,
         \A w \in Workers : wpc[w] = "delete" =>
           wpc'[w] = "delete" /\ wtool'[w] = wtool[w]
  PROVE  NoneForgotten'
  BY DEF NoneForgotten, localFd

LEMMA AcceptForgets ==
  ASSUME Inv, NoneForgotten, Accept
  PROVE  NoneForgotten'
<1> USE DEF Inv, TypeInv, TypeOK, HandInv
<1>1. UNCHANGED <<wpc, wtool>>
  BY DEF Accept, workerVars
<1>2. CASE UNCHANGED <<sock, fd, reg>>
  BY <1>1, <1>2, ForgottenKept
<1>3. ASSUME NEW c \in Backlog, NEW f \in Fds, NewTool(c, f), addFd(c)
      PROVE  NoneForgotten'
  <2>1. /\ c \in Conns /\ sock[c] = "backlog" /\ reg' = [reg EXCEPT ![c] = TRUE]
        /\ sock' = [sock EXCEPT ![c] = "open"] /\ fd' = [fd EXCEPT ![c] = f]
    BY <1>3 DEF Backlog, NewTool, addFd
  <2>2. \A w \in Workers : wpc[w] = "delete" => wtool[w] \in Conns \ {c}
    BY <2>1 DEF RefInv, Made
  <2>3. QED
    BY <1>1, <2>1, <2>2 DEF NoneForgotten, localFd
<1>4. ASSUME NEW c \in Backlog, sock' = [sock EXCEPT ![c] = "gone"],
             UNCHANGED <<fd, reg>>
      PROVE  NoneForgotten'
  BY <1>1, <1>4 DEF NoneForgotten, localFd, Backlog
<1>5. QED
  BY <1>2, <1>3, <1>4 DEF Accept

\* What a delFd takes out has the descriptor of the worker that is to delete.
LEMMA DelFdForgets ==
  ASSUME Inv, NoneForgotten, NEW w \in Workers, DelFd(w)
  PROVE  NoneForgotten'
<1> USE DEF Inv, TypeInv, TypeOK
<1>1. /\ UNCHANGED <<sock, fd, wtool>> /\ wpc' = [wpc EXCEPT ![w] = "delete"]
      /\ reg' = [d \in Conns |-> reg[d] /\ d \notin Registered(fd[wtool[w]])]
  BY DEF DelFd, delFd, Unregister, localFd
<1>2. \A d \in Conns : reg[d] /\ ~reg'[d] => fd[d] = fd[wtool[w]]
  BY <1>1 DEF Registered
<1>3. QED
  BY <1>1, <1>2 DEF NoneForgotten, localFd

\* A worker that is done has deleted the one open tool with its descriptor.
LEMMA DeleteForgets ==
  ASSUME Inv, NoneForgotten, NEW w \in Workers, Delete(w)
  PROVE  NoneForgotten'
<1> USE DEF Inv, TypeInv, TypeOK, HandInv
<1>1. /\ UNCHANGED fd /\ Return(w) /\ wtool[w] \in Conns /\ sock[wtool[w]] = "open"
      /\ sock' = [sock EXCEPT ![wtool[w]] = "gone"]
  BY DEF Delete, Dangles, RefInv, Made
<1>2. \A d \in Conns : d # wtool[w] => reg'[d] = reg[d]
  BY DEF Delete, CloseSocket, Unregister
<1>3. \A d \in Conns : sock'[d] = "open" =>
        sock[d] = "open" /\ d # wtool[w] /\ fd[d] # fd[wtool[w]]
  BY <1>1 DEF RefInv, OwnFds
<1>4. QED
  BY <1>1, <1>2, <1>3 DEF NoneForgotten, localFd, Return

LEMMA NextForgets ==
  ASSUME Inv, NoneForgotten, [Next]_vars
  PROVE  NoneForgotten'
<1> USE DEF Inv, TypeInv, TypeOK, HandInv
<1>1. ASSUME NEW c \in Conns, Peer(c)
      PROVE  NoneForgotten'
  <2>1. CASE Connect(c)
    <3>1. /\ UNCHANGED <<fd, reg, wpc, wtool>>
          /\ sock' = [sock EXCEPT ![c] = "backlog"]
      BY <2>1 DEF Connect, workerVars
    <3>2. QED
      BY <3>1 DEF NoneForgotten, localFd
  <2>2. CASE ~Connect(c)
    <3>1. UNCHANGED <<sock, fd, reg, wpc, wtool>>
      BY <1>1, <2>2 DEF Peer, SendWhole, SendHead, SendRest, Arrive, PeerClose,
                        PeerReset, workerVars
    <3>2. QED
      BY <3>1, ForgottenKept
  <2>3. QED
    BY <2>1, <2>2
<1>2. CASE Loop
  <2>1. CASE Accept
    BY <2>1, AcceptForgets
  <2>2. CASE ~Accept
    <3>1. UNCHANGED <<sock, fd, reg, wpc, wtool>>
      BY <1>2, <2>2 DEF Loop, Poll, EndBatch, HandleEvent, AddTask, epollVars, workerVars
    <3>2. QED
      BY <3>1, ForgottenKept
  <2>3. QED
    BY <2>1, <2>2
<1>3. ASSUME NEW w \in Workers, Worker(w)
      PROVE  NoneForgotten'
  <2>1. CASE DelFd(w) \/ Delete(w)
    BY <2>1, DelFdForgets, DeleteForgets
  <2>2. CASE ~(DelFd(w) \/ Delete(w))
    <3>1. UNCHANGED <<sock, fd, reg>>
      BY <1>3, <2>2 DEF Worker, TakeTask, UseFreed, RecvHead, RecvBody, RecvLong,
                        Recv, DoWork, Rearm, Close, epollVars
    <3>2. \A v \in Workers : wpc[v] = "delete" =>
            wpc'[v] = "delete" /\ wtool'[v] = wtool[v]
      BY <1>3, <2>2 DEF Worker, TakeTask, UseFreed, RecvHead, RecvBody, RecvLong,
                        Recv, DoWork, Rearm, Close, Return, workerVars
    <3>3. QED
      BY <3>1, <3>2, ForgottenKept
  <2>3. QED
    BY <2>1, <2>2
<1>4. CASE UNCHANGED vars
  BY <1>4, ForgottenKept DEF vars, epollVars, workerVars
<1>5. QED
  BY <1>1, <1>2, <1>3, <1>4 DEF Next

\* An open connection that is not registered is being closed, or a worker with
\* the descriptor of an earlier one has just taken it out (TcpServer.cpp:31).
THEOREM NothingForgotten == Spec => []NoneForgotten
<1>1. Init => Inv /\ NoneForgotten
  BY InitTyped, InitReferred DEF Init, Inv, NoneForgotten
<1>2. Inv /\ [Next]_vars => Inv'
  BY NextTyped, NextReferred DEF Inv
<1>3. Inv /\ NoneForgotten /\ [Next]_vars => NoneForgotten'
  BY NextForgets
<1>4. QED
  BY <1>1, <1>2, <1>3, PTL DEF Spec

-------------------------------------------------------------------------------
(***************************************************************************)
(* How references to a deleted tool come about                              *)
(***************************************************************************)
LEMMA HoldersCounted ==
  ASSUME NEW c \in Conns
  PROVE  IsFiniteSet(Holders(c)) /\ Cardinality(Holders(c)) \in Nat
BY ReactorAssumption, FS_Subset, FS_CardinalityType DEF Holders

LEMMA RefsCounted ==
  ASSUME NEW c \in Conns, TypeInv
  PROVE  /\ Refs(c) \in Nat
         /\ Reported(c) => Refs(c) >= 1
         /\ c \in batch => Refs(c) >= 1
         /\ tasks[c] > 0 => Refs(c) >= 1
         /\ \A w \in Workers : wtool[w] = c => Refs(c) >= 1
<1>1. tasks[c] \in Nat /\ Cardinality(Holders(c)) \in Nat
  BY HoldersCounted DEF TypeInv, TypeOK
<1>2. \A w \in Workers : wtool[w] = c => Cardinality(Holders(c)) # 0
  BY HoldersCounted, FS_EmptySet DEF Holders
<1>3. QED
  BY <1>1, <1>2 DEF Refs, One

LEMMA RefsNat == TypeInv => \A c \in Conns : Refs(c) \in Nat
  BY RefsCounted

LEMMA RefsNatNext == TypeInv' => \A c \in Conns : Refs(c)' \in Nat
<1>1. TypeInv' => (\A c \in Conns : Refs(c) \in Nat)'
  BY RefsNat, PTL
<1>2. QED
  BY <1>1

\* c loses references or keeps what it has.
LEMMA FewerReferences ==
  ASSUME NEW c \in Conns, TypeInv, TypeInv', Reported(c)' => Reported(c),
         c \in batch' => c \in batch, cur' = c => cur = c,
         tasks'[c] <= tasks[c], Holders(c)' \subseteq Holders(c)
  PROVE  Refs(c)' <= Refs(c)
<1>1. /\ Cardinality(Holders(c)) \in Nat /\ Cardinality(Holders(c)') \in Nat
      /\ Cardinality(Holders(c)') <= Cardinality(Holders(c))
  BY HoldersCounted, FS_Subset, FS_CardinalityType
<1>2. Refs(c) = One(Reported(c)) + One(c \in batch) + One(c = cur) + tasks[c]
                + Cardinality(Holders(c))
  BY DEF Refs
<1>3. Refs(c)' = One(Reported(c)') + One(c \in batch') + One(c = cur')
                 + tasks'[c] + Cardinality(Holders(c)')
  BY DEF Refs, One
<1>4. tasks[c] \in Nat /\ tasks'[c] \in Nat
  BY DEF TypeInv, TypeOK
<1> HIDE DEF Refs
<1>5. QED
  BY <1>1, <1>2, <1>3, <1>4 DEF One

LEMMA GoneStays ==
  ASSUME TypeInv, [Next]_vars, NEW c \in Conns, sock[c] = "gone"
  PROVE  sock'[c] = "gone"
<1> USE DEF TypeInv, TypeOK, HandInv
<1>1. CASE \E d \in Conns : Peer(d)
  BY <1>1 DEF Peer, Connect, SendWhole, SendHead, SendRest, Arrive, PeerClose,
              PeerReset
<1>2. CASE Loop
  BY <1>2 DEF Loop, Poll, EndBatch, Accept, NewTool, Backlog, HandleEvent, AddTask
<1>3. CASE \E w \in Workers : Worker(w)
  BY <1>3 DEF Worker, TakeTask, UseFreed, RecvHead, RecvBody, RecvLong, Recv, DoWork,
              Rearm, Close, DelFd, Delete
<1>4. CASE UNCHANGED vars
  BY <1>4 DEF vars
<1>5. QED
  BY <1>1, <1>2, <1>3, <1>4 DEF Next

\* AddTask turns the event that is being handled into a task.
LEMMA AddTaskDrains ==
  ASSUME NEW c \in Conns, TypeInv, TypeInv', AddTask,
         Reported(c)' => Reported(c)
  PROVE  Refs(c)' <= Refs(c)
<1>1. /\ UNCHANGED <<batch, wtool>> /\ cur' = NoConn /\ cur \in Conns
      /\ tasks' = [tasks EXCEPT ![cur] = @ + 1]
  BY DEF AddTask, workerVars, TypeInv, HandInv
<1>2. Holders(c)' = Holders(c)
  BY <1>1 DEF Holders
<1>3. CASE cur # c
  <2>1. tasks'[c] <= tasks[c] /\ cur' # c
    BY <1>1, <1>3, ReactorAssumption DEF TypeInv, TypeOK
  <2>2. QED
    BY <1>1, <1>2, <2>1, FewerReferences
<1>4. CASE cur = c
  <2>1. Refs(c) = One(Reported(c)) + One(c \in batch) + 1 + tasks[c]
                  + Cardinality(Holders(c))
    BY <1>4 DEF Refs, One
  <2>2. Refs(c)' = One(Reported(c)') + One(c \in batch) + 0 + (tasks[c] + 1)
                   + Cardinality(Holders(c))
    BY <1>1, <1>2, <1>4, ReactorAssumption DEF Refs, One, TypeInv, TypeOK
  <2>3. tasks[c] \in Nat /\ Cardinality(Holders(c)) \in Nat
    BY HoldersCounted DEF TypeInv, TypeOK
  <2> HIDE DEF Refs
  <2>4. QED
    BY <2>1, <2>2, <2>3 DEF One
<1>5. QED
  BY <1>3, <1>4

\* TakeTask turns a task into a worker that handles it.
LEMMA TakeTaskDrains ==
  ASSUME NEW c \in Conns, NEW w \in Workers, NEW d \in Conns,
         TypeInv, TypeInv', TakeTask(w, d),
         Reported(c)' => Reported(c)
  PROVE  Refs(c)' <= Refs(c)
<1>1. /\ UNCHANGED <<batch, cur>> /\ tasks[d] > 0
      /\ tasks' = [tasks EXCEPT ![d] = @ - 1]
      /\ wtool' = wtool \/ wtool' = [wtool EXCEPT ![w] = d]
  BY DEF TakeTask, loopVars, workerVars
<1>2. CASE d # c \/ wtool' = wtool
  <2>1. Holders(c)' \subseteq Holders(c)
    BY <1>1, <1>2 DEF Holders, TypeInv, TypeOK
  <2>2. tasks'[c] <= tasks[c]
    BY <1>1 DEF TypeInv, TypeOK
  <2>3. QED
    BY <1>1, <2>1, <2>2, FewerReferences
<1>3. CASE d = c /\ wtool' = [wtool EXCEPT ![w] = d]
  <2>1. Holders(c)' = Holders(c) \cup {w}
    BY <1>1, <1>3 DEF Holders, TypeInv, TypeOK
  <2>2. /\ Cardinality(Holders(c)) \in Nat /\ Cardinality(Holders(c)') \in Nat
        /\ Cardinality(Holders(c)') <= Cardinality(Holders(c)) + 1
    <3>1. IsFiniteSet(Holders(c)) /\ Cardinality(Holders(c)) \in Nat
      BY HoldersCounted
    <3>2. Cardinality(Holders(c) \cup {w})
            \in {Cardinality(Holders(c)), Cardinality(Holders(c)) + 1}
      BY <3>1, FS_AddElement
    <3>3. Cardinality(Holders(c)') = Cardinality(Holders(c) \cup {w})
      BY <2>1
    <3>4. QED
      BY <3>1, <3>2, <3>3
  <2>3. Refs(c) = One(Reported(c)) + One(c \in batch) + One(c = cur) + tasks[c]
                  + Cardinality(Holders(c))
    BY DEF Refs
  <2>4. Refs(c)' = One(Reported(c)') + One(c \in batch) + One(c = cur)
                   + (tasks[c] - 1) + Cardinality(Holders(c)')
    BY <1>1, <1>3 DEF Refs, One, TypeInv, TypeOK
  <2>5. tasks[c] \in Nat
    BY DEF TypeInv, TypeOK
  <2> HIDE DEF Refs
  <2>6. QED
    BY <1>1, <2>2, <2>3, <2>4, <2>5 DEF One
<1>4. QED
  BY <1>1, <1>2, <1>3

\* A worker that returns gives up a reference; modFd may make one of it.
LEMMA ReturnDrains ==
  ASSUME NEW c \in Conns, NEW w \in Workers, TypeInv, TypeInv',
         wtool[w] = c, Return(w), UNCHANGED <<batch, cur, tasks>>
  PROVE  /\ Refs(c)' <= Refs(c)
         /\ (Reported(c)' => Reported(c)) => Refs(c)' < Refs(c)
<1>1. w \in Holders(c) /\ w \notin Holders(c)' /\ Holders(c)' \subseteq Holders(c)
  BY ReactorAssumption DEF Holders, Return, TypeInv, TypeOK
<1>2. /\ Cardinality(Holders(c)) \in Nat /\ Cardinality(Holders(c)') \in Nat
      /\ Cardinality(Holders(c)') < Cardinality(Holders(c))
  <2>1. IsFiniteSet(Holders(c)) /\ Cardinality(Holders(c)) \in Nat
    BY HoldersCounted
  <2>2. /\ Cardinality(Holders(c)') \in Nat
        /\ Cardinality(Holders(c)') <= Cardinality(Holders(c))
        /\ Cardinality(Holders(c)') # Cardinality(Holders(c))
    BY <1>1, <2>1, FS_Subset, FS_CardinalityType
  <2>3. QED
    BY <2>1, <2>2
<1>3. Refs(c) = One(Reported(c)) + One(c \in batch) + One(c = cur) + tasks[c]
                + Cardinality(Holders(c))
  BY DEF Refs
<1>4. Refs(c)' = One(Reported(c)') + One(c \in batch) + One(c = cur)
                 + tasks[c] + Cardinality(Holders(c)')
  BY DEF Refs, One
<1>5. tasks[c] \in Nat
  BY DEF TypeInv, TypeOK
<1> HIDE DEF Refs, Reported, Holders
<1>6. QED
  BY <1>2, <1>3, <1>4, <1>5 DEF One

\* The descriptor of c is now another connection's, and its registration c's.
Overwritten(c) ==
  \E d \in Conns : sock[d] = "open" /\ fd[d] = fd[c] /\ ptr[d] = c

LEMMA UnknownToEpoll ==
  ASSUME Inv, NEW c \in Conns, sock[c] = "gone", ~Overwritten(c)
  PROVE  ~Reported(c) /\ \A d \in Conns : reg[d] => ptr[d] # c
  BY DEF Inv, RefInv, EpollAlive, Overwritten, Reported

LEMMA StepDrains ==
  ASSUME Inv, Inv', [Next]_vars, NEW c \in Conns, sock[c] = "gone", ~Overwritten(c)
  PROVE  Refs(c)' <= Refs(c)
<1> USE DEF Inv
<1>1. ~Reported(c) /\ \A d \in Conns : reg[d] => ptr[d] # c
  BY UnknownToEpoll
<1>2. ASSUME UNCHANGED ptr, \A d \in Conns : d \in ready' => d \in ready \/ reg[d]
      PROVE  ~Reported(c)'
  BY <1>1, <1>2 DEF Reported
<1>3. ASSUME NEW d \in Conns, Peer(d)
      PROVE  Refs(c)' <= Refs(c)
  <2>1. /\ UNCHANGED <<ptr, batch, cur, tasks, wtool>>
        /\ ready' = ready \cup {Listen} \/ Report(d)
    BY <1>3 DEF Peer, Connect, SendWhole, SendHead, SendRest, Arrive, PeerClose,
                PeerReset, loopVars, workerVars
  <2>2. ~Reported(c)'
    BY <1>2, <2>1, ReactorAssumption DEF Report
  <2>3. Holders(c)' = Holders(c) /\ tasks[c] \in Nat
    BY <2>1 DEF Holders, TypeInv, TypeOK
  <2>4. QED
    BY <2>1, <2>2, <2>3, FewerReferences
<1>4. CASE Poll \/ EndBatch \/ \E d \in Conns : HandleEvent(d)
  <2>1. UNCHANGED <<ptr, tasks, wtool>> /\ (cur' = c => cur = c)
    BY <1>4 DEF Poll, EndBatch, HandleEvent, epollVars, loopVars, workerVars
  <2>2. ~Reported(c)'
    BY <1>2, <1>4, <2>1 DEF Poll, Events, EndBatch, HandleEvent, epollVars
  <2>3. c \in batch' => c \in batch
    <3>1. CASE Poll
      <4>1. \A b \in batch' : b = Listen \/ \E d \in Conns : d \in ready /\ b = ptr[d]
        BY <3>1 DEF Poll, Events, TypeInv, TypeOK
      <4>2. \A d \in Conns : d \in ready => reg[d]
        BY DEF RefInv, EpollAlive
      <4>3. QED
        BY <1>1, <4>1, <4>2, ReactorAssumption
    <3>2. CASE ~Poll
      BY <1>4, <3>2 DEF EndBatch, HandleEvent, loopVars
    <3>3. QED
      BY <3>1, <3>2
  <2>4. Holders(c)' = Holders(c) /\ tasks[c] \in Nat
    BY <2>1 DEF Holders, TypeInv, TypeOK
  <2>5. QED
    BY <2>1, <2>2, <2>3, <2>4, FewerReferences
<1>5. CASE Accept
  <2>1. /\ UNCHANGED <<cur, tasks, wtool>> /\ batch' = batch \ {Listen}
        /\ \/ UNCHANGED <<ptr, ready>>
           \/ \E d \in Backlog : addFd(d)
    BY <1>5 DEF Accept, workerVars
  <2>2. ~Reported(c)'
    BY <1>1, <2>1 DEF addFd, Backlog, Reported, TypeInv, TypeOK
  <2>3. Holders(c)' = Holders(c) /\ tasks[c] \in Nat
    BY <2>1 DEF Holders, TypeInv, TypeOK
  <2>4. QED
    BY <2>1, <2>2, <2>3, FewerReferences
<1>6. CASE AddTask
  <2>1. ~Reported(c)'
    BY <1>2, <1>6 DEF AddTask, epollVars
  <2>2. QED
    BY <1>6, <2>1, AddTaskDrains
<1>7. ASSUME NEW w \in Workers, Worker(w)
      PROVE  Refs(c)' <= Refs(c)
  <2>1. CASE \E d \in Conns : TakeTask(w, d)
    <3>1. ~Reported(c)'
      BY <1>2, <2>1 DEF TakeTask, epollVars
    <3>2. QED
      BY <2>1, <3>1, TakeTaskDrains
  <2>2. CASE Rearm(w) /\ wtool[w] = c
    BY <2>2, ReturnDrains DEF Rearm, loopVars
  <2>3. CASE Rearm(w) /\ wtool[w] # c
    <3>1. /\ UNCHANGED <<batch, cur, tasks>> /\ Return(w)
          /\ \A d \in Conns : d \in ready' => d \in ready \/ reg[d]
          /\ \A d \in Conns : ptr'[d] = ptr[d] \/ ptr'[d] = wtool[w]
      BY <2>3 DEF Rearm, modFd, Registered, loopVars, TypeInv, TypeOK
    <3>2. ~Reported(c)'
      BY <1>1, <2>3, <3>1 DEF Reported
    <3>3. Holders(c)' \subseteq Holders(c) /\ tasks[c] \in Nat
      BY <3>1, ReactorAssumption DEF Holders, Return, TypeInv, TypeOK
    <3>4. QED
      BY <3>1, <3>2, <3>3, FewerReferences
  <2>4. CASE ~Rearm(w) /\ ~\E d \in Conns : TakeTask(w, d)
    <3>1. /\ UNCHANGED <<ptr, batch, cur, tasks>>
          /\ wtool' = wtool \/ wtool' = [wtool EXCEPT ![w] = NoConn]
          /\ ready' \subseteq ready
      BY <1>7, <2>4 DEF Worker, UseFreed, RecvHead, RecvBody, RecvLong, Recv, DoWork,
                        Close, DelFd, delFd, Delete, CloseSocket, Unregister, Return,
                        epollVars, loopVars, workerVars
    <3>2. ~Reported(c)'
      BY <1>2, <3>1
    <3>3. Holders(c)' \subseteq Holders(c) /\ tasks[c] \in Nat
      BY <3>1, ReactorAssumption DEF Holders, TypeInv, TypeOK
    <3>4. QED
      BY <3>1, <3>2, <3>3, FewerReferences
  <2>5. QED
    BY <2>1, <2>2, <2>3, <2>4
<1>8. CASE UNCHANGED vars
  <2>1. UNCHANGED <<ptr, ready, batch, cur, tasks, wtool>>
    BY <1>8 DEF vars, epollVars, loopVars, workerVars
  <2>2. ~Reported(c)'
    BY <1>2, <2>1
  <2>3. Holders(c)' = Holders(c) /\ tasks[c] \in Nat
    BY <2>1 DEF Holders, TypeInv, TypeOK
  <2>4. QED
    BY <2>1, <2>2, <2>3, FewerReferences
<1>9. QED
  BY <1>3, <1>4, <1>5, <1>6, <1>7, <1>8 DEF Next, Loop

\* Nobody makes a reference to a tool once it is deleted (TcpServer.cpp:26-38),
\* but for epoll itself when a late modFd has stored the tool in the registration
\* of the connection that now has its descriptor.
THEOREM ReferencesDrain == Spec => NewReferencesByFd
<1> DEFINE ByFd ==
             \A c \in Conns :
               sock[c] = "gone" /\ Refs(c)' > Refs(c) =>
                 \E d \in Conns : sock[d] = "open" /\ fd[d] = fd[c] /\ ptr[d] = c
<1>1. Init => Inv
  BY InitTyped, InitReferred DEF Inv
<1>2. Inv /\ [Next]_vars => Inv'
  BY NextTyped, NextReferred DEF Inv
<1>3. Inv /\ Inv' /\ [Next]_vars => [ByFd]_vars
  <2> SUFFICES ASSUME Inv, Inv', [Next]_vars, NEW c \in Conns,
                      sock[c] = "gone", Refs(c)' > Refs(c)
               PROVE  Overwritten(c)
    BY DEF Overwritten
  <2>1. Refs(c) \in Nat /\ Refs(c)' \in Nat
    BY RefsNat, RefsNatNext DEF Inv
  <2>2. QED
    BY <2>1, StepDrains
<1>4. QED
  BY <1>1, <1>2, <1>3, PTL DEF Spec, NewReferencesByFd

-------------------------------------------------------------------------------
(***************************************************************************)
(* With polite peers no tool is used after its end                          *)
(***************************************************************************)
\* A connection that can come to an end.
Ends(c) == fin[c] \/ ~Harmless

\* Threads at rest hold no tool, and nothing is registered level-triggered: each
\* epoll_wait makes one more reference to such a socket.
AtRest ==
  /\ mpc # "add" => cur = NoConn
  /\ \A w \in Workers : wpc[w] # "rearm" /\ (wpc[w] = "idle" => wtool[w] = NoConn)
  /\ \A c \in Conns : ~level[c]

\* Only what can end is being closed, and of what can end there is at most one
\* reference, so that none is left when it is deleted.
EndsAlone ==
  /\ \A w \in Workers :
       wpc[w] \in {"close", "unregister", "delete"} => Ends(wtool[w])
  /\ \A c \in Conns : /\ Ends(c) => Refs(c) <= 1
                      /\ sock[c] = "gone" => Refs(c) = 0

PoliteInv == ToolAvailable /\ AtRest /\ EndsAlone

LEMMA PoliteIsNext == PoliteNext => Next
  BY DEF PoliteNext, PolitePeer, Next

\* Without level-triggered sockets epoll has every connection under its own tool.
LEMMA OwnPointers ==
  ASSUME Inv, AtRest
  PROVE  /\ \A d \in Conns : reg[d] => ptr[d] = d
         /\ \A c \in Conns : Reported(c) <=> c \in ready
  BY DEF Inv, RefInv, EpollAlive, AtRest, Reported, TypeInv, TypeOK

LEMMA InitPolite == Init => PoliteInv
<1> SUFFICES ASSUME Init PROVE PoliteInv
  OBVIOUS
<1>1. \A c \in Conns : Holders(c) = {} /\ ~Reported(c)
  BY ReactorAssumption DEF Init, Holders, Reported
<1>2. \A c \in Conns : Refs(c) = 0
  BY <1>1, FS_EmptySet, ReactorAssumption DEF Init, Refs, One
<1>3. QED
  BY <1>2, ReactorAssumption DEF Init, PoliteInv, ToolAvailable, AtRest, EndsAlone

\* Before it is accepted a connection is referred to by nobody.
LEMMA UnmadeUnreferred ==
  ASSUME NEW c \in Conns, Inv, AtRest, sock[c] \in {"away", "backlog"}
  PROVE  /\ c \notin ready /\ c \notin batch /\ cur # c /\ tasks[c] = 0
         /\ Holders(c) = {}
<1> USE DEF Inv, RefInv, EpollAlive, Made, TypeInv, TypeOK, HandInv
<1>1. c \notin ready /\ c \notin batch /\ tasks[c] = 0
  <2>1. ~(c \in batch \/ tasks[c] > 0) /\ c \notin ready
    OBVIOUS
  <2>2. tasks[c] \in Nat
    OBVIOUS
  <2>3. QED
    BY <2>1, <2>2
<1>2. cur # c
  BY ReactorAssumption DEF AtRest
<1>3. \A w \in Workers : wtool[w] # c
  BY ReactorAssumption DEF AtRest
<1>4. QED
  BY <1>1, <1>2, <1>3 DEF Holders

\* A step of the server that deletes no tool and makes no reference.
LEMMA NoMoreReferences ==
  ASSUME Inv, Inv', EndsAlone, UNCHANGED fin,
         \A c \in Conns : sock'[c] = "gone" => sock[c] = "gone",
         \A c \in Conns : Refs(c)' <= Refs(c)
  PROVE  \A c \in Conns : /\ Ends(c)' => Refs(c)' <= 1
                          /\ sock'[c] = "gone" => Refs(c)' = 0
<1> SUFFICES ASSUME NEW c \in Conns
             PROVE  /\ Ends(c)' => Refs(c)' <= 1
                    /\ sock'[c] = "gone" => Refs(c)' = 0
  OBVIOUS
<1>1. Refs(c)' \in Nat /\ Refs(c) \in Nat
  BY RefsNat, RefsNatNext DEF Inv
<1>2. /\ Ends(c) => Refs(c) <= 1
      /\ sock[c] = "gone" => Refs(c) = 0
      /\ Ends(c)' = Ends(c)
  BY DEF EndsAlone, Ends, Harmless
<1>3. QED
  BY <1>1, <1>2

LEMMA PeerPolite ==
  ASSUME Inv, Inv', PoliteInv, NEW d \in Conns, PolitePeer(d)
  PROVE  PoliteInv'
<1> USE DEF PoliteInv, Inv, TypeInv, TypeOK
<1>1. /\ UNCHANGED <<reg, ptr, level, batch, mpc, cur, tasks, wpc, wtool, fault>>
      /\ \A c \in Conns : sock'[c] = "gone" => sock[c] = "gone"
      /\ ready' = ready \cup {Listen} \/ Report(d)
      /\ \A c \in Conns : c # d => fin'[c] = fin[c]
      /\ fin[d] => fin'[d]
  BY DEF PolitePeer, Peer, Connect, SendWhole, SendHead, SendRest, Arrive, PeerClose,
         PeerReset, netVars, loopVars, workerVars
<1>2. ToolAvailable' /\ AtRest'
  BY <1>1 DEF ToolAvailable, AtRest
<1>3. \A c \in Conns : Ends(c) => Ends(c)'
  BY <1>1 DEF Ends, Harmless
<1>4. ASSUME NEW c \in Conns, c # d \/ sock[c] = "gone"
      PROVE  Refs(c)' <= Refs(c)
  <2>1. \A e \in Conns : reg[e] => ptr[e] = e /\ sock[e] = "open"
    BY OwnPointers DEF RefInv, EpollAlive
  <2>2. Reported(c)' => Reported(c)
    BY <1>1, <1>4, <2>1, ReactorAssumption DEF Report, Reported
  <2>3. Holders(c)' = Holders(c) /\ tasks'[c] = tasks[c] /\ tasks[c] \in Nat
    BY <1>1 DEF Holders
  <2>4. QED
    BY <1>1, <2>2, <2>3, FewerReferences, SMTT(30)
<1>5. ASSUME NEW c \in Conns
      PROVE  /\ Ends(c)' => Refs(c)' <= 1
             /\ sock'[c] = "gone" => Refs(c)' = 0
  <2>1. Refs(c) \in Nat /\ Refs(c)' \in Nat
    BY RefsNat, RefsNatNext
  <2>2. CASE c # d
    <3>1. Ends(c)' = Ends(c)
      BY <1>1, <2>2 DEF Ends, Harmless
    <3>2. QED
      BY <1>1, <1>4, <2>1, <2>2, <3>1 DEF EndsAlone
  <2>3. CASE c = d
    <3>1. Ends(c)' => Refs(c)' <= 1
      BY <2>3 DEF PolitePeer, Ends, Harmless
    <3>2. sock'[c] = "gone" => Refs(c)' = 0
      BY <1>1, <1>4, <2>1 DEF EndsAlone
    <3>3. QED
      BY <3>1, <3>2
  <2>4. QED
    BY <2>2, <2>3
<1>6. EndsAlone'
  <2>1. \A w \in Workers :
          wpc'[w] \in {"close", "unregister", "delete"} => Ends(wtool[w])'
    <3>1. ASSUME NEW w \in Workers, wpc[w] \in {"close", "unregister", "delete"}
          PROVE  wtool[w] \in Conns /\ Ends(wtool[w])
      BY <3>1 DEF EndsAlone, HandInv
    <3>2. \A c \in Conns : Ends(c) => fin'[c] \/ ~Harmless
      BY <1>3 DEF Ends, Harmless
    <3>3. QED
      BY <1>1, <3>1, <3>2 DEF Ends, Harmless
  <2>2. QED
    BY <1>5, <2>1 DEF EndsAlone
<1>7. QED
  BY <1>2, <1>6

\* The part of EndsAlone about the workers, when the workers go on alike.
LEMMA ClosersKept ==
  ASSUME Inv, EndsAlone, UNCHANGED <<fin, wtool, wpc>>
  PROVE  \A w \in Workers :
           wpc'[w] \in {"close", "unregister", "delete"} => Ends(wtool[w])'
  BY DEF EndsAlone, Ends, Harmless

\* One accept: the new tool is referred to by its registration alone.
LEMMA AcceptPolite ==
  ASSUME Inv, Inv', PoliteInv, Accept
  PROVE  PoliteInv'
<1> USE DEF PoliteInv, Inv, TypeInv, TypeOK
<1>1. /\ UNCHANGED <<fin, level, mpc, cur, tasks, wpc, wtool, fault>>
      /\ batch' = batch \ {Listen}
  BY DEF Accept, netVars, workerVars
<1>2. ToolAvailable' /\ AtRest'
  BY <1>1 DEF ToolAvailable, AtRest
<1>3. \A c \in Conns : (Reported(c) <=> c \in ready) /\ (Reported(c)' <=> c \in ready')
  <2>1. \A c \in Conns : Reported(c)' <=> c \in ready'
    BY <1>2 DEF RefInv, EpollAlive, AtRest, Reported
  <2>2. QED
    BY <2>1, OwnPointers
<1>4. ASSUME NEW c \in Conns, c \in ready' => c \in ready
      PROVE  Refs(c)' <= Refs(c)
  <2>1. Holders(c)' = Holders(c) /\ tasks[c] \in Nat
    BY <1>1 DEF Holders
  <2>2. QED
    BY <1>1, <1>3, <1>4, <2>1, FewerReferences, SMTT(30)
<1>5. \/ UNCHANGED <<sock, ready>>
      \/ \E d \in Backlog : \/ /\ sock' = [sock EXCEPT ![d] = "open"]
                               /\ ready' = ready \cup {d}
                            \/ /\ sock' = [sock EXCEPT ![d] = "gone"]
                               /\ ready' = ready
  BY DEF Accept, NewTool, addFd
<1>6. CASE UNCHANGED <<sock, ready>>
  BY <1>1, <1>2, <1>4, <1>6, NoMoreReferences, ClosersKept DEF EndsAlone
<1>7. ASSUME NEW d \in Backlog,
             \/ /\ sock' = [sock EXCEPT ![d] = "open"]
                /\ ready' = ready \cup {d}
             \/ /\ sock' = [sock EXCEPT ![d] = "gone"]
                /\ ready' = ready
      PROVE  \A c \in Conns : /\ Ends(c)' => Refs(c)' <= 1
                              /\ sock'[c] = "gone" => Refs(c)' = 0
  <2>1. d \in Conns /\ sock[d] = "backlog"
    BY DEF Backlog
  <2>2. ASSUME NEW c \in Conns, c # d
        PROVE  /\ Ends(c)' => Refs(c)' <= 1
               /\ sock'[c] = "gone" => Refs(c)' = 0
    <3>1. Refs(c)' <= Refs(c) /\ sock'[c] = sock[c] /\ Ends(c)' = Ends(c)
      BY <1>1, <1>4, <1>7, <2>1, <2>2 DEF Ends, Harmless
    <3>2. Refs(c) \in Nat /\ Refs(c)' \in Nat
      BY RefsNat, RefsNatNext
    <3>3. QED
      BY <3>1, <3>2 DEF EndsAlone
  <2>3. Refs(d)' <= 1 /\ (sock'[d] = "gone" => Refs(d)' = 0)
    <3>1. /\ d \notin ready /\ d \notin batch /\ cur # d /\ tasks[d] = 0
          /\ Holders(d) = {}
      BY <2>1, UnmadeUnreferred
    <3>2. d \notin batch' /\ cur' # d /\ tasks'[d] = 0 /\ Holders(d)' = {}
      BY <1>1, <3>1 DEF Holders
    <3>3. Cardinality(Holders(d)') = 0
      BY <3>2, FS_EmptySet
    <3>4. Refs(d)' = One(Reported(d)') + One(d \in batch') + One(d = cur')
                     + tasks'[d] + Cardinality(Holders(d)')
      BY DEF Refs, One
    <3>5. Refs(d)' = One(Reported(d)')
      BY <3>2, <3>3, <3>4 DEF One
    <3>6. sock'[d] = "gone" => d \notin ready'
      BY <1>7, <2>1, <3>1
    <3>7. QED
      BY <1>3, <2>1, <3>5, <3>6 DEF One
  <2>4. QED
    BY <2>2, <2>3
<1>8. QED
  BY <1>1, <1>2, <1>5, <1>6, <1>7, ClosersKept DEF EndsAlone

\* The other steps of the loop pass on the references there are.
LEMMA LoopPolite ==
  ASSUME Inv, Inv', PoliteInv, Loop
  PROVE  PoliteInv'
<1>fewer. \A c \in Conns :
            /\ Reported(c)' => Reported(c)
            /\ c \in batch' => c \in batch
            /\ cur' = c => cur = c
            /\ tasks'[c] <= tasks[c]
            /\ Holders(c)' \subseteq Holders(c)
            => Refs(c)' <= Refs(c)
  BY FewerReferences DEF Inv
<1>held. \A c \in Conns : c \in batch \/ tasks[c] > 0 => Refs(c) >= 1
  BY RefsCounted DEF Inv
<1> USE DEF PoliteInv, Inv, TypeInv, TypeOK, HandInv
<1>1. CASE Poll
  <2>1. /\ UNCHANGED <<sock, fin, ptr, level, cur, tasks, wpc, wtool, fault>>
        /\ mpc = "wait" /\ mpc' = "loop"
        /\ \A c \in Conns : c \notin ready'
        /\ \A b \in batch' : b = Listen \/ \E d \in Conns : d \in ready /\ b = ptr[d]
    BY <1>1 DEF Poll, Events, AtRest, netVars, workerVars
  <2>2. ASSUME NEW c \in Conns
        PROVE  Refs(c)' <= Refs(c)
    <3>1. ~Reported(c)'
      BY <2>1 DEF Reported
    <3>2. c \in batch' => Reported(c)
      BY <2>1, ReactorAssumption DEF Reported
    <3>3. Holders(c)' = Holders(c)
      BY <2>1 DEF Holders
    <3>4. tasks[c] \in Nat /\ Cardinality(Holders(c)) \in Nat
      BY HoldersCounted
    <3>5. Refs(c)' = One(Reported(c)') + One(c \in batch') + One(c = cur)
                     + tasks[c] + Cardinality(Holders(c))
      BY <2>1, <3>3 DEF Refs, One
    <3>6. Refs(c) = One(Reported(c)) + One(c \in batch) + One(c = cur)
                    + tasks[c] + Cardinality(Holders(c))
      BY DEF Refs
    <3> HIDE DEF Refs, Reported, Holders
    <3>7. QED
      BY <3>1, <3>2, <3>4, <3>5, <3>6 DEF One
  <2>3. ToolAvailable' /\ AtRest'
    BY <2>1 DEF ToolAvailable, AtRest
  <2>4. QED
    BY <2>1, <2>2, <2>3, NoMoreReferences, ClosersKept DEF EndsAlone
<1>2. CASE EndBatch
  <2>1. /\ UNCHANGED <<sock, fin, ptr, ready, level, batch, cur, tasks, wpc, wtool,
                       fault>>
        /\ mpc = "loop" /\ mpc' = "wait"
    BY <1>2 DEF EndBatch, netVars, epollVars, workerVars
  <2>2. ASSUME NEW c \in Conns
        PROVE  Refs(c)' <= Refs(c)
    <3>1. (Reported(c)' => Reported(c)) /\ Holders(c)' = Holders(c)
      BY <2>1 DEF Reported, Holders
    <3>2. QED
      BY <2>1, <3>1, <1>fewer
  <2>3. ToolAvailable' /\ AtRest'
    BY <2>1 DEF ToolAvailable, AtRest
  <2>4. QED
    BY <2>1, <2>2, <2>3, NoMoreReferences, ClosersKept DEF EndsAlone
<1>3. CASE Accept
  BY <1>3, AcceptPolite
<1>4. ASSUME NEW d \in Conns, HandleEvent(d)
      PROVE  PoliteInv'
  <2>1. d \in batch /\ mpc = "loop" /\ cur = NoConn
    BY <1>4 DEF HandleEvent, AtRest
  <2>2. sock[d] # "gone"
    <3>1. sock[d] = "gone" => Refs(d) = 0
      BY DEF EndsAlone
    <3>2. Refs(d) >= 1
      BY <2>1, <1>held
    <3>3. QED
      BY <3>1, <3>2
  <2>3. /\ UNCHANGED <<sock, fin, ptr, ready, level, tasks, wpc, wtool, fault>>
        /\ batch' = batch \ {d} /\ cur' = d /\ mpc' = "add"
    BY <1>4, <2>2 DEF HandleEvent, netVars, epollVars, workerVars
  <2>4. ASSUME NEW c \in Conns
        PROVE  Refs(c)' <= Refs(c)
    <3>1. (Reported(c)' <=> Reported(c)) /\ Holders(c)' = Holders(c)
      BY <2>3 DEF Reported, Holders
    <3>2. CASE c # d
      BY <2>3, <3>1, <3>2, <1>fewer
    <3>3. CASE c = d
      <4>1. tasks[c] \in Nat /\ Cardinality(Holders(c)) \in Nat
        BY HoldersCounted
      <4>2. Refs(c)' = One(Reported(c)) + 0 + 1 + tasks[c] + Cardinality(Holders(c))
        BY <2>3, <3>1, <3>3 DEF Refs, One
      <4>3. Refs(c) = One(Reported(c)) + 1 + 0 + tasks[c] + Cardinality(Holders(c))
        BY <2>1, <3>3, ReactorAssumption DEF Refs, One
      <4> HIDE DEF Refs, Reported, Holders
      <4>4. QED
        BY <4>1, <4>2, <4>3 DEF One
    <3>4. QED
      BY <3>2, <3>3
  <2>5. ToolAvailable' /\ AtRest'
    BY <2>3 DEF ToolAvailable, AtRest
  <2>6. QED
    BY <2>3, <2>4, <2>5, NoMoreReferences, ClosersKept DEF EndsAlone
<1>5. CASE AddTask
  <2>1. /\ UNCHANGED <<sock, fin, ptr, ready, level, wpc, wtool, fault>>
        /\ cur' = NoConn /\ mpc' = "loop"
    BY <1>5 DEF AddTask, netVars, epollVars, workerVars
  <2>2. ASSUME NEW c \in Conns
        PROVE  Refs(c)' <= Refs(c)
    <3>1. Reported(c)' => Reported(c)
      BY <2>1 DEF Reported
    <3>2. QED
      BY <1>5, <3>1, AddTaskDrains
  <2>3. ToolAvailable' /\ AtRest'
    BY <2>1 DEF ToolAvailable, AtRest
  <2>4. QED
    BY <2>1, <2>2, <2>3, NoMoreReferences, ClosersKept DEF EndsAlone
<1>6. QED
  BY <1>1, <1>2, <1>3, <1>4, <1>5 DEF Loop

\* A worker at work has a reference to its tool, which is therefore not deleted.
LEMMA NotDangling ==
  ASSUME Inv, PoliteInv, NEW w \in Workers, wpc[w] # "idle"
  PROVE  wtool[w] \in Conns /\ sock[wtool[w]] # "gone"
<1>1. wtool[w] \in Conns
  BY DEF Inv, TypeInv, HandInv
<1>2. Refs(wtool[w]) >= 1
  BY <1>1, RefsCounted DEF Inv
<1>3. QED
  BY <1>1, <1>2 DEF PoliteInv, EndsAlone

\* The worker that deletes the tool has the one reference and gives it up.
LEMMA DeletePolite ==
  ASSUME Inv, Inv', PoliteInv, NEW w \in Workers, Delete(w)
  PROVE  PoliteInv'
<1>fewer. \A c \in Conns :
            /\ Reported(c)' => Reported(c)
            /\ c \in batch' => c \in batch
            /\ cur' = c => cur = c
            /\ tasks'[c] <= tasks[c]
            /\ Holders(c)' \subseteq Holders(c)
            => Refs(c)' <= Refs(c)
  BY FewerReferences DEF Inv
<1> USE DEF PoliteInv, Inv, TypeInv, TypeOK, HandInv
<1>1. /\ UNCHANGED <<fin, ptr, level, batch, mpc, cur, tasks, fault>> /\ Return(w)
      /\ wpc[w] = "delete" /\ wtool[w] \in Conns
      /\ sock' = [sock EXCEPT ![wtool[w]] = "gone"]
      /\ ready' \subseteq ready
  BY DEF Delete, CloseSocket, Unregister, netVars, loopVars
<1>2. ToolAvailable' /\ AtRest'
  BY <1>1 DEF ToolAvailable, AtRest, Return
<1>3. \A c \in Conns : Reported(c)' => Reported(c)
  BY <1>1 DEF Reported
<1>4. ASSUME NEW c \in Conns, c # wtool[w]
      PROVE  /\ Ends(c)' => Refs(c)' <= 1
             /\ sock'[c] = "gone" => Refs(c)' = 0
  <2>1. Holders(c)' \subseteq Holders(c)
    BY <1>1, ReactorAssumption DEF Holders, Return
  <2>2. Refs(c)' <= Refs(c)
    BY <1>1, <1>3, <2>1, <1>fewer
  <2>3. sock'[c] = sock[c] /\ Ends(c)' = Ends(c)
    BY <1>1, <1>4 DEF Ends, Harmless
  <2>4. Refs(c) \in Nat /\ Refs(c)' \in Nat
    BY RefsNat, RefsNatNext
  <2>5. QED
    BY <2>2, <2>3, <2>4 DEF EndsAlone
<1>5. ASSUME NEW c \in Conns, c = wtool[w]
      PROVE  Refs(c)' = 0
  <2>1. Ends(wtool[w])
    BY <1>1 DEF EndsAlone
  <2>2. Ends(c)
    BY <1>5, <2>1
  <2>3. Refs(c) <= 1
    BY <2>2 DEF EndsAlone
  <2>4. Refs(c)' < Refs(c)
    BY <1>1, <1>3, <1>5, ReturnDrains
  <2>5. Refs(c) \in Nat /\ Refs(c)' \in Nat
    BY RefsNat, RefsNatNext
  <2>6. \A m, n \in Nat : m < n /\ n <= 1 => m = 0
    OBVIOUS
  <2> HIDE DEF PoliteInv, Inv, TypeInv, TypeOK, HandInv
  <2>7. QED
    BY <2>3, <2>4, <2>5, <2>6
<1>6. \A v \in Workers : wpc'[v] \in {"close", "unregister", "delete"} => Ends(wtool[v])'
  BY <1>1 DEF EndsAlone, Ends, Harmless, Return
<1>7. QED
  BY <1>1, <1>2, <1>4, <1>5, <1>6 DEF EndsAlone

LEMMA WorkerPolite ==
  ASSUME "EAGAIN" \notin Errnos, Inv, Inv', PoliteInv, NEW w \in Workers, Worker(w)
  PROVE  PoliteInv'
<1>fewer. \A c \in Conns :
            /\ Reported(c)' => Reported(c)
            /\ c \in batch' => c \in batch
            /\ cur' = c => cur = c
            /\ tasks'[c] <= tasks[c]
            /\ Holders(c)' \subseteq Holders(c)
            => Refs(c)' <= Refs(c)
  BY FewerReferences DEF Inv
<1>held. \A c \in Conns : c \in batch \/ tasks[c] > 0 => Refs(c) >= 1
  BY RefsCounted DEF Inv
<1> USE DEF PoliteInv, Inv, TypeInv, TypeOK, HandInv
<1>1. ASSUME NEW d \in Conns, TakeTask(w, d)
      PROVE  PoliteInv'
  <2>1. sock[d] # "gone"
    <3>1. tasks[d] > 0
      BY <1>1 DEF TakeTask
    <3>2. Refs(d) >= 1
      BY <3>1, <1>held
    <3>3. QED
      BY <3>2 DEF EndsAlone
  <2>2. /\ UNCHANGED <<sock, fin, ptr, ready, level, mpc, cur, fault>>
        /\ wpc' = [wpc EXCEPT ![w] = "head"]
        /\ wtool' = [wtool EXCEPT ![w] = d]
    BY <1>1, <2>1 DEF TakeTask, netVars, epollVars, loopVars
  <2>3. ASSUME NEW c \in Conns
        PROVE  Refs(c)' <= Refs(c)
    <3>1. Reported(c)' => Reported(c)
      BY <2>2 DEF Reported
    <3>2. QED
      BY <1>1, <3>1, TakeTaskDrains
  <2>4. \A v \in Workers :
          wpc'[v] \in {"close", "unregister", "delete"} => Ends(wtool[v])'
    BY <2>2 DEF EndsAlone, Ends, Harmless
  <2>5. ToolAvailable' /\ AtRest'
    BY <2>2 DEF ToolAvailable, AtRest
  <2>6. QED
    BY <2>2, <2>3, <2>4, <2>5, NoMoreReferences DEF EndsAlone
<1>2. CASE UseFreed(w)
  BY <1>2, NotDangling DEF UseFreed, Dangles
<1>3. ASSUME NEW pc \in {"head", "body", "long"}, NEW Outcomes,
             Outcomes \subseteq {"body", "long", "close", "work"},
             "close" \in Outcomes => ~Harmless,
             Recv(w, pc, Outcomes)
      PROVE  PoliteInv'
  <2>1. /\ UNCHANGED <<sock, fin, ptr, ready, level, batch, mpc, cur, tasks, wtool, fault>>
        /\ wpc[w] # "idle"
        /\ \E o \in {"body", "long", "close", "work"} :
             /\ wpc' = [wpc EXCEPT ![w] = o]
             /\ o = "close" => Ends(wtool[w])
    BY <1>3 DEF Recv, netVars, epollVars, loopVars, Ends
  <2>2. ASSUME NEW c \in Conns
        PROVE  Refs(c)' <= Refs(c)
    <3>1. (Reported(c)' => Reported(c)) /\ Holders(c)' = Holders(c)
      BY <2>1 DEF Reported, Holders
    <3>2. QED
      BY <2>1, <3>1, <1>fewer
  <2>3. \A v \in Workers :
          wpc'[v] \in {"close", "unregister", "delete"} => Ends(wtool[v])'
    BY <2>1 DEF EndsAlone, Ends, Harmless
  <2>4. ToolAvailable' /\ AtRest'
    BY <2>1 DEF ToolAvailable, AtRest
  <2>5. QED
    BY <2>1, <2>2, <2>3, <2>4, NoMoreReferences DEF EndsAlone
<1>4. CASE RecvHead(w) \/ RecvBody(w) \/ RecvLong(w)
  <2>1. CASE RecvHead(w)
    <3>1. Recv(w, "head", AfterHead)
      BY <2>1 DEF RecvHead
    <3>2. /\ AfterHead \subseteq {"body", "long", "close", "work"}
          /\ "close" \in AfterHead => ~Harmless
      BY AfterHeadStates
    <3> HIDE DEF PoliteInv
    <3>3. QED
      BY <1>3, <3>1, <3>2
  <2>2. CASE RecvBody(w)
    <3>1. Recv(w, "body", {"work"})
      BY <2>2 DEF RecvBody
    <3> HIDE DEF PoliteInv
    <3>2. QED
      BY <1>3, <3>1
  <2>3. CASE RecvLong(w)
    <3>1. Recv(w, "long", {"long"})
      BY <2>3 DEF RecvLong
    <3> HIDE DEF PoliteInv
    <3>2. QED
      BY <1>3, <3>1
  <2>4. QED
    BY <1>4, <2>1, <2>2, <2>3
<1>5. CASE DoWork(w) \/ Close(w) \/ DelFd(w)
  <2>1. /\ UNCHANGED <<sock, fin, ptr, level, batch, mpc, cur, tasks, fault>>
        /\ ready' \subseteq ready
        /\ \/ Return(w)
           \/ /\ wpc[w] \in {"close", "unregister"} /\ wtool' = wtool
              /\ \E o \in {"unregister", "delete"} : wpc' = [wpc EXCEPT ![w] = o]
    BY <1>5 DEF DoWork, Close, DelFd, delFd, Unregister, netVars, epollVars, loopVars
  <2>2. ASSUME NEW c \in Conns
        PROVE  Refs(c)' <= Refs(c)
    <3>1. Reported(c)' => Reported(c)
      BY <2>1 DEF Reported
    <3>2. Holders(c)' \subseteq Holders(c)
      BY <2>1, ReactorAssumption DEF Holders, Return
    <3>3. QED
      BY <2>1, <3>1, <3>2, <1>fewer
  <2>3. \A v \in Workers :
          wpc'[v] \in {"close", "unregister", "delete"} => Ends(wtool[v])'
    BY <2>1 DEF EndsAlone, Ends, Harmless, Return
  <2>4. ToolAvailable' /\ AtRest'
    BY <2>1 DEF ToolAvailable, AtRest, Return
  <2>5. QED
    BY <2>1, <2>2, <2>3, <2>4, NoMoreReferences DEF EndsAlone
<1>6. CASE Rearm(w)
  BY <1>6 DEF Rearm, AtRest
<1>7. CASE Delete(w)
  BY <1>7, DeletePolite
<1>8. QED
  BY <1>1, <1>2, <1>4, <1>5, <1>6, <1>7 DEF Worker

\* Epoller.cpp:69: the pointer that is passed to _readcb leads to a tool whenever
\* it is used, in every interleaving of the loop and the workers and with any
\* number of messages under way, as long as no second event of a connection is
\* under way when it comes to an end and no negative length meets a stale EAGAIN.
THEOREM PoliteToolsAvailable ==
  ASSUME "EAGAIN" \notin Errnos
  PROVE  PoliteSpec => []ToolAvailable
<1>1. Init => Inv /\ PoliteInv
  BY InitTyped, InitReferred, InitPolite DEF Inv
<1>2. Inv /\ [PoliteNext]_vars => Inv'
  BY NextTyped, NextReferred, PoliteIsNext DEF Inv
<1>3. Inv /\ Inv' /\ PoliteInv /\ [PoliteNext]_vars => PoliteInv'
  <2> SUFFICES ASSUME Inv, Inv', PoliteInv, [PoliteNext]_vars
               PROVE  PoliteInv'
    OBVIOUS
  <2>1. CASE PoliteNext
    BY <2>1, PeerPolite, LoopPolite, WorkerPolite DEF PoliteNext
  <2>2. CASE UNCHANGED vars
    <3>1. UNCHANGED <<sock, fin, ptr, ready, level, batch, mpc, cur, tasks, wpc, wtool,
                      fault>>
      BY <2>2 DEF vars, netVars, epollVars, loopVars, workerVars
    <3>2. ASSUME NEW c \in Conns
          PROVE  Refs(c)' <= Refs(c)
      <4>1. /\ Holders(c)' = Holders(c) /\ (Reported(c)' => Reported(c))
            /\ tasks[c] \in Nat
        BY <3>1 DEF Holders, Reported, Inv, TypeInv, TypeOK
      <4>2. QED
        BY <3>1, <4>1, FewerReferences DEF Inv
    <3>3. ToolAvailable' /\ AtRest'
      BY <3>1 DEF PoliteInv, ToolAvailable, AtRest
    <3>4. QED
      BY <3>1, <3>2, <3>3, NoMoreReferences, ClosersKept DEF PoliteInv, EndsAlone
  <2>3. QED
    BY <2>1, <2>2
<1>4. PoliteInv => ToolAvailable
  BY DEF PoliteInv
<1>5. QED
  BY <1>1, <1>2, <1>3, <1>4, PTL DEF PoliteSpec

\* Peers that take turns with the server are polite.
COROLLARY CalmToolsAvailable ==
  ASSUME "EAGAIN" \notin Errnos
  PROVE  CalmSpec => []ToolAvailable
<1>1. [CalmNext]_vars => [PoliteNext]_vars
  BY DEF CalmNext, CalmPeer, Calm, PoliteNext, PolitePeer, Peer
<1>2. CalmSpec => PoliteSpec
  BY <1>1, PTL DEF CalmSpec, PoliteSpec
<1>3. QED
  BY <1>2, PoliteToolsAvailable, PTL

-------------------------------------------------------------------------------
\* No text decodes to a length that a message in the buffer can have: read hands
\* no message to dowork, unless it has run over the end of buf before
\* (TcpTool.cpp:24-39).
THEOREM NoLengthFits == \A text \in Texts : Frame(text) # "good"
<1> SUFFICES ASSUME NEW text \in Texts PROVE Frame(text) # "good"
  OBVIOUS
<1>1. ntohl(text) \in Int /\ ~(0 < ntohl(text) /\ ntohl(text) < BUFFMAXSIZE)
  <2>1. text \in Int /\ -999 <= text /\ text <= 9999
    BY SMT DEF Texts
  <2>2. CASE text >= 0
    <3>1. /\ text \div 16777216 = 0 /\ text \div 65536 = 0
          /\ text \div 256 \in 0..39 /\ text % 256 \in 0..255
      BY <2>1, <2>2, SMT
    <3> QED
      BY <2>1, <3>1, SMT DEF ntohl, Int32, BUFFMAXSIZE
  <2>3. CASE text < 0
    <3>1. /\ text \div 16777216 = -1 /\ text \div 65536 = -1
          /\ text \div 256 \in -4..-1 /\ text % 256 \in 0..255
      BY <2>1, <2>3, SMT
    <3> QED
      BY <2>1, <3>1, SMT DEF ntohl, Int32, BUFFMAXSIZE
  <2> QED
    BY <2>1, <2>2, <2>3
<1> QED
  BY <1>1, SMT DEF Frame, BUFFMAXSIZE
===============================================================================
