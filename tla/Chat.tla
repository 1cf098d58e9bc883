---------------------------------- MODULE Chat ----------------------------------
(***************************************************************************)
(* code/Cache.cpp, the message handlers of code/TcpTool.cpp and what         *)
(* TcpServer::_handleRead does when a connection ends: who is registered as  *)
(* online under which descriptor, and who gets the messages that are         *)
(* forwarded.                                                                *)
(*                                                                           *)
(* A client stands for one connection from its accept to the delete of its   *)
(* TcpTool.  Handlers of different connections run concurrently and meet in   *)
(* the registry (UID_map under rwlock, one action per critical section) and   *)
(* in the descriptors, which the kernel hands out again after close.  One     *)
(* connection has one handler at a time, which is what Reactor establishes    *)
(* for peers that take turns.  The database answers as it likes.  The timer   *)
(* that addUser adds never runs, for nobody calls timerManager::start.        *)
(***************************************************************************)
EXTENDS Integers, FiniteSets, Sequences, Split

CONSTANTS
  Clients,      \* connections
  Users,        \* user names: numbers, in the order the registry's map has them in
  Fds,          \* descriptors that accept can return
  NoUser,       \* the empty Uid
  Delimiter,    \* what separates the fields of a message
  Lines,        \* messages after their command: sequences of symbols, where a
                \* user's name is one symbol
  InfoOutcomes, \* of sendNewUserForInfo.  As written it always "throws": its
                \* toString is for strings only.  "sent" is what it is meant to do.
  MaxReqs       \* bound of the model: messages that the clients send in all

ASSUME ChatAssumption ==
  /\ Fds \subseteq Nat /\ Users \subseteq Nat /\ NoUser \notin Users
  /\ InfoOutcomes \subseteq {"sent", "throws"}
  /\ MaxReqs \in Nat

\* Messages are sequences, of whatever symbols.
ASSUME LinesAssumption ==
  \A line \in Lines : line \in Seq({line[i] : i \in DOMAIN line})

VARIABLES
  phase,    \* away, open, gone (tool deleted and descriptor closed)
  fd,       \* m_fd of the connection's tool
  Uid,      \* Uid of the tool
  left,     \* the client has closed its end
  deaf,     \* it reads no more, and the buffers on the way to it are full
  reqs,     \* messages the clients have sent
  got,      \* what the client has received, but for the answers to its requests
  UID_map,  \* the online users' descriptors
  offline,  \* size of offlineUser
  pc,       \* where the connection's handler is
  arg,      \* the user it logs in or looks up
  node,     \* the map node it found is still there
  kind,     \* of the message it forwards
  targets,  \* entries of the registry it is still to send to
  fault     \* "none", or how the process came to its end

\* What getUserFd returns for a user who is not online.
NoFd == -1

clientVars   == <<left, deaf, reqs>>
registryVars == <<UID_map, offline>>
vars == <<phase, fd, Uid, clientVars, got, registryVars, pc, arg, node, kind,
          targets, fault>>

Kinds    == {"GROUP", "SINGLE", "CLOSE"}
Message  == [kind : Kinds \cup {"JSON"}, from : Clients]
Entry    == [to : Users, fd : Fds \cup {NoFd}]
Faults   == {"none", "thrown", "sigpipe", "use_after_free", "out_of_bounds"}
Running  == fault = "none"
InUse    == {fd[c] : c \in {d \in Clients : phase[d] = "open"}}
At(c, s) == Running /\ pc[c] = s
Goto(c, s) == pc' = [pc EXCEPT ![c] = s]
Mail(c, k) == [kind |-> k, from |-> c]

Init ==
  /\ phase = [c \in Clients |-> "away"] /\ fd = [c \in Clients |-> NoFd]
  /\ Uid = [c \in Clients |-> NoUser]
  /\ left = [c \in Clients |-> FALSE] /\ deaf = [c \in Clients |-> FALSE]
  /\ reqs = 0
  /\ got = [c \in Clients |-> {}]
  /\ UID_map = [u \in Users |-> NoFd] /\ offline = 0
  /\ pc = [c \in Clients |-> "idle"] /\ arg = [c \in Clients |-> NoUser]
  /\ node = [c \in Clients |-> FALSE] /\ kind = [c \in Clients |-> "GROUP"]
  /\ targets = [c \in Clients |-> {}] /\ fault = "none"

(***************************************************************************)
(* Clients                                                                  *)
(***************************************************************************)
\* Accepted with the lowest descriptor that is free; a new TcpTool has no Uid.
Connect(c) ==
  /\ Running /\ phase[c] = "away"
  /\ \E f \in Fds \ InUse : /\ \A g \in Fds \ InUse : f <= g
                            /\ fd' = [fd EXCEPT ![c] = f]
  /\ phase' = [phase EXCEPT ![c] = "open"]
  /\ UNCHANGED <<Uid, clientVars, got, registryVars, pc, arg, node, kind,
                 targets, fault>>

Leave(c) ==
  /\ Running /\ phase[c] = "open" /\ ~left[c]
  /\ left' = [left EXCEPT ![c] = TRUE] /\ deaf' = [deaf EXCEPT ![c] = FALSE]
  /\ UNCHANGED <<phase, fd, Uid, reqs, got, registryVars, pc, arg, node, kind,
                 targets, fault>>

\* Whatever is sent to it from now on has nowhere to go.
StopReading(c) ==
  /\ Running /\ phase[c] = "open" /\ ~left[c] /\ ~deaf[c]
  /\ deaf' = [deaf EXCEPT ![c] = TRUE]
  /\ UNCHANGED <<phase, fd, Uid, left, reqs, got, registryVars, pc, arg, node,
                 kind, targets, fault>>

\* The fields of the messages: what splitStr makes of them.
Infos == {splitStr(line, Delimiter) : line \in Lines}

\* dowork: a message has been read and is handed to its handler.
Request(c) ==
  /\ At(c, "idle") /\ phase[c] = "open" /\ ~left[c] /\ reqs < MaxReqs
  /\ reqs' = reqs + 1
  /\ UNCHANGED <<phase, fd, Uid, left, deaf, got, registryVars, node, targets, fault>>

\* Requests that nothing answers: a registration or a login that has not got two
\* fields (an unknown command is another).
Ignored(c) ==
  /\ {info \in Infos : Len(info) <= 1} # {}
  /\ Request(c) /\ UNCHANGED <<pc, arg, kind>>

\* enroll, and a login that the database refuses: only an answer.
Refused(c) ==
  /\ {info \in Infos : Len(info) > 1} # {}
  /\ Request(c) /\ Goto(c, "reply") /\ UNCHANGED <<arg, kind>>

\* A login that the database confirms.
Login(c, u) ==
  /\ {info \in Infos : Len(info) > 1 /\ info[1] = <<u>>} # {}
  /\ Request(c) /\ Goto(c, "addUser")
  /\ arg' = [arg EXCEPT ![c] = u]
  /\ UNCHANGED kind

\* transfer asks for no login.
Group(c) ==
  /\ Request(c) /\ Goto(c, "list")
  /\ kind' = [kind EXCEPT ![c] = "GROUP"]
  /\ UNCHANGED arg

\* Mutant: the receiver is not taken from the message.
SingleUnnamed(c, u) ==
  /\ {info \in Infos : Len(info) > 2 /\ info[1] = <<u>>} # {}
  /\ Request(c) /\ Goto(c, "find")
  /\ kind' = [kind EXCEPT ![c] = "SINGLE"]
  /\ UNCHANGED arg

\* singleChat to user u: receiver, sender and text.
Single(c, u) ==
  /\ {info \in Infos : Len(info) > 2 /\ info[1] = <<u>>} # {}
  /\ Request(c) /\ Goto(c, "find")
  /\ arg' = [arg EXCEPT ![c] = u]
  /\ kind' = [kind EXCEPT ![c] = "SINGLE"]

\* singleChat with a field missing: it indexes what splitStr has returned without
\* asking for its size, before anything is sent.
SingleTorn(c) ==
  /\ {info \in Infos : Len(info) <= 2} # {}
  /\ At(c, "idle") /\ phase[c] = "open" /\ ~left[c] /\ reqs < MaxReqs
  /\ reqs' = reqs + 1 /\ fault' = "out_of_bounds"
  /\ UNCHANGED <<phase, fd, Uid, left, deaf, got, registryVars, pc, arg, node,
                 kind, targets>>

(***************************************************************************)
(* login                                                                    *)
(***************************************************************************)
\* getCurrentTimeStr returns a dead local array: depending on the compiler the
\* conversion to std::string throws at once, or there is some time.  addUser
\* then overwrites whatever the name had before.
AddUser(c) ==
  /\ At(c, "addUser")
  /\ \/ /\ UID_map' = [UID_map EXCEPT ![arg[c]] = fd[c]]
        /\ Uid' = [Uid EXCEPT ![c] = arg[c]]
        /\ Goto(c, "welcome")
        /\ UNCHANGED fault
     \/ fault' = "thrown" /\ UNCHANGED <<UID_map, Uid, pc>>
  /\ UNCHANGED <<phase, fd, clientVars, got, offline, arg, node, kind, targets>>

\* sendn to the client's own descriptor: received, lost because the client is
\* gone, or, with the reset already there, the end of the process: SIGPIPE is
\* not ignored.  The socket is a blocking one, so send does not return while the
\* client takes nothing.
Answer(c, messages) ==
  \/ /\ ~left[c] /\ ~deaf[c]
     /\ got' = [got EXCEPT ![c] = @ \cup messages]
     /\ UNCHANGED fault
  \/ left[c] /\ UNCHANGED <<got, fault>>
  \/ left[c] /\ fault' = "sigpipe" /\ UNCHANGED got

Reply(c) ==
  /\ At(c, "reply") /\ Answer(c, {}) /\ Goto(c, "idle")
  /\ UNCHANGED <<phase, fd, Uid, clientVars, registryVars, arg, node, kind, targets>>

Welcome(c) ==
  /\ At(c, "welcome") /\ Answer(c, {}) /\ Goto(c, "info")
  /\ UNCHANGED <<phase, fd, Uid, clientVars, registryVars, arg, node, kind, targets>>

sendNewUserForInfo(c) ==
  /\ At(c, "info")
  /\ \/ "sent" \in InfoOutcomes /\ Answer(c, {Mail(c, "JSON")})
     \/ "throws" \in InfoOutcomes /\ fault' = "thrown" /\ UNCHANGED got
  /\ Goto(c, "idle") /\ arg' = [arg EXCEPT ![c] = NoUser]
  /\ UNCHANGED <<phase, fd, Uid, clientVars, registryVars, node, kind, targets>>

(***************************************************************************)
(* transfer, singleChat and the goodbye                                     *)
(***************************************************************************)
\* The registry's entries at this moment.
getFdList(c) ==
  /\ At(c, "list")
  /\ targets' = [targets EXCEPT ![c] =
                   {[to |-> u, fd |-> UID_map[u]] : u \in {v \in Users : UID_map[v] # NoFd}}]
  /\ Goto(c, "send")
  /\ UNCHANGED <<phase, fd, Uid, clientVars, got, registryVars, arg, node, kind, fault>>

\* Mutant: goes on only when the user is not found.
findUserInverted(c) ==
  /\ At(c, "find")
  /\ IF UID_map[arg[c]] # NoFd
     THEN /\ targets' = [targets EXCEPT ![c] = {[to |-> arg[c], fd |-> NoFd]}]
          /\ Goto(c, "send") /\ UNCHANGED node
     ELSE /\ node' = [node EXCEPT ![c] = TRUE]
          /\ Goto(c, "read") /\ UNCHANGED targets
  /\ UNCHANGED <<phase, fd, Uid, clientVars, got, registryVars, arg, kind, fault>>

\* getUserFd, the locked part: -1 when there is no such user.
findUser(c) ==
  /\ At(c, "find")
  /\ IF UID_map[arg[c]] = NoFd
     THEN /\ targets' = [targets EXCEPT ![c] = {[to |-> arg[c], fd |-> NoFd]}]
          /\ Goto(c, "send") /\ UNCHANGED node
     ELSE /\ node' = [node EXCEPT ![c] = TRUE]
          /\ Goto(c, "read") /\ UNCHANGED targets
  /\ UNCHANGED <<phase, fd, Uid, clientVars, got, registryVars, arg, kind, fault>>

\* ... and the rest after the unlock: the iterator is read, erased or not.
readFd(c) ==
  /\ At(c, "read")
  /\ IF node[c]
     THEN /\ targets' = [targets EXCEPT ![c] =
                           {[to |-> arg[c], fd |-> UID_map[arg[c]]]}]
          /\ node' = [node EXCEPT ![c] = FALSE]
          /\ Goto(c, "send") /\ UNCHANGED fault
     ELSE fault' = "use_after_free" /\ UNCHANGED <<targets, node, pc>>
  /\ UNCHANGED <<phase, fd, Uid, clientVars, got, registryVars, arg, kind>>

\* The entry whose turn it is (the list has the map's order), and the clients at
\* the other end of its descriptor now.
Turn(c) == {t \in targets[c] : \A s \in targets[c] : t.to <= s.to}
Ends(t) == {d \in Clients : phase[d] = "open" /\ fd[d] = t.fd}

\* Mutant: a send that fails ends the loop.
sendUntilError(c) ==
  /\ At(c, "send")
  /\ \E t \in Turn(c) :
       LET ends == {d \in Ends(t) : ~left[d]} IN
       /\ \A d \in ends : ~deaf[d]
       /\ targets' = [targets EXCEPT ![c] = IF ends = {} THEN {} ELSE @ \ {t}]
       /\ got' = [d \in Clients |-> IF d \in ends
                                    THEN got[d] \cup {Mail(c, kind[c])} ELSE got[d]]
  /\ UNCHANGED <<phase, fd, Uid, clientVars, registryVars, pc, arg, node, kind, fault>>

\* One round of the loop over the list: sendn to whoever has the descriptor now,
\* whatever comes of it, unless that client takes nothing: then send blocks, and
\* with it the loop.
sendNext(c) ==
  /\ At(c, "send")
  /\ \E t \in Turn(c) :
       LET ends == Ends(t) IN
       /\ \A d \in ends : ~deaf[d]
       /\ targets' = [targets EXCEPT ![c] = @ \ {t}]
       /\ \/ /\ got' = [d \in Clients |-> IF d \in ends /\ ~left[d]
                                          THEN got[d] \cup {Mail(c, kind[c])}
                                          ELSE got[d]]
             /\ UNCHANGED fault
          \/ /\ \E d \in ends : left[d]
             /\ fault' = "sigpipe" /\ UNCHANGED got
  /\ UNCHANGED <<phase, fd, Uid, clientVars, registryVars, pc, arg, node, kind>>

endSend(c) ==
  /\ At(c, "send") /\ targets[c] = {}
  /\ Goto(c, IF phase[c] = "gone" THEN "done" ELSE "idle")
  /\ arg' = [arg EXCEPT ![c] = NoUser] /\ kind' = [kind EXCEPT ![c] = "GROUP"]
  /\ UNCHANGED <<phase, fd, Uid, clientVars, got, registryVars, node, targets,
                 fault>>

(***************************************************************************)
(* The end of a connection                                                  *)
(***************************************************************************)
\* read returned 0.
beginClose(c) ==
  /\ At(c, "idle") /\ phase[c] = "open" /\ left[c]
  /\ Goto(c, "delUser")
  /\ UNCHANGED <<phase, fd, Uid, clientVars, got, registryVars, arg, node, kind,
                 targets, fault>>

\* Mutant: moves the user to the offline list and keeps the entry.
delUserKept(c) ==
  LET u == Uid[c] IN
  /\ At(c, "delUser")
  /\ IF u \in Users /\ UID_map[u] # NoFd THEN offline' = offline + 1
                                          ELSE UNCHANGED offline
  /\ Goto(c, "delete")
  /\ UNCHANGED <<phase, fd, Uid, clientVars, got, UID_map, arg, node, kind, targets, fault>>

\* delUser(Uid): erases the name's entry, whoever made it.
delUser(c) ==
  LET u == Uid[c] IN
  /\ At(c, "delUser")
  /\ IF u \in Users /\ UID_map[u] # NoFd
     THEN /\ UID_map' = [UID_map EXCEPT ![u] = NoFd]
          /\ offline' = offline + 1
          /\ node' = [d \in Clients |-> node[d] /\ arg[d] # u]
     ELSE UNCHANGED <<registryVars, node>>
  /\ Goto(c, "delete")
  /\ UNCHANGED <<phase, fd, Uid, clientVars, got, arg, kind, targets, fault>>

\* delete tool closes the descriptor; the goodbye is still to be sent.
deleteTool(c) ==
  /\ At(c, "delete")
  /\ phase' = [phase EXCEPT ![c] = "gone"] /\ fd' = [fd EXCEPT ![c] = NoFd]
  /\ Uid' = [Uid EXCEPT ![c] = NoUser]
  /\ kind' = [kind EXCEPT ![c] = "CLOSE"]
  /\ Goto(c, "list")
  /\ UNCHANGED <<clientVars, got, registryVars, arg, node, targets, fault>>

-------------------------------------------------------------------------------
Client(c) ==
  \/ Connect(c) \/ Leave(c) \/ StopReading(c) \/ Ignored(c) \/ Refused(c) \/ Group(c)
  \/ SingleTorn(c) \/ \E u \in Users : Single(c, u)

Handler(c) ==
  \/ AddUser(c) \/ Reply(c) \/ Welcome(c) \/ sendNewUserForInfo(c)
  \/ getFdList(c) \/ findUser(c) \/ readFd(c) \/ sendNext(c) \/ endSend(c)
  \/ beginClose(c) \/ delUser(c) \/ deleteTool(c)

Next ==
  \E c \in Clients : Client(c) \/ (\E u \in Users : Login(c, u)) \/ Handler(c)

Spec == Init /\ [][Next]_vars

\* Some worker goes on with a handler for as long as no call of it blocks.  Clients
\* owe nothing: not to send, not to leave, not even to read.
Fairness == \A c \in Clients : WF_vars(Handler(c))

-------------------------------------------------------------------------------
(***************************************************************************)
(* Properties                                                               *)
(***************************************************************************)
\* Every variable has its type.
TypeOK ==
  /\ phase \in [Clients -> {"away", "open", "gone"}]
  /\ fd \in [Clients -> Fds \cup {NoFd}]
  /\ Uid \in [Clients -> Users \cup {NoUser}]
  /\ left \in [Clients -> BOOLEAN] /\ deaf \in [Clients -> BOOLEAN]
  /\ reqs \in 0..MaxReqs
  /\ got \in [Clients -> SUBSET Message]
  /\ UID_map \in [Users -> Fds \cup {NoFd}] /\ offline \in Nat
  /\ pc \in [Clients -> {"idle", "addUser", "reply", "welcome", "info", "list",
                         "find", "read", "send", "delUser", "delete", "done"}]
  /\ arg \in [Clients -> Users \cup {NoUser}]
  /\ \A c \in Clients : pc[c] \in {"addUser", "find", "read"} => arg[c] \in Users
  /\ node \in [Clients -> BOOLEAN] /\ kind \in [Clients -> Kinds]
  /\ targets \in [Clients -> SUBSET Entry]
  /\ fault \in Faults

\* Users that have one connection at a time and log in once on it: the name is
\* on no other connection, as far as the server has noticed that it ended.
FreshLogin(c, u) ==
  /\ Login(c, u) /\ Uid[c] = NoUser
  /\ \A d \in Clients \ {c} : Uid[d] # u /\ (pc[d] = "addUser" => arg[d] # u)

OneSessionNext ==
  \E c \in Clients : Client(c) \/ (\E u \in Users : FreshLogin(c, u)) \/ Handler(c)

OneSessionSpec == Init /\ [][OneSessionNext]_vars /\ Fairness

\* The fields of a message that has been taken, whichever it is, are its stretches
\* between delimiters, none of them empty and none left out.  A field that is
\* empty therefore does not count: the ones after it take its place, and a handler
\* finds fewer than it expects.
AllCut == \A line \in Lines : Cuts(line, Delimiter, splitStr(line, Delimiter))
SplitsAtDelimiters == reqs > 0 => AllCut

\* With them the registry has exactly the logged-in connections, each under its
\* name and with a descriptor that is its own: between delUser and delete, and
\* when descriptors are used again, too.
Registered(c) == phase[c] = "open" /\ Uid[c] # NoUser /\ pc[c] # "delete"
RegistryExact ==
  /\ \A c \in Clients : Registered(c) => UID_map[Uid[c]] = fd[c]
  /\ \A u \in Users : UID_map[u] # NoFd =>
       \E c \in Clients : Registered(c) /\ Uid[c] = u /\ fd[c] = UID_map[u]

\* The sender stands in a send to a client that reads no more.
Held(c) == At(c, "send") /\ \E t \in Turn(c) : \E d \in Ends(t) : deaf[d]

\* What excuses a message that does not arrive: its receiver has left, or the
\* process has ended, which takes a failed conversion, a message without its
\* fields or, for the two others, a client that left.
Ended == \/ fault \in {"thrown", "out_of_bounds"}
         \/ fault \in {"sigpipe", "use_after_free"} /\ \E e \in Clients : left[e]
Reached(c, d, k) ==
  \/ \E m \in got[d] : m.kind = k /\ m.from = c
  \/ left[d] \/ Ended

\* ... a group message and a goodbye reach everybody who is registered when
\* their turn comes, unless that client leaves, the process ends or the sender is
\* held for ever by one client on the list that does not read (TcpTool.cpp:50).
GroupReaches ==
  \A c, d \in Clients, k \in {"GROUP", "CLOSE"} :
    pc[c] = "list" /\ kind[c] = k /\ Registered(d)
      ~> Reached(c, d, k) \/ []Held(c)

\* ... and a message to one user reaches that user, or holds its sender for ever
\* because that very user does not read.
SingleReaches ==
  \A c, d \in Clients :
    pc[c] = "find" /\ Registered(d) /\ arg[c] = Uid[d]
      ~> Reached(c, d, "SINGLE") \/ [](Held(c) /\ deaf[d])
===============================================================================
