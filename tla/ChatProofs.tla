------------------------------- MODULE ChatProofs -------------------------------
(***************************************************************************)
(* Theorems about Chat, for every set of connections, users and descriptors  *)
(* and any number of messages.                                               *)
(*                                                                           *)
(* That the registry is exact needs to know who has which descriptor, which   *)
(* handlers can be under way on a connection, and that a name is on one       *)
(* connection at a time, the one that is about to log in included.            *)
(***************************************************************************)
EXTENDS Chat, SplitProofs, TLAPS

\* Open connections have descriptors of their own; only they have handlers
\* that work on the registry, and names.
ConnInv ==
  /\ \A c \in Clients : phase[c] = "open" => fd[c] \in Fds
  /\ \A c, d \in Clients :
       phase[c] = "open" /\ phase[d] = "open" /\ fd[c] = fd[d] => c = d
  /\ \A c \in Clients : Uid[c] # NoUser => phase[c] = "open"
  /\ \A c \in Clients :
       pc[c] \in {"addUser", "delUser", "delete"} => phase[c] = "open"

\* A name belongs to one connection, and so does a name that is being added.
NameInv ==
  /\ \A c \in Clients : pc[c] = "addUser" => Uid[c] = NoUser
  /\ \A c, d \in Clients : Uid[c] = Uid[d] /\ Uid[c] # NoUser => c = d
  /\ \A c, d \in Clients : pc[c] = "addUser" => Uid[d] # arg[c]
  /\ \A c, d \in Clients :
       pc[c] = "addUser" /\ pc[d] = "addUser" /\ arg[c] = arg[d] => c = d

ChatInv == TypeOK /\ ConnInv /\ NameInv /\ RegistryExact

-------------------------------------------------------------------------------
(***************************************************************************)
(* Types                                                                    *)
(***************************************************************************)
LEMMA InitTyped == Init => TypeOK
  BY ChatAssumption DEF Init, TypeOK, Faults, Kinds, NoFd, clientVars, registryVars

\* A message that is read changes nothing but its handler's own state.
LEMMA RequestTyped ==
  ASSUME TypeOK, NEW c \in Clients, Request(c)
  PROVE  /\ reqs' \in 0..MaxReqs /\ pc[c] = "idle"
         /\ UNCHANGED <<phase, fd, Uid, left, deaf, got, UID_map, offline,
                        node, targets, fault>>
BY ChatAssumption DEF TypeOK, Request, registryVars, At

LEMMA AnswerTyped ==
  ASSUME TypeOK, NEW c \in Clients, NEW k, k \subseteq {Mail(c, "JSON")},
         Answer(c, k)
  PROVE  /\ got' \in [Clients -> SUBSET Message]
         /\ fault' \in Faults
<1>1. Mail(c, "JSON") \in Message
  BY DEF Mail, Message
<1>2. QED
  BY <1>1 DEF Answer, TypeOK, Faults

LEMMA ClientTyped ==
  ASSUME TypeOK, NEW c \in Clients,
         Client(c) \/ \E u \in Users : Login(c, u)
  PROVE  TypeOK'
<1> USE DEF TypeOK, clientVars, registryVars
<1>1. CASE Connect(c)
  BY <1>1 DEF Connect
<1>2. CASE Leave(c) \/ StopReading(c)
  BY <1>2 DEF Leave, StopReading
<1>3. CASE Refused(c) \/ Ignored(c)
  BY <1>3, RequestTyped DEF Refused, Ignored, Goto
<1>4. CASE Group(c)
  BY <1>4, RequestTyped DEF Group, Goto, Kinds
<1>5. ASSUME NEW u \in Users, Single(c, u) \/ Login(c, u)
      PROVE  TypeOK'
  BY <1>5, RequestTyped DEF Single, Login, Goto, Kinds
<1>6. CASE SingleTorn(c)
  BY <1>6, ChatAssumption DEF SingleTorn, Faults
<1>7. QED
  BY <1>1, <1>2, <1>3, <1>4, <1>5, <1>6 DEF Client

LEMMA HandlerTyped ==
  ASSUME TypeOK, NEW c \in Clients, Handler(c)
  PROVE  TypeOK'
<1> USE DEF TypeOK, clientVars, registryVars, Goto, At
<1>1. CASE AddUser(c)
  BY <1>1 DEF AddUser, Faults
<1>2. CASE Reply(c)
  BY <1>2, AnswerTyped DEF Reply
<1>3. CASE Welcome(c)
  BY <1>3, AnswerTyped DEF Welcome
<1>4. CASE sendNewUserForInfo(c)
  <2>1. got' \in [Clients -> SUBSET Message] /\ fault' \in Faults
    BY <1>4, AnswerTyped DEF sendNewUserForInfo, Faults
  <2>2. QED
    BY <1>4, <2>1 DEF sendNewUserForInfo
<1>5. CASE getFdList(c)
  <2>1. {[to |-> u, fd |-> UID_map[u]] : u \in {v \in Users : UID_map[v] # NoFd}}
          \in SUBSET Entry
    BY DEF Entry
  <2>2. QED
    BY <1>5, <2>1 DEF getFdList
<1>6. CASE findUser(c)
  <2>1. {[to |-> arg[c], fd |-> NoFd]} \in SUBSET Entry
    BY <1>6 DEF findUser, Entry
  <2>2. QED
    BY <1>6, <2>1, ZenonT(30) DEF findUser
<1>7. CASE readFd(c)
  <2>1. {[to |-> arg[c], fd |-> UID_map[arg[c]]]} \in SUBSET Entry
    BY <1>7 DEF readFd, Entry
  <2>2. QED
    BY <1>7, <2>1, ZenonT(30) DEF readFd, Faults
<1>8. CASE sendNext(c)
  <2>1. Mail(c, kind[c]) \in Message
    BY DEF Mail, Message
  <2>2. /\ got' \in [Clients -> SUBSET Message]
        /\ targets' \in [Clients -> SUBSET Entry]
        /\ fault' \in Faults
    BY <1>8, <2>1 DEF sendNext, Faults
  <2>3. UNCHANGED <<phase, fd, Uid, clientVars, registryVars, pc, arg, node, kind>>
    BY <1>8 DEF sendNext
  <2>4. QED
    BY <2>2, <2>3
<1>9. CASE endSend(c)
  BY <1>9 DEF endSend, Kinds
<1>10. CASE beginClose(c)
  BY <1>10 DEF beginClose
<1>11. CASE delUser(c)
  <2>1. /\ node' \in [Clients -> BOOLEAN] /\ offline' \in Nat
        /\ UID_map' \in [Users -> Fds \cup {NoFd}]
    <3>1. [d \in Clients |-> node[d] /\ arg[d] # Uid[c]] \in [Clients -> BOOLEAN]
      BY Zenon
    <3>2. CASE Uid[c] \in Users /\ UID_map[Uid[c]] # NoFd
      <4>1. /\ UID_map' = [UID_map EXCEPT ![Uid[c]] = NoFd]
            /\ offline' = offline + 1
            /\ node' = [d \in Clients |-> node[d] /\ arg[d] # Uid[c]]
        BY <1>11, <3>2 DEF delUser
      <4>2. node' \in [Clients -> BOOLEAN]
        BY Zenon, <3>1, <4>1
      <4>3. UID_map' \in [Users -> Fds \cup {NoFd}]
        BY <4>1, <3>2
      <4>4. offline' \in Nat
        BY <4>1
      <4>5. QED
        BY Zenon, <4>2, <4>3, <4>4
    <3>3. CASE ~(Uid[c] \in Users /\ UID_map[Uid[c]] # NoFd)
      <4>1. UNCHANGED <<UID_map, offline, node>>
        BY <1>11, <3>3 DEF delUser
      <4>2. QED
        BY <4>1
    <3>4. QED
      BY <3>2, <3>3
  <2>2. /\ UNCHANGED <<phase, fd, Uid, clientVars, got, arg, kind, targets, fault>>
        /\ pc' = [pc EXCEPT ![c] = "delete"]
    BY <1>11 DEF delUser
  <2>3. QED
    BY <2>1, <2>2
<1>12. CASE deleteTool(c)
  BY <1>12 DEF deleteTool, Kinds
<1>13. QED
  BY <1>1, <1>2, <1>3, <1>4, <1>5, <1>6, <1>7, <1>8, <1>9, <1>10, <1>11, <1>12
     DEF Handler

LEMMA NextTyped == TypeOK /\ [Next]_vars => TypeOK'
<1>1. ASSUME TypeOK, UNCHANGED vars
      PROVE  TypeOK'
  BY <1>1 DEF vars, TypeOK, clientVars, registryVars
<1>2. QED
  BY <1>1, ClientTyped, HandlerTyped DEF Next

\* Every variable of the registry and its handlers keeps its type, whatever the
\* clients do (Cache.cpp, TcpTool.cpp).
THEOREM ChatTypeCorrect == Spec => []TypeOK
  BY InitTyped, NextTyped, PTL DEF Spec

-------------------------------------------------------------------------------
(***************************************************************************)
(* The registry                                                             *)
(***************************************************************************)
LEMMA InitExact == Init => ConnInv /\ NameInv /\ RegistryExact
  BY DEF Init, ConnInv, NameInv, RegistryExact, Registered

\* Steps that are neither about connections nor about logins: the handler's pc
\* may move between the places that no invariant is about.
LEMMA QuietExact ==
  ASSUME TypeOK, ConnInv, NameInv, RegistryExact,
         UNCHANGED <<phase, fd, Uid, UID_map>>,
         NEW c \in Clients,
         \A d \in Clients : pc'[d] = pc[d] \/ d = c,
         \A d \in Clients : arg'[d] = arg[d] \/ d = c,
         pc[c] # "delete", pc'[c] \notin {"addUser", "delUser", "delete"}
  PROVE  (ConnInv /\ NameInv /\ RegistryExact)'
<1>1. ConnInv'
  BY DEF ConnInv
<1>2. NameInv'
  BY DEF NameInv
<1>3. \A d \in Clients : Registered(d)' <=> Registered(d)
  BY DEF Registered
<1>4. RegistryExact'
  BY <1>3, Zenon DEF RegistryExact
<1>5. QED
  BY <1>1, <1>2, <1>4

LEMMA StillExact ==
  ASSUME ConnInv, NameInv, RegistryExact,
         UNCHANGED <<phase, fd, Uid, UID_map, pc, arg>>
  PROVE  (ConnInv /\ NameInv /\ RegistryExact)'
<1>1. \A c \in Clients : Registered(c)' <=> Registered(c)
  BY DEF Registered
<1>2. ConnInv' /\ NameInv'
  BY DEF ConnInv, NameInv
<1>3. RegistryExact'
  BY <1>1, Zenon DEF RegistryExact
<1>4. QED
  BY <1>2, <1>3

\* A new connection has no name and a descriptor that nobody has.
LEMMA ConnectExact ==
  ASSUME ChatInv, NEW c \in Clients, Connect(c)
  PROVE  (ConnInv /\ NameInv /\ RegistryExact)'
<1> USE DEF ChatInv, TypeOK
<1>1. PICK f \in Fds \ InUse : fd' = [fd EXCEPT ![c] = f]
  BY DEF Connect
<1>2. /\ phase[c] = "away" /\ phase' = [phase EXCEPT ![c] = "open"]
      /\ UNCHANGED <<Uid, UID_map, pc, arg>>
  BY DEF Connect, registryVars
<1>3. ConnInv'
  BY <1>1, <1>2 DEF ConnInv, InUse
<1>4. NameInv'
  BY <1>2 DEF NameInv
<1>5. \A d \in Clients : /\ Registered(d)' <=> Registered(d)
                         /\ Registered(d) => d # c
  BY <1>2 DEF Registered, ConnInv
<1>6. RegistryExact'
  BY <1>1, <1>2, <1>5 DEF RegistryExact
<1>7. QED
  BY <1>3, <1>4, <1>6

LEMMA FreshLoginExact ==
  ASSUME ChatInv, NEW c \in Clients, NEW u \in Users, FreshLogin(c, u)
  PROVE  (ConnInv /\ NameInv /\ RegistryExact)'
<1> USE DEF ChatInv, TypeOK
<1>1. /\ pc[c] = "idle" /\ phase[c] = "open" /\ Uid[c] = NoUser
      /\ pc' = [pc EXCEPT ![c] = "addUser"] /\ arg' = [arg EXCEPT ![c] = u]
      /\ UNCHANGED <<phase, fd, Uid, UID_map>>
  BY DEF FreshLogin, Login, Request, Goto, At, registryVars
<1>2. \A d \in Clients \ {c} : Uid[d] # u /\ (pc[d] = "addUser" => arg[d] # u)
  BY DEF FreshLogin
<1>3. ConnInv'
  BY <1>1 DEF ConnInv
<1>4. NameInv'
  BY <1>1, <1>2, ChatAssumption DEF NameInv
<1>5. \A d \in Clients : Registered(d)' <=> Registered(d)
  BY <1>1 DEF Registered
<1>6. RegistryExact'
  BY <1>1, <1>5 DEF RegistryExact
<1>7. QED
  BY <1>3, <1>4, <1>6

LEMMA AddUserExact ==
  ASSUME ChatInv, NEW c \in Clients, AddUser(c)
  PROVE  (ConnInv /\ NameInv /\ RegistryExact)'
<1> USE DEF ChatInv, TypeOK
<1>1. CASE UNCHANGED <<UID_map, Uid, pc>>
  BY <1>1, StillExact DEF AddUser
<1>2. CASE ~UNCHANGED <<UID_map, Uid, pc>>
  <2>1. /\ pc[c] = "addUser" /\ arg[c] \in Users
        /\ UID_map' = [UID_map EXCEPT ![arg[c]] = fd[c]]
        /\ Uid' = [Uid EXCEPT ![c] = arg[c]]
        /\ pc' = [pc EXCEPT ![c] = "welcome"]
        /\ UNCHANGED <<phase, fd, arg>>
    BY <1>2 DEF AddUser, Goto, At
  <2>2. phase[c] = "open" /\ Uid[c] = NoUser /\ fd[c] \in Fds
    BY <2>1 DEF ConnInv, NameInv
  <2>3. ConnInv'
    BY <2>1, <2>2 DEF ConnInv
  <2>4. NameInv'
    BY <2>1, ChatAssumption DEF NameInv
  <2>5. \A d \in Clients \ {c} : Registered(d)' <=> Registered(d)
    BY <2>1 DEF Registered
  <2>6. Registered(c)' /\ ~Registered(c)
    BY <2>1, <2>2, ChatAssumption DEF Registered
  <2>7. \A d \in Clients \ {c} : Uid[d] # arg[c]
    BY <2>1 DEF NameInv
  <2>8. \A d \in Clients : Registered(d)' => UID_map'[Uid'[d]] = fd'[d]
    BY <2>1, <2>5, <2>7 DEF RegistryExact, Registered
  <2>9. ASSUME NEW u \in Users, UID_map'[u] # NoFd
        PROVE  \E d \in Clients : /\ Registered(d)'
                                  /\ Uid'[d] = u /\ fd'[d] = UID_map'[u]
    <3>1. CASE u = arg[c]
      BY <2>1, <2>6, <3>1
    <3>2. CASE u # arg[c]
      <4>1. UID_map[u] # NoFd
        BY <2>1, <2>9, <3>2
      <4>2. PICK d \in Clients : Registered(d) /\ Uid[d] = u /\ fd[d] = UID_map[u]
        BY <4>1 DEF RegistryExact
      <4>3. d # c
        BY <4>2, <2>6
      <4>4. QED
        BY <2>1, <2>5, <3>2, <4>2, <4>3
    <3>3. QED
      BY <3>1, <3>2
  <2>10. RegistryExact'
    BY <2>8, <2>9 DEF RegistryExact
  <2>11. QED
    BY <2>3, <2>4, <2>10
<1>3. QED
  BY <1>1, <1>2

LEMMA BeginCloseExact ==
  ASSUME ChatInv, NEW c \in Clients, beginClose(c)
  PROVE  (ConnInv /\ NameInv /\ RegistryExact)'
<1> USE DEF ChatInv, TypeOK
<1>1. /\ pc[c] = "idle" /\ phase[c] = "open"
      /\ pc' = [pc EXCEPT ![c] = "delUser"]
      /\ UNCHANGED <<phase, fd, Uid, UID_map, arg>>
  BY DEF beginClose, Goto, At, registryVars
<1>2. \A d \in Clients : Registered(d)' <=> Registered(d)
  BY <1>1 DEF Registered
<1>3. ConnInv' /\ NameInv'
  BY <1>1 DEF ConnInv, NameInv
<1>4. RegistryExact'
  BY <1>1, <1>2 DEF RegistryExact
<1>5. QED
  BY <1>3, <1>4

\* The entry that goes is the connection's own.
LEMMA DelUserExact ==
  ASSUME ChatInv, NEW c \in Clients, delUser(c)
  PROVE  (ConnInv /\ NameInv /\ RegistryExact)'
<1> USE DEF ChatInv, TypeOK
<1>1. /\ pc[c] = "delUser" /\ phase[c] = "open"
      /\ pc' = [pc EXCEPT ![c] = "delete"]
      /\ UNCHANGED <<phase, fd, Uid, arg>>
  BY DEF delUser, Goto, At, ConnInv
<1>2. UID_map' = [u \in Users |-> IF u = Uid[c] THEN NoFd ELSE UID_map[u]]
  BY DEF delUser, registryVars
<1>3. ConnInv' /\ NameInv'
  BY <1>1 DEF ConnInv, NameInv
<1>4. ~Registered(c)' /\ \A d \in Clients \ {c} : Registered(d)' <=> Registered(d)
  BY <1>1 DEF Registered
<1>5. \A d \in Clients : Registered(d)' =>
        d # c /\ Registered(d) /\ Uid[d] \in Users /\ Uid[d] # Uid[c]
  BY <1>4 DEF NameInv, Registered
<1>6. \A d \in Clients : Registered(d)' => UID_map'[Uid'[d]] = fd'[d]
  BY <1>1, <1>2, <1>5 DEF RegistryExact
<1>7. ASSUME NEW u \in Users, UID_map'[u] # NoFd
      PROVE  \E d \in Clients : /\ Registered(d)'
                                /\ Uid'[d] = u /\ fd'[d] = UID_map'[u]
  <2>1. u # Uid[c] /\ UID_map'[u] = UID_map[u]
    BY <1>2, <1>7
  <2>2. PICK d \in Clients : Registered(d) /\ Uid[d] = u /\ fd[d] = UID_map[u]
    BY <1>7, <2>1 DEF RegistryExact
  <2>3. QED
    BY <1>1, <1>4, <2>1, <2>2
<1>8. RegistryExact'
  BY <1>6, <1>7 DEF RegistryExact
<1>9. QED
  BY <1>3, <1>8

LEMMA DeleteToolExact ==
  ASSUME ChatInv, NEW c \in Clients, deleteTool(c)
  PROVE  (ConnInv /\ NameInv /\ RegistryExact)'
<1> USE DEF ChatInv, TypeOK
<1>1. /\ pc[c] = "delete" /\ pc' = [pc EXCEPT ![c] = "list"]
      /\ phase' = [phase EXCEPT ![c] = "gone"]
      /\ fd' = [fd EXCEPT ![c] = NoFd] /\ Uid' = [Uid EXCEPT ![c] = NoUser]
      /\ UNCHANGED <<UID_map, arg>>
  BY DEF deleteTool, Goto, At, registryVars
<1>2. ConnInv'
  BY <1>1 DEF ConnInv
<1>3. NameInv'
  BY <1>1, ChatAssumption DEF NameInv
<1>4. \A d \in Clients : /\ Registered(d)' <=> Registered(d)
                         /\ Registered(d) => d # c
  BY <1>1 DEF Registered
<1>5. RegistryExact'
  BY <1>1, <1>4 DEF RegistryExact
<1>6. QED
  BY <1>2, <1>3, <1>5

LEMMA OneSessionExact == ChatInv /\ [OneSessionNext]_vars => ChatInv'
<1> SUFFICES ASSUME ChatInv, [OneSessionNext]_vars
             PROVE  ChatInv'
  OBVIOUS
<1>1. TypeOK'
  <2>1. [OneSessionNext]_vars => [Next]_vars
    BY DEF OneSessionNext, Next, FreshLogin
  <2>2. QED
    BY <2>1, NextTyped DEF ChatInv
<1>2. ASSUME NEW c \in Clients, Client(c)
      PROVE  (ConnInv /\ NameInv /\ RegistryExact)'
  <2>1. CASE Connect(c)
    BY <2>1, ConnectExact
  <2>2. CASE Leave(c) \/ StopReading(c) \/ Ignored(c) \/ SingleTorn(c)
    BY <2>2, StillExact DEF Leave, StopReading, Ignored, SingleTorn, Request, ChatInv, registryVars
  <2>3. CASE Refused(c) \/ Group(c) \/ \E u \in Users : Single(c, u)
    <3>1. /\ UNCHANGED <<phase, fd, Uid, UID_map>> /\ pc[c] = "idle"
          /\ \E s \in {"reply", "list", "find"} : pc' = [pc EXCEPT ![c] = s]
          /\ arg' = arg \/ \E u \in Users : arg' = [arg EXCEPT ![c] = u]
      BY <2>3 DEF Refused, Group, Single, Request, Goto, At, registryVars
    <3>2. QED
      BY <3>1, QuietExact DEF ChatInv, TypeOK
  <2>4. QED
    BY <1>2, <2>1, <2>2, <2>3 DEF Client
<1>3. ASSUME NEW c \in Clients, Handler(c)
      PROVE  (ConnInv /\ NameInv /\ RegistryExact)'
  <2>1. CASE AddUser(c)
    BY <2>1, AddUserExact
  <2>2. CASE beginClose(c)
    BY <2>2, BeginCloseExact
  <2>3. CASE delUser(c)
    BY <2>3, DelUserExact
  <2>4. CASE deleteTool(c)
    BY <2>4, DeleteToolExact
  <2>5. CASE \/ Reply(c) \/ Welcome(c) \/ sendNewUserForInfo(c)
             \/ getFdList(c) \/ findUser(c) \/ readFd(c)
             \/ sendNext(c) \/ endSend(c)
    <3>1. UNCHANGED <<phase, fd, Uid, UID_map>>
      BY <2>5 DEF Reply, Welcome, sendNewUserForInfo, getFdList, findUser,
                  readFd, sendNext, endSend, registryVars
    <3>2. /\ pc[c] \in {"reply", "welcome", "info", "list", "find", "read", "send"}
          /\ \/ pc' = pc
             \/ \E s \in {"idle", "info", "send", "read", "done"} :
                  pc' = [pc EXCEPT ![c] = s]
      BY <2>5 DEF Reply, Welcome, sendNewUserForInfo, getFdList, findUser,
                  readFd, sendNext, endSend, Goto, At
    <3>3. arg' = arg \/ arg' = [arg EXCEPT ![c] = NoUser]
      BY <2>5 DEF Reply, Welcome, sendNewUserForInfo, getFdList, findUser,
                  readFd, sendNext, endSend
    <3>4. QED
      BY <3>1, <3>2, <3>3, QuietExact DEF ChatInv, TypeOK
  <2>6. QED
    BY <1>3, <2>1, <2>2, <2>3, <2>4, <2>5 DEF Handler
<1>4. ASSUME NEW c \in Clients, NEW u \in Users, FreshLogin(c, u)
      PROVE  (ConnInv /\ NameInv /\ RegistryExact)'
  BY <1>4, FreshLoginExact
<1>5. ASSUME UNCHANGED vars
      PROVE  (ConnInv /\ NameInv /\ RegistryExact)'
  BY <1>5, StillExact DEF vars, ChatInv, registryVars
<1>6. (ConnInv /\ NameInv /\ RegistryExact)'
  BY <1>2, <1>3, <1>4, <1>5 DEF OneSessionNext
<1>7. QED
  BY <1>1, <1>6 DEF ChatInv

\* For users with one session at a time the registry is exactly the logged-in
\* connections, each with its own open descriptor: addUser, delUser and delete
\* (Cache.cpp:50-64, :79-93, TcpServer.cpp:31-36) come in an order that no
\* interleaving of handlers and no reuse of descriptors upsets.
THEOREM RegistryIsExact == OneSessionSpec => []RegistryExact
<1>1. Init => ChatInv
  BY InitTyped, InitExact DEF ChatInv
<1>2. ChatInv /\ [OneSessionNext]_vars => ChatInv'
  BY OneSessionExact
<1>3. ChatInv => RegistryExact
  BY DEF ChatInv
<1>4. QED
  BY <1>1, <1>2, <1>3, PTL DEF OneSessionSpec

\* Whichever message a handler gets, the fields it works with are the stretches
\* between the delimiters, in order, none empty and none left out: splitStr's
\* search for the next delimiter (TcpTool.cpp:177) skips nothing.
THEOREM FieldsAreStretches == Spec => []SplitsAtDelimiters
<1>1. AllCut
  BY LinesAssumption, SplitCuts DEF AllCut
<1>2. SplitsAtDelimiters
  BY <1>1 DEF SplitsAtDelimiters
<1>3. QED
  BY <1>2, PTL
===============================================================================
