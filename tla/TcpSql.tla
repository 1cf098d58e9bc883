--------------------------------- MODULE TcpSql ---------------------------------
(***************************************************************************)
(* code/TcpSql.cpp and the two handlers of code/TcpTool.cpp that ask it,     *)
(* enroll and login: one TcpSql object with one MYSQL connection, one result *)
(* and one row, which every worker of the pool uses without a lock.          *)
(*                                                                           *)
(* Each call of the client library is one step, and so is each expression    *)
(* that reads row: two workers interleave between them.  (Two calls that     *)
(* really overlap are undefined; what the model shows happens without that.) *)
(* A connection with a result that has not been stored refuses every query   *)
(* ("commands out of sync"), and one that is lost is not made again.         *)
(* Autocommit is on, so commit and rollback change nothing.  Registration    *)
(* writes the table qq_login, whose names are unique, and login reads the    *)
(* table user, which this program never writes.  Result sets are not freed   *)
(* by Select, so that nothing dangles.                                       *)
(***************************************************************************)
EXTENDS Integers

CONSTANTS
  Workers, Names, Passwords,
  Applicants,  \* names that clients register (the others only log in)
  NoPassword,  \* of a name that is not in a table
  user,        \* the table user: a name's password
  NULL         \* what row is at the end of a result

ASSUME SqlAssumption ==
  /\ NoPassword \notin Passwords /\ Applicants \subseteq Names
  /\ user \in [Names -> Passwords \cup {NoPassword}]
  /\ NULL \notin [name : Names, password : Passwords]

VARIABLES
  up, unstored,  \* the connection exists; ... and has a result to be stored
  result, row,   \* rows of the current result that are still to be fetched
  qq_login,      \* the table of that name: a name's password
  pc,            \* where a worker is in enroll or login
  name, passwd,  \* info[0], info[1]
  answer,        \* what it sends to its client
  alone,         \* history: no other login has overlapped with its login
  fault          \* "none", or how the process came to its end

requestVars == <<name, passwd>>
vars == <<up, unstored, result, row, qq_login, pc, requestVars, answer, alone, fault>>

\* mysql_store_result failed: result is a null pointer.
NoResult == {NULL}
\* Mutant: a name without a password has a row as well.
AllRows == {[name |-> n, password |-> user[n]] : n \in Names}

Rows == {[name |-> n, password |-> user[n]] : n \in {m \in Names : user[m] # NoPassword}}

Init ==
  /\ up = TRUE /\ unstored = FALSE
  /\ result = NoResult /\ row = NULL
  /\ qq_login = [n \in Names |-> NoPassword]
  /\ pc = [w \in Workers |-> "idle"]
  /\ name \in [Workers -> Names] /\ passwd \in [Workers -> Passwords]
  /\ answer = [w \in Workers |-> "none"] /\ alone = [w \in Workers |-> TRUE]
  /\ fault = "none"

At(w, s)    == fault = "none" /\ pc[w] = s
Goto(w, s)  == pc' = [pc EXCEPT ![w] = s]
\* The handler's last step: sendn.
Reply(w, a) == answer' = [answer EXCEPT ![w] = a] /\ Goto(w, "idle")

\* Workers whose login has a query behind it and is not answered.
Comparing == {"name1", "password1", "name2", "password2"}
InSelect  == {w \in Workers : pc[w] \in {"store", "fetch"} \cup Comparing}

\* mysql_query on the shared connection succeeds.
CanQuery == up /\ ~unstored

\* The server closes the connection (it was idle too long, say).
ConnectionLost ==
  /\ fault = "none" /\ up
  /\ up' = FALSE
  /\ UNCHANGED <<unstored, result, row, qq_login, pc, requestVars, answer, alone, fault>>

\* dowork hands a message to enroll or to login.
Request(w, handler, n, p) ==
  /\ At(w, "idle")
  /\ handler = "enroll" => n \in Applicants
  /\ Goto(w, handler)
  /\ name' = [name EXCEPT ![w] = n] /\ passwd' = [passwd EXCEPT ![w] = p]
  /\ answer' = [answer EXCEPT ![w] = "none"]
  /\ alone' = [alone EXCEPT ![w] = TRUE]
  /\ UNCHANGED <<up, unstored, result, row, qq_login, fault>>

\* Mutant: the result of the query is not looked at.
AddUnchecked(w) ==
  /\ At(w, "enroll")
  /\ qq_login' = IF CanQuery /\ qq_login[name[w]] = NoPassword
                 THEN [qq_login EXCEPT ![name[w]] = passwd[w]] ELSE qq_login
  /\ Reply(w, "REGISTER SUCCESS")
  /\ UNCHANGED <<up, unstored, result, row, requestVars, alone, fault>>

\* enroll: every error number is answered like a name that is taken.
Add(w) ==
  /\ At(w, "enroll")
  /\ IF CanQuery /\ qq_login[name[w]] = NoPassword
     THEN /\ qq_login' = [qq_login EXCEPT ![name[w]] = passwd[w]]
          /\ Reply(w, "REGISTER SUCCESS")
     ELSE Reply(w, "REGISTER REPEAT") /\ UNCHANGED qq_login
  /\ UNCHANGED <<up, unstored, result, row, requestVars, alone, fault>>

(***************************************************************************)
(* login: Select(user, passwd)                                               *)
(***************************************************************************)
\* Its query.  The history notes which logins overlap.
Query(w) ==
  /\ At(w, "login")
  /\ IF CanQuery
     THEN /\ unstored' = TRUE
          /\ alone' = [v \in Workers |-> IF v = w THEN InSelect = {}
                                         ELSE alone[v] /\ v \notin InSelect]
          /\ Goto(w, "store") /\ UNCHANGED answer
     ELSE /\ alone' = [alone EXCEPT ![w] = ~unstored]
          /\ Reply(w, "NEED REGISTER") /\ UNCHANGED unstored
  /\ UNCHANGED <<up, result, row, qq_login, requestVars, fault>>

\* mysql_store_result: NULL when the connection is lost.
Store(w) ==
  /\ At(w, "store")
  /\ result' = IF up THEN Rows ELSE NoResult
  /\ unstored' = FALSE
  /\ Goto(w, "fetch")
  /\ UNCHANGED <<up, row, qq_login, requestVars, answer, alone, fault>>

\* Mutant: fetching does not get on to the next row.
SameRows(r) == result

RowsAfter(r) == result \ {r}

\* Mutant: looks at the row that is not there.
CompareEnd(w) == Goto(w, "name1") /\ UNCHANGED answer

EndOfRows(w) == Reply(w, "NEED REGISTER")

\* row = mysql_fetch_row(result).  Of a NULL result some libraries return NULL,
\* others crash.
Fetch(w) ==
  /\ At(w, "fetch")
  /\ \/ /\ result # NoResult
        /\ \E r \in result : row' = r /\ result' = RowsAfter(r)
        /\ Goto(w, "name1") /\ UNCHANGED <<answer, fault>>
     \/ /\ result \in {NoResult, {}}
        /\ row' = NULL
        /\ EndOfRows(w) /\ UNCHANGED <<result, fault>>
     \/ /\ result = NoResult
        /\ fault' = "null_result" /\ UNCHANGED <<result, row, pc, answer>>
  /\ UNCHANGED <<up, unstored, qq_login, requestVars, alone>>

\* Mutant: takes any name for the one that logs in.
NameUnread(w) == TRUE

NameMatches(w) == row.name = name[w]

\* Mutant: takes any password for the right one.
PasswordUnread(w) == TRUE

PasswordMatches(w) == row.password = passwd[w]

\* The expressions that read row[0] and row[1], in the order of evaluation.
Compare(w) ==
  /\ fault = "none" /\ pc[w] \in Comparing
  /\ IF row = NULL THEN fault' = "null_row" /\ UNCHANGED <<pc, answer>>
     ELSE /\ CASE pc[w] = "name1" ->
                    /\ Goto(w, IF NameMatches(w) THEN "password1" ELSE "name2")
                    /\ UNCHANGED answer
               [] pc[w] = "password1" ->
                    IF PasswordMatches(w)
                    THEN /\ answer' = [answer EXCEPT ![w] = "LOGIN SUCCESS"]
                         /\ Goto(w, "selectAll")
                    ELSE Goto(w, "name2") /\ UNCHANGED answer
               [] pc[w] = "name2" ->
                    /\ Goto(w, IF NameMatches(w) THEN "password2" ELSE "fetch")
                    /\ UNCHANGED answer
               [] pc[w] = "password2" ->
                    IF PasswordMatches(w) THEN Goto(w, "fetch") /\ UNCHANGED answer
                    ELSE Reply(w, "PASSWORD ERROR")
          /\ UNCHANGED fault
  /\ UNCHANGED <<up, unstored, result, row, qq_login, requestVars, alone>>

\* selectAll for sendNewUserForInfo: the words of its statement are not
\* separated by blanks, so the server refuses it and the list stays empty.
selectAll(w) ==
  /\ At(w, "selectAll")
  /\ Goto(w, "idle")
  /\ UNCHANGED <<up, unstored, result, row, qq_login, requestVars, answer, alone, fault>>

-------------------------------------------------------------------------------
Handler(w) == \/ Add(w) \/ Query(w) \/ Store(w) \/ Fetch(w) \/ Compare(w)
              \/ selectAll(w)

Next ==
  \/ ConnectionLost
  \/ \E w \in Workers :
       \/ Handler(w)
       \/ \E h \in {"enroll", "login"}, n \in Names, p \in Passwords : Request(w, h, n, p)

Spec == Init /\ [][Next]_vars

\* Workers keep running.
Fairness == \A w \in Workers : WF_vars(Handler(w))
FairSpec == Spec /\ Fairness

-------------------------------------------------------------------------------
(***************************************************************************)
(* Properties                                                                *)
(***************************************************************************)
Answers == {"none", "REGISTER SUCCESS", "REGISTER REPEAT",
            "LOGIN SUCCESS", "PASSWORD ERROR", "NEED REGISTER"}

\* Every variable has its type.
TypeOK ==
  /\ up \in BOOLEAN /\ unstored \in BOOLEAN
  /\ result \in (SUBSET [name : Names, password : Passwords]) \cup {NoResult}
  /\ row \in [name : Names, password : Passwords] \cup {NULL}
  /\ qq_login \in [Names -> Passwords \cup {NoPassword}]
  /\ pc \in [Workers -> {"idle", "enroll", "login", "store", "fetch",
                         "selectAll"} \cup Comparing]
  /\ name \in [Workers -> Names] /\ passwd \in [Workers -> Passwords]
  /\ answer \in [Workers -> Answers] /\ alone \in [Workers -> BOOLEAN]
  /\ fault \in {"none", "null_row", "null_result"}

\* A login that no other login has overlapped with is answered by what the table
\* says, in spite of the registrations and the rows of other logins that went
\* over the same connection before and meanwhile.
Verdict(n, p) == IF user[n] = p THEN "LOGIN SUCCESS"
                 ELSE IF user[n] = NoPassword THEN "NEED REGISTER"
                 ELSE "PASSWORD ERROR"
LoginExact ==
  \A w \in Workers :
    alone[w] /\ up /\ answer[w] \in {"LOGIN SUCCESS", "PASSWORD ERROR", "NEED REGISTER"}
      => answer[w] = Verdict(name[w], passwd[w])

\* Whatever overlaps, a login succeeds, or is told that its password is wrong,
\* only under a name of the table, and succeeds only with a password of the table.
LoginKnown ==
  \A w \in Workers :
    /\ answer[w] \in {"LOGIN SUCCESS", "PASSWORD ERROR"} => user[name[w]] # NoPassword
    /\ answer[w] = "LOGIN SUCCESS" => \E n \in Names : user[n] = passwd[w]

\* A registration that was confirmed is in the table with its own password, of
\* whatever else is registered at the same time.
Granted ==
  \A w \in Workers :
    answer[w] = "REGISTER SUCCESS" => qq_login[name[w]] = passwd[w]

\* Only logins that overlap, or the loss of the connection, crash the process.
CrashShared ==
  /\ fault = "null_row" => \E v, w \in Workers : v # w /\ ~alone[w] /\ w \in InSelect
  /\ fault = "null_result" => ~up

\* A request is answered, unless other logins get in its way.
Answered ==
  \A w \in Workers :
    pc[w] # "idle" ~> pc[w] = "idle" \/ fault # "none" \/ ~alone[w]
===============================================================================
