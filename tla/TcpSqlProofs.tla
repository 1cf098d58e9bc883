----------------------------- MODULE TcpSqlProofs -----------------------------
(* Proofs about TcpSql: what the answers to logins and registrations mean, for
   all workers, names, passwords and tables. *)
EXTENDS TcpSql, TLAPS

-------------------------------------------------------------------------------
(***************************************************************************)
(* The inductive invariant                                                  *)
(***************************************************************************)
\* The shared result and row hold rows of the table.
FromTable == row \in Rows \cup {NULL} /\ (result \subseteq Rows \/ result = NoResult)

\* One worker at a time is between its query and mysql_store_result.
OneStores ==
  /\ unstored => \E w \in Workers : pc[w] = "store"
  /\ \A w \in Workers : pc[w] = "store" => unstored
  /\ \A v, w \in Workers : pc[v] = "store" /\ pc[w] = "store" => v = w

\* Logins that are under way together know of each other.
Overlap ==
  /\ \A w \in Workers : ~alone[w] => \E v \in Workers : v # w
  /\ \A v, w \in InSelect : v # w => ~alone[w]

\* A request that is not answered yet.
Pending(w) ==
  /\ pc[w] \notin {"idle", "selectAll"} => answer[w] = "none"
  /\ pc[w] \in {"password1", "password2"} => user[name[w]] # NoPassword
  /\ pc[w] \in {"fetch"} \cup Comparing /\ result = NoResult => ~up
  /\ pc[w] \in Comparing /\ alone[w] => row # NULL

\* The names of Rows outside S are not w's.
NotAmong(w, S) == \A r \in Rows \ S : r.name # name[w]

\* What a login that has the result to itself has found so far.
Found(w) ==
  /\ pc[w] = "fetch" => NotAmong(w, result)
  /\ pc[w] \in Comparing => NotAmong(w, result \cup {row})
  /\ pc[w] \in {"password1", "password2"} => row.name = name[w]
  /\ pc[w] = "name2" /\ row.name = name[w] => row.password # passwd[w]
  /\ pc[w] = "password2" => row.password # passwd[w]

Search == \A w \in Workers : Pending(w) /\ (alone[w] /\ up => Found(w))

Inv ==
  /\ TypeOK /\ FromTable /\ OneStores /\ Overlap /\ Search
  /\ LoginExact /\ LoginKnown /\ Granted /\ CrashShared

LEMMA RowFacts ==
  /\ \A r \in Rows : /\ r \in [name : Names, password : Passwords] /\ r # NULL
                     /\ user[r.name] = r.password /\ r.password # NoPassword
  /\ \A n \in Names : user[n] # NoPassword =>
                        \E r \in Rows : r.name = n /\ r.password = user[n]
  /\ NoResult # {} /\ ~(NoResult \subseteq Rows)
<1>1. ASSUME NEW r \in Rows
      PROVE  /\ r \in [name : Names, password : Passwords] /\ r # NULL
             /\ user[r.name] = r.password /\ r.password # NoPassword
  <2>1. PICK n \in Names : user[n] # NoPassword /\ r = [name |-> n, password |-> user[n]]
    BY DEF Rows
  <2>2. user[n] \in Passwords
    BY <2>1, SqlAssumption
  <2>3. QED
    BY <2>1, <2>2, SqlAssumption
<1>2. ASSUME NEW n \in Names, user[n] # NoPassword
      PROVE  \E r \in Rows : r.name = n /\ r.password = user[n]
  <2> DEFINE r == [name |-> n, password |-> user[n]]
  <2>1. r \in Rows
    BY <1>2 DEF Rows
  <2>2. r.name = n /\ r.password = user[n]
    OBVIOUS
  <2>3. QED
    BY <2>1, <2>2
<1>3. QED
  BY <1>1, <1>2 DEF NoResult

LEMMA InitInv == Init => Inv
<1> SUFFICES ASSUME Init PROVE Inv
  OBVIOUS
<1> USE SqlAssumption DEF Init
<1>1. TypeOK
  <2>1. result \in (SUBSET [name : Names, password : Passwords]) \cup {NoResult}
    OBVIOUS
  <2>2. row \in [name : Names, password : Passwords] \cup {NULL}
    OBVIOUS
  <2>3. QED
    BY <2>1, <2>2 DEF TypeOK, Answers
<1>2. FromTable /\ OneStores /\ Overlap /\ Search
  BY DEF FromTable, OneStores, Overlap, Search, Pending, Found, InSelect, Comparing
<1>3. LoginExact /\ LoginKnown /\ Granted /\ CrashShared
  BY DEF LoginExact, LoginKnown, Granted, CrashShared
<1>4. QED
  BY <1>1, <1>2, <1>3 DEF Inv

-------------------------------------------------------------------------------
(***************************************************************************)
(* Requests and registrations                                               *)
(***************************************************************************)
LEMMA RequestInv ==
  ASSUME Inv, NEW w \in Workers, NEW h \in {"enroll", "login"}, NEW n \in Names,
         NEW p \in Passwords, Request(w, h, n, p)
  PROVE  Inv'
<1> USE DEF Inv, TypeOK, Request, At, Goto
<1>1. TypeOK'
  BY DEF Answers
<1>2. FromTable'
  BY DEF FromTable, Rows, NoResult
<1>3. OneStores'
  <2>1. \A v \in Workers : pc'[v] = "store" <=> pc[v] = "store"
    OBVIOUS
  <2>2. QED
    BY <2>1 DEF OneStores
<1>4. InSelect' = InSelect
  BY DEF InSelect, Comparing
<1>5. Overlap'
  BY <1>4 DEF Overlap, InSelect, Comparing
<1>6. ASSUME NEW v \in Workers
      PROVE  Pending(v)' /\ (alone'[v] /\ up' => Found(v)')
  <2>1. Pending(v) /\ (alone[v] /\ up => Found(v))
    BY DEF Search
  <2>2. CASE v = w
    BY <2>2 DEF Pending, Found, Comparing
  <2>3. CASE v # w
    BY <2>1, <2>3 DEF Pending, Found, NotAmong
  <2>4. QED
    BY <2>2, <2>3
<1>7. LoginExact' /\ LoginKnown' /\ Granted' /\ CrashShared'
  BY <1>4 DEF LoginExact, LoginKnown, Granted, CrashShared, Verdict
<1>8. QED
  BY <1>1, <1>2, <1>3, <1>5, <1>6, <1>7 DEF Search

LEMMA AddInv ==
  ASSUME Inv, NEW w \in Workers, Add(w)
  PROVE  Inv'
<1> USE DEF Inv, TypeOK, Add, At, Goto, Reply, requestVars
<1>1. TypeOK'
  BY DEF Answers
<1>2. FromTable'
  BY DEF FromTable
<1>3. OneStores'
  <2>1. \A v \in Workers : pc'[v] = "store" <=> pc[v] = "store"
    OBVIOUS
  <2>2. QED
    BY <2>1 DEF OneStores
<1>4. InSelect' = InSelect
  BY DEF InSelect, Comparing
<1>5. Overlap'
  BY <1>4 DEF Overlap
<1>6. ASSUME NEW v \in Workers
      PROVE  Pending(v)' /\ (alone'[v] /\ up' => Found(v)')
  <2>1. Pending(v) /\ (alone[v] /\ up => Found(v))
    BY DEF Search
  <2>2. CASE v = w
    BY <2>2 DEF Pending, Found, Comparing
  <2>3. CASE v # w
    BY <2>1, <2>3 DEF Pending, Found, NotAmong
  <2>4. QED
    BY <2>2, <2>3
<1>7. LoginExact' /\ LoginKnown'
  <2>1. \A v \in Workers : answer'[v] = answer[v]
                            \/ answer'[v] \in {"REGISTER SUCCESS", "REGISTER REPEAT"}
    OBVIOUS
  <2>2. QED
    BY <2>1 DEF LoginExact, LoginKnown, Verdict
<1>8. Granted'
  <2> SUFFICES ASSUME NEW v \in Workers, answer'[v] = "REGISTER SUCCESS"
               PROVE  qq_login'[name[v]] = passwd[v]
    BY DEF Granted
  <2>1. CASE v = w
    BY <2>1
  <2>2. CASE v # w
    <3>1. qq_login[name[v]] = passwd[v]
      BY <2>2 DEF Granted
    <3>2. passwd[v] \in Passwords
      OBVIOUS
    <3>3. \/ qq_login' = qq_login
          \/ /\ qq_login[name[w]] = NoPassword
             /\ qq_login' = [qq_login EXCEPT ![name[w]] = passwd[w]]
      OBVIOUS
    <3>4. QED
      BY <3>1, <3>2, <3>3, SqlAssumption
  <2>3. QED
    BY <2>1, <2>2
<1>9. CrashShared'
  BY DEF CrashShared
<1>10. QED
  BY <1>1, <1>2, <1>3, <1>5, <1>6, <1>7, <1>8, <1>9 DEF Search

-------------------------------------------------------------------------------
(***************************************************************************)
(* The steps of a login                                                     *)
(***************************************************************************)
LEMMA QueryInv ==
  ASSUME Inv, NEW w \in Workers, Query(w)
  PROVE  Inv'
<1> USE DEF Inv, TypeOK, Query, At, Goto, Reply, requestVars
<1>1. TypeOK'
  <2>1. alone' \in [Workers -> BOOLEAN] /\ unstored' \in BOOLEAN
    OBVIOUS
  <2>2. pc' \in [Workers -> {"idle", "enroll", "login", "store", "fetch",
                             "selectAll"} \cup Comparing]
        /\ answer' \in [Workers -> Answers]
    BY DEF Answers
  <2>3. QED
    BY <2>1, <2>2
<1>2. FromTable' /\ w \notin InSelect
  BY DEF FromTable, InSelect, Comparing
<1>3. OneStores'
  <2>1. CASE CanQuery
    <3>1. unstored' /\ ~unstored /\ pc' = [pc EXCEPT ![w] = "store"]
      BY <2>1 DEF CanQuery
    <3>2. \A v \in Workers : pc'[v] = "store" <=> v = w
      BY <3>1 DEF OneStores
    <3>3. QED
      BY <3>1, <3>2 DEF OneStores
  <2>2. CASE ~CanQuery
    <3>1. unstored' = unstored /\ \A v \in Workers : pc'[v] = "store" <=> pc[v] = "store"
      BY <2>2
    <3>2. QED
      BY <3>1 DEF OneStores
  <2>3. QED
    BY <2>1, <2>2
<1>4. Overlap'
  <2>1. CASE CanQuery
    <3>1. InSelect' = InSelect \cup {w}
      BY <2>1 DEF InSelect, Comparing
    <3>2. alone' = [v \in Workers |-> IF v = w THEN InSelect = {}
                                       ELSE alone[v] /\ v \notin InSelect]
      BY <2>1
    <3>3. InSelect \subseteq Workers
      BY DEF InSelect
    <3>4. \A v \in Workers : ~alone'[v] => \E u \in Workers : u # v
      <4>1. ~alone'[w] => \E u \in InSelect : u # w
        <5>1. alone'[w] = (InSelect = {})
          BY <3>2
        <5>2. QED
          BY <1>2, <5>1
      <4>2. \A v \in Workers : v # w => \E u \in Workers : u # v
        OBVIOUS
      <4>3. QED
        BY <3>3, <4>1, <4>2
    <3>5. \A u, v \in InSelect' : u # v => ~alone'[v]
      BY <1>2, <3>1, <3>2, <3>3 DEF Overlap
    <3>6. QED
      BY <3>4, <3>5 DEF Overlap
  <2>2. CASE ~CanQuery
    <3>1. InSelect' = InSelect
      BY <2>2 DEF InSelect, Comparing
    <3>2. alone' = [alone EXCEPT ![w] = ~unstored]
      BY <2>2
    <3>3. unstored => \E v \in Workers : v # w
      BY DEF OneStores
    <3>4. QED
      BY <1>2, <3>1, <3>2, <3>3 DEF Overlap, InSelect
  <2>3. QED
    BY <2>1, <2>2
<1>5. ASSUME NEW v \in Workers
      PROVE  Pending(v)' /\ (alone'[v] /\ up' => Found(v)')
  <2>1. Pending(v) /\ (alone[v] /\ up => Found(v))
    BY DEF Search
  <2>2. CASE v = w
    BY <2>1, <2>2 DEF Pending, Found, Comparing
  <2>3. CASE v # w
    <3>1. alone'[v] => alone[v]
      BY <2>3
    <3>2. pc'[v] = pc[v] /\ answer'[v] = answer[v]
      BY <2>3
    <3>3. QED
      BY <2>1, <3>1, <3>2 DEF Pending, Found, NotAmong
  <2>4. QED
    BY <2>2, <2>3
<1>6. LoginExact'
  <2> SUFFICES ASSUME NEW v \in Workers, alone'[v], up',
                      answer'[v] \in {"LOGIN SUCCESS", "PASSWORD ERROR", "NEED REGISTER"}
               PROVE  answer'[v] = Verdict(name[v], passwd[v])
    BY DEF LoginExact, Verdict
  <2>1. v # w
    BY DEF Search, Pending, CanQuery
  <2>2. alone[v] /\ answer'[v] = answer[v]
    BY <2>1
  <2>3. QED
    BY <2>2 DEF LoginExact
<1>7. LoginKnown' /\ Granted' /\ CrashShared'
  BY DEF LoginKnown, Granted, CrashShared
<1>8. QED
  BY <1>1, <1>2, <1>3, <1>4, <1>5, <1>6, <1>7 DEF Search

\* A step of w to a state s that is not behind a query, unless w was.
LEMMA MoveKeeps ==
  ASSUME Inv, NEW w \in Workers, NEW s, pc[w] # "store", s # "store",
         s \in {"fetch"} \cup Comparing => w \in InSelect,
         pc' = [pc EXCEPT ![w] = s], UNCHANGED <<unstored, alone>>
  PROVE  OneStores' /\ Overlap' /\ InSelect' \subseteq InSelect
<1>1. \A v \in Workers : pc'[v] = "store" <=> pc[v] = "store"
  BY DEF Inv, TypeOK
<1>2. OneStores'
  BY <1>1 DEF Inv, OneStores
<1>3. InSelect' \subseteq InSelect
  BY DEF Inv, TypeOK, InSelect
<1>4. QED
  BY <1>2, <1>3 DEF Inv, Overlap

\* What a step of w on the shared result means to another worker.
LEMMA OthersKeep ==
  ASSUME Inv, NEW w \in InSelect, NEW v \in Workers, v # w,
         UNCHANGED <<up, name, passwd, alone>>,
         pc'[v] = pc[v], answer'[v] = answer[v],
         result' = NoResult => result = NoResult \/ ~up
  PROVE  Pending(v)' /\ (alone'[v] /\ up' => Found(v)')
<1>1. Pending(v)
  BY DEF Inv, Search
<1>2. v \in InSelect => ~alone[v]
  BY DEF Inv, Overlap
<1>3. pc[v] \in {"fetch"} \cup Comparing => v \in InSelect
  BY DEF InSelect
<1>4. NoResult' = NoResult
  BY DEF NoResult
<1>5. Pending(v)'
  BY <1>1, <1>2, <1>3, <1>4 DEF Pending, Comparing
<1>6. alone'[v] => Found(v)'
  BY <1>2, <1>3 DEF Found, Comparing
<1>7. QED
  BY <1>5, <1>6

LEMMA StoreInv ==
  ASSUME Inv, NEW w \in Workers, Store(w)
  PROVE  Inv'
<1> USE DEF Inv, TypeOK, Store, At, Goto, requestVars
<1>1. TypeOK'
  <2>1. result' \in (SUBSET [name : Names, password : Passwords]) \cup {NoResult}
    <3>1. Rows \subseteq [name : Names, password : Passwords]
      BY RowFacts
    <3>2. result' = Rows \/ result' = NoResult
      OBVIOUS
    <3>3. QED
      BY <3>1, <3>2
  <2>2. pc' \in [Workers -> {"idle", "enroll", "login", "store", "fetch",
                             "selectAll"} \cup Comparing]
    OBVIOUS
  <2>3. QED
    BY <2>1, <2>2
<1>2. FromTable'
  BY DEF FromTable, Rows, NoResult
<1>3. OneStores'
  BY DEF OneStores
<1>4. InSelect' = InSelect /\ w \in InSelect
  BY DEF InSelect, Comparing
<1>5. Overlap'
  BY <1>4 DEF Overlap
<1>6. ASSUME NEW v \in Workers
      PROVE  Pending(v)' /\ (alone'[v] /\ up' => Found(v)')
  <2>1. Pending(v) /\ (alone[v] /\ up => Found(v))
    BY DEF Search
  <2>2. result' = NoResult => ~up
    BY RowFacts
  <2>3. CASE v = w
    BY <2>1, <2>2, <2>3 DEF Pending, Found, NotAmong, Comparing
  <2>4. CASE v # w /\ v \in InSelect
    <3>1. ~alone[v]
      BY <1>4, <2>4 DEF Overlap
    <3>2. QED
      BY <2>1, <2>2, <2>4, <3>1 DEF Pending
  <2>5. CASE v # w /\ v \notin InSelect
    BY <2>1, <2>5 DEF Pending, Found, InSelect, Comparing
  <2>6. QED
    BY <2>3, <2>4, <2>5
<1>7. LoginExact' /\ LoginKnown' /\ Granted' /\ CrashShared'
  BY <1>4 DEF LoginExact, LoginKnown, Granted, CrashShared, Verdict
<1>8. QED
  BY <1>1, <1>2, <1>3, <1>5, <1>6, <1>7 DEF Search

\* Fetching a row.
LEMMA FetchRow ==
  ASSUME Inv, NEW w \in Workers, NEW r \in result, result # NoResult, pc[w] = "fetch",
         row' = r, result' = result \ {r}, pc' = [pc EXCEPT ![w] = "name1"],
         UNCHANGED <<up, unstored, qq_login, requestVars, answer, alone, fault>>
  PROVE  Inv'
<1> USE DEF Inv, TypeOK, requestVars
<1>1. result \subseteq Rows /\ r \in Rows /\ result' \subseteq Rows
  BY DEF FromTable
<1>2. TypeOK' /\ FromTable'
  <2>1. row' \in [name : Names, password : Passwords]
        /\ result' \in SUBSET [name : Names, password : Passwords]
    BY <1>1, RowFacts
  <2>2. TypeOK'
    BY <2>1 DEF Comparing
  <2>3. QED
    BY <1>1, <2>2 DEF FromTable, Rows, NoResult
<1>3. w \in InSelect
  BY DEF InSelect
<1>4. OneStores' /\ Overlap' /\ InSelect' = InSelect
  <2>1. OneStores' /\ Overlap' /\ InSelect' \subseteq InSelect
    BY <1>3, MoveKeeps
  <2>2. InSelect \subseteq InSelect'
    BY DEF InSelect, Comparing
  <2>3. QED
    BY <2>1, <2>2
<1>5. result' # NoResult /\ row' # NULL
  BY <1>1, RowFacts
<1>6. Pending(w)' /\ (alone'[w] /\ up' => Found(w)')
  <2>1. Pending(w) /\ (alone[w] /\ up => Found(w))
    BY DEF Search
  <2>2. (result \cup {row})' = result
    OBVIOUS
  <2>3. NotAmong(w, result) => NotAmong(w, result \cup {row})'
    BY <2>2 DEF NotAmong, Rows
  <2>4. QED
    BY <1>5, <2>1, <2>3 DEF Pending, Found, Comparing, NoResult
<1>7. Search'
  BY <1>3, <1>5, <1>6, OthersKeep DEF Search
<1>8. LoginExact' /\ LoginKnown' /\ Granted' /\ CrashShared'
  BY <1>4 DEF LoginExact, LoginKnown, Granted, CrashShared, Verdict
<1>9. QED
  BY <1>2, <1>4, <1>7, <1>8

\* The end of the rows.
LEMMA FetchEnd ==
  ASSUME Inv, NEW w \in Workers, result \in {NoResult, {}}, pc[w] = "fetch", fault = "none",
         row' = NULL, pc' = [pc EXCEPT ![w] = "idle"],
         answer' = [answer EXCEPT ![w] = "NEED REGISTER"],
         UNCHANGED <<up, unstored, result, qq_login, requestVars, alone, fault>>
  PROVE  Inv'
<1> USE DEF Inv, TypeOK, requestVars
<1>1. TypeOK' /\ FromTable'
  <2>1. TypeOK'
    BY DEF Answers
  <2>2. QED
    BY <2>1 DEF FromTable, Rows, NoResult
<1>2. w \in InSelect
  BY DEF InSelect
<1>3. OneStores' /\ Overlap'
  BY MoveKeeps DEF Comparing
<1>4. Pending(w)' /\ (alone'[w] /\ up' => Found(w)')
  BY DEF Pending, Found, Comparing
<1>5. Search'
  BY <1>2, <1>4, OthersKeep DEF Search
<1>6. LoginExact'
  <2> SUFFICES ASSUME NEW v \in Workers, alone[v], up,
                      answer'[v] \in {"LOGIN SUCCESS", "PASSWORD ERROR", "NEED REGISTER"}
               PROVE  answer'[v] = Verdict(name[v], passwd[v])
    BY DEF LoginExact, Verdict
  <2>1. CASE v = w
    <3>1. NotAmong(w, result) /\ result = {}
      BY <2>1 DEF Search, Pending, Found
    <3>2. user[name[w]] = NoPassword
      BY <3>1, RowFacts DEF NotAmong
    <3>3. passwd[w] # NoPassword
      BY SqlAssumption
    <3>4. QED
      BY <2>1, <3>2, <3>3 DEF Verdict
  <2>2. CASE v # w
    BY <2>2 DEF LoginExact
  <2>3. QED
    BY <2>1, <2>2
<1>7. LoginKnown' /\ Granted' /\ CrashShared'
  BY DEF LoginKnown, Granted, CrashShared
<1>8. QED
  BY <1>1, <1>3, <1>5, <1>6, <1>7

LEMMA FetchInv ==
  ASSUME Inv, NEW w \in Workers, Fetch(w)
  PROVE  Inv'
<1> USE DEF Fetch, At, Goto, Reply, EndOfRows, RowsAfter
<1>1. ASSUME NEW r \in result, result # NoResult, row' = r, result' = result \ {r},
             Goto(w, "name1"), UNCHANGED <<answer, fault>>
      PROVE  Inv'
  BY <1>1, FetchRow
<1>2. CASE result \in {NoResult, {}} /\ row' = NULL /\ EndOfRows(w) /\ UNCHANGED <<result, fault>>
  BY <1>2, FetchEnd
<1>3. ASSUME result = NoResult, fault' = "null_result", UNCHANGED <<result, row, pc, answer>>
      PROVE  Inv'
  <2>1. UNCHANGED <<up, unstored, qq_login, requestVars, alone>> /\ pc[w] = "fetch"
        /\ fault = "none"
    OBVIOUS
  <2> HIDE DEF Fetch
  <2>2. ~up
    BY <1>3, <2>1 DEF Inv, Search, Pending
  <2> USE DEF Inv, TypeOK, requestVars
  <2>3. TypeOK' /\ FromTable' /\ OneStores' /\ Overlap'
    BY <1>3, <2>1 DEF FromTable, OneStores, Overlap, InSelect, Comparing, Rows, NoResult
  <2>4. Search'
    BY <1>3, <2>1 DEF Search, Pending, Found, NotAmong, NoResult
  <2>5. LoginExact' /\ LoginKnown' /\ Granted' /\ CrashShared'
    BY <1>3, <2>1, <2>2 DEF LoginExact, LoginKnown, Granted, CrashShared, Verdict
  <2>6. QED
    BY <2>3, <2>4, <2>5
<1>4. QED
  BY <1>1, <1>2, <1>3

\* A comparison that leads on, with what is known of the row after it.
LEMMA CompareGoesOn ==
  ASSUME Inv, NEW w \in Workers, pc[w] \in Comparing, row # NULL,
         NEW s \in {"password1", "name2", "password2", "fetch"},
         s \in {"password1", "password2"} => row.name = name[w],
         s = "name2" /\ row.name = name[w] => row.password # passwd[w],
         s = "password2" /\ alone[w] /\ up => row.password # passwd[w],
         s = "fetch" /\ alone[w] /\ up => row.name # name[w],
         pc' = [pc EXCEPT ![w] = s],
         UNCHANGED <<up, unstored, result, row, qq_login, requestVars, answer, alone, fault>>
  PROVE  Inv'
<1> USE DEF Inv, TypeOK, requestVars
<1>1. TypeOK' /\ FromTable'
  <2>1. TypeOK'
    BY DEF Comparing
  <2>2. QED
    BY <2>1 DEF FromTable, Rows, NoResult
<1>2. w \in InSelect
  BY DEF InSelect
<1>3. OneStores' /\ Overlap' /\ InSelect' = InSelect
  <2>1. OneStores' /\ Overlap' /\ InSelect' \subseteq InSelect
    BY <1>2, MoveKeeps DEF Comparing
  <2>2. InSelect \subseteq InSelect'
    BY DEF InSelect, Comparing
  <2>3. QED
    BY <2>1, <2>2
<1>4. Pending(w) /\ (alone[w] /\ up => Found(w))
  BY DEF Search
<1>5. s \in {"password1", "password2"} => user[name[w]] # NoPassword
  BY RowFacts DEF FromTable
<1>6. Pending(w)'
  BY <1>4, <1>5 DEF Pending, Comparing, NoResult
<1>7. ASSUME alone[w], up
      PROVE  Found(w)'
  <2>1. NotAmong(w, result \cup {row})
    BY <1>4, <1>7 DEF Found
  <2>2. s = "fetch" => NotAmong(w, result)
    BY <1>7, <2>1 DEF NotAmong
  <2>3. QED
    BY <1>7, <2>1, <2>2 DEF Found, NotAmong, Rows, Comparing
<1>8. Search'
  BY <1>2, <1>6, <1>7, OthersKeep DEF Search
<1>9. LoginExact' /\ LoginKnown' /\ Granted' /\ CrashShared'
  BY <1>3 DEF LoginExact, LoginKnown, Granted, CrashShared, Verdict
<1>10. QED
  BY <1>1, <1>3, <1>8, <1>9

\* A comparison that ends the search with the answer a.
LEMMA CompareAnswers ==
  ASSUME Inv, NEW w \in Workers, pc[w] \in Comparing, row # NULL, fault = "none",
         NEW s \in {"idle", "selectAll"}, NEW a \in {"LOGIN SUCCESS", "PASSWORD ERROR"},
         user[name[w]] # NoPassword, alone[w] /\ up => row.name = name[w],
         a = "LOGIN SUCCESS" <=> row.password = passwd[w],
         pc' = [pc EXCEPT ![w] = s], answer' = [answer EXCEPT ![w] = a],
         UNCHANGED <<up, unstored, result, row, qq_login, requestVars, alone, fault>>
  PROVE  Inv'
<1> USE DEF Inv, TypeOK, requestVars
<1>1. TypeOK' /\ FromTable'
  <2>1. TypeOK'
    BY DEF Answers
  <2>2. QED
    BY <2>1 DEF FromTable, Rows, NoResult
<1>2. w \in InSelect
  BY DEF InSelect
<1>3. OneStores' /\ Overlap'
  BY <1>2, MoveKeeps DEF Comparing
<1>4. Pending(w)' /\ (alone'[w] /\ up' => Found(w)')
  BY DEF Pending, Found, Comparing
<1>5. Search'
  BY <1>2, <1>4, OthersKeep DEF Search
<1>6. row \in [name : Names, password : Passwords] /\ user[row.name] = row.password
  BY RowFacts DEF FromTable
<1>7. LoginExact'
  <2> SUFFICES ASSUME NEW v \in Workers, alone[v], up,
                      answer'[v] \in {"LOGIN SUCCESS", "PASSWORD ERROR", "NEED REGISTER"}
               PROVE  answer'[v] = Verdict(name[v], passwd[v])
    BY DEF LoginExact, Verdict
  <2>1. CASE v = w
    BY <1>6, <2>1 DEF Verdict
  <2>2. CASE v # w
    BY <2>2 DEF LoginExact
  <2>3. QED
    BY <2>1, <2>2
<1>8. LoginKnown'
  <2>1. a = "LOGIN SUCCESS" => \E n \in Names : user[n] = passwd[w]
    BY <1>6
  <2>2. QED
    BY <2>1 DEF LoginKnown
<1>9. Granted' /\ CrashShared'
  BY DEF Granted, CrashShared
<1>10. QED
  BY <1>1, <1>3, <1>5, <1>7, <1>8, <1>9

LEMMA CompareInv ==
  ASSUME Inv, NEW w \in Workers, Compare(w)
  PROVE  Inv'
<1>1. CASE row = NULL
  <2>1. /\ pc[w] \in Comparing /\ fault' = "null_row"
        /\ UNCHANGED <<up, unstored, result, row, qq_login, pc, requestVars, answer, alone>>
    BY <1>1 DEF Compare
  <2> USE DEF Inv, TypeOK, requestVars
  <2>2. w \in InSelect /\ ~alone[w] /\ \E v \in Workers : v # w
    BY <1>1, <2>1 DEF Search, Pending, Overlap, InSelect
  <2>3. InSelect' = InSelect
    BY <2>1 DEF InSelect, Comparing
  <2>4. TypeOK' /\ FromTable' /\ OneStores' /\ Overlap'
    BY <2>1, <2>3 DEF FromTable, OneStores, Overlap, Rows, NoResult
  <2>5. Search'
    BY <2>1 DEF Search, Pending, Found, NotAmong, NoResult, Rows
  <2>6. LoginExact' /\ LoginKnown' /\ Granted'
    BY <2>1 DEF LoginExact, LoginKnown, Granted, Verdict
  <2>7. CrashShared'
    BY <2>1, <2>2, <2>3 DEF CrashShared
  <2>8. QED
    BY <2>4, <2>5, <2>6, <2>7
<1>2. CASE row # NULL
  <2>1. /\ fault = "none" /\ pc[w] \in Comparing
        /\ UNCHANGED <<up, unstored, result, row, qq_login, requestVars, alone, fault>>
    BY <1>2 DEF Compare
  <2>2. Pending(w) /\ (alone[w] /\ up => Found(w))
    BY DEF Inv, Search
  <2>3. CASE pc[w] = "name1"
    <3>1. /\ UNCHANGED answer
          /\ pc' = [pc EXCEPT ![w] = IF row.name = name[w] THEN "password1" ELSE "name2"]
      BY <1>2, <2>3 DEF Compare, Goto, NameMatches
    <3>2. QED
      BY <1>2, <2>1, <2>3, <3>1, CompareGoesOn
  <2>4. CASE pc[w] = "password1"
    <3>1. CASE row.password = passwd[w]
      <4>1. /\ answer' = [answer EXCEPT ![w] = "LOGIN SUCCESS"]
            /\ pc' = [pc EXCEPT ![w] = "selectAll"]
        BY <1>2, <2>4, <3>1 DEF Compare, Goto, PasswordMatches
      <4>2. QED
        BY <1>2, <2>1, <2>2, <2>4, <3>1, <4>1, CompareAnswers DEF Pending, Found
    <3>2. CASE row.password # passwd[w]
      <4>1. UNCHANGED answer /\ pc' = [pc EXCEPT ![w] = "name2"]
        BY <1>2, <2>4, <3>2 DEF Compare, Goto, PasswordMatches
      <4>2. QED
        BY <1>2, <2>1, <3>2, <4>1, CompareGoesOn
    <3>3. QED
      BY <3>1, <3>2
  <2>5. CASE pc[w] = "name2"
    <3>1. /\ UNCHANGED answer
          /\ pc' = [pc EXCEPT ![w] = IF row.name = name[w] THEN "password2" ELSE "fetch"]
      BY <1>2, <2>5 DEF Compare, Goto, NameMatches
    <3>2. row.name = name[w] /\ alone[w] /\ up => row.password # passwd[w]
      BY <2>2, <2>5 DEF Found
    <3>3. QED
      BY <1>2, <2>1, <3>1, <3>2, CompareGoesOn
  <2>6. CASE pc[w] = "password2"
    <3>1. alone[w] /\ up => row.password # passwd[w] /\ row.name = name[w]
      BY <2>2, <2>6 DEF Found
    <3>2. CASE row.password = passwd[w]
      <4>1. UNCHANGED answer /\ pc' = [pc EXCEPT ![w] = "fetch"]
        BY <1>2, <2>6, <3>2 DEF Compare, Goto, PasswordMatches
      <4>2. QED
        BY <1>2, <2>1, <3>1, <3>2, <4>1, CompareGoesOn
    <3>3. CASE row.password # passwd[w]
      <4>1. /\ answer' = [answer EXCEPT ![w] = "PASSWORD ERROR"]
            /\ pc' = [pc EXCEPT ![w] = "idle"]
        BY <1>2, <2>6, <3>3 DEF Compare, Goto, Reply, PasswordMatches
      <4>2. QED
        BY <1>2, <2>1, <2>2, <2>6, <3>1, <3>3, <4>1, CompareAnswers DEF Pending
    <3>4. QED
      BY <3>2, <3>3
  <2>7. QED
    BY <2>1, <2>3, <2>4, <2>5, <2>6 DEF Comparing
<1>3. QED
  BY <1>1, <1>2

LEMMA ListInv ==
  ASSUME Inv, NEW w \in Workers, selectAll(w)
  PROVE  Inv'
<1>1. /\ pc[w] = "selectAll" /\ pc' = [pc EXCEPT ![w] = "idle"] /\ fault = "none"
      /\ UNCHANGED <<up, unstored, result, row, qq_login, requestVars, answer, alone, fault>>
  BY DEF selectAll, At, Goto
<1> USE DEF Inv, TypeOK, requestVars
<1>2. TypeOK' /\ FromTable'
  BY <1>1 DEF FromTable, Rows, NoResult
<1>3. OneStores' /\ Overlap'
  BY <1>1, MoveKeeps DEF Comparing
<1>4. ASSUME NEW v \in Workers
      PROVE  Pending(v)' /\ (alone'[v] /\ up' => Found(v)')
  <2>1. Pending(v) /\ (alone[v] /\ up => Found(v))
    BY DEF Search
  <2>2. CASE v = w
    BY <1>1, <2>2 DEF Pending, Found, Comparing
  <2>3. CASE v # w
    BY <1>1, <2>1, <2>3 DEF Pending, Found, NotAmong, NoResult, Rows
  <2>4. QED
    BY <2>2, <2>3
<1>5. LoginExact' /\ LoginKnown' /\ Granted' /\ CrashShared'
  BY <1>1 DEF LoginExact, LoginKnown, Granted, CrashShared, Verdict
<1>6. QED
  BY <1>2, <1>3, <1>4, <1>5 DEF Search

\* Losing the connection.
LEMMA LostInv ==
  ASSUME Inv, up' = FALSE,
         UNCHANGED <<unstored, result, row, qq_login, pc, requestVars, answer, alone, fault>>
  PROVE  Inv'
<1> USE DEF Inv, TypeOK, requestVars
<1>1. TypeOK' /\ FromTable' /\ OneStores'
  BY DEF FromTable, OneStores, Rows, NoResult
<1>2. InSelect' = InSelect
  BY DEF InSelect, Comparing
<1>3. Overlap'
  BY <1>2 DEF Overlap
<1>4. Search'
  BY DEF Search, Pending, Comparing
<1>5. LoginExact' /\ LoginKnown' /\ Granted' /\ CrashShared'
  BY <1>2 DEF LoginExact, LoginKnown, Granted, CrashShared
<1>6. QED
  BY <1>1, <1>3, <1>4, <1>5

LEMMA NextInv == Inv /\ [Next]_vars => Inv'
<1> SUFFICES ASSUME Inv, [Next]_vars
             PROVE  Inv'
  OBVIOUS
<1>1. CASE ConnectionLost
  BY <1>1, LostInv DEF ConnectionLost, Inv, TypeOK
<1>2. ASSUME NEW w \in Workers, Handler(w)
      PROVE  Inv'
  BY <1>2, AddInv, QueryInv, StoreInv, FetchInv, CompareInv, ListInv DEF Handler
<1>3. CASE UNCHANGED vars
  <2> USE DEF vars, Inv, TypeOK, requestVars
  <2>1. InSelect' = InSelect
    BY <1>3 DEF InSelect, Comparing
  <2>2. TypeOK' /\ FromTable' /\ OneStores' /\ Overlap'
    BY <1>3, <2>1 DEF FromTable, OneStores, Overlap, Rows, NoResult
  <2>3. Search'
    BY <1>3 DEF Search, Pending, Found, NotAmong, Comparing, NoResult, Rows
  <2>4. LoginExact' /\ LoginKnown' /\ Granted' /\ CrashShared'
    BY <1>3, <2>1 DEF LoginExact, LoginKnown, Granted, CrashShared, Verdict
  <2>5. QED
    BY <2>2, <2>3, <2>4
<1>4. QED
  BY <1>1, <1>2, <1>3, RequestInv DEF Next

LEMMA Invariant == Spec => []Inv
  BY InitInv, NextInv, PTL DEF Spec

-------------------------------------------------------------------------------
(***************************************************************************)
(* The theorems                                                             *)
(***************************************************************************)
\* Every variable keeps its type (TcpSql.cpp, enroll and login of TcpTool.cpp).
THEOREM SqlTypeCorrect == Spec => []TypeOK
<1>1. Inv => TypeOK
  BY DEF Inv
<1>2. QED
  BY Invariant, <1>1, PTL

\* A login that has the shared result to itself is answered by what the table
\* user says (TcpSql.cpp:91-123).
THEOREM SqlLoginExact == Spec => []LoginExact
<1>1. Inv => LoginExact
  BY DEF Inv
<1>2. QED
  BY Invariant, <1>1, PTL

\* However logins overlap, none succeeds without an account of its name or with
\* a password that is nobody's (TcpSql.cpp:109-121).
THEOREM SqlLoginKnown == Spec => []LoginKnown
<1>1. Inv => LoginKnown
  BY DEF Inv
<1>2. QED
  BY Invariant, <1>1, PTL

\* A confirmed registration is in the table (TcpSql.cpp:45-59, TcpTool.cpp:91-104).
THEOREM SqlGranted == Spec => []Granted
<1>1. Inv => Granted
  BY DEF Inv
<1>2. QED
  BY Invariant, <1>1, PTL

\* What can crash the process here is logins that overlap and the loss of the
\* connection (TcpSql.cpp:105-116).
THEOREM SqlCrashShared == Spec => []CrashShared
<1>1. Inv => CrashShared
  BY DEF Inv
<1>2. QED
  BY Invariant, <1>1, PTL
===============================================================================
