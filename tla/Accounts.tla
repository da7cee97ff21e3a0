------------------------------ MODULE Accounts ------------------------------
(***************************************************************************)
(* Registration and login in do_request of src/http/http_conn.cpp: the map *)
(* users, which initmysql_result fills when the server starts, the table   *)
(* user of the database, and the worker threads that read and extend both. *)
(* The mutex m_lock protects the INSERT and the insert into the map, but   *)
(* not the find before them, nor the two lookups of a login.               *)
(*                                                                         *)
(* The table has no key (the schema in the README declares none), so an    *)
(* INSERT of a name that is there succeeds; it may fail at any time.  The  *)
(* choice of a page by the other digits of the URL changes no state.       *)
(***************************************************************************)
EXTENDS Integers, FiniteSets, AccountRecords

CONSTANTS Threads, Names, Passwords,
          Empty,  \* the empty password, whether a form may have it or not
          None    \* no owner of the mutex

ASSUME AccountsAssumption == None \notin Threads

VARIABLES table,      \* the rows of the table: pairs of name and password
          m_lock,     \* owner of the mutex, or None
          pc, req,    \* where each thread is, and the form it works on
          res         \* res[t]: the INSERT succeeded

dbVars == <<users, table, m_lock>>
history == <<confirmed, welcomed, raced, torn>>
vars == <<dbVars, pc, req, res, history>>

Forms == Names \X Passwords
Name(t) == req[t][1]
Password(t) == req[t][2]

\* The maps initmysql_result may build: of several rows with one name the last
\* one that SELECT returns wins, and it returns them in any order.
Loaded == {m \in [{r[1] : r \in table} -> Passwords] :
              \A n \in DOMAIN m : <<n, m[n]>> \in table}

\* An empty table.  What req is before the first form does not matter.
Init ==
    /\ table = {} /\ users = <<>>
    /\ m_lock = None
    /\ pc = [t \in Threads |-> "idle"]
    /\ req \in [Threads -> Forms]
    /\ \A t, u \in Threads : req[t] = req[u]
    /\ res = [t \in Threads |-> FALSE]
    /\ confirmed = {} /\ welcomed = {} /\ raced = {} /\ torn = {}

goto(t, label) == pc' = [pc EXCEPT ![t] = label]
-----------------------------------------------------------------------------
\* A thread is changing the map.
Inserting == \E t \in Threads : pc[t] = "insert"

\* users.find(n), without the lock.  Beside an insert it may miss the name.
Found(n) == IF n \in DOMAIN users
            THEN IF Inserting THEN BOOLEAN ELSE {TRUE}
            ELSE {FALSE}

\* Some other thread is about to put n into the map.
Registering(t) == pc[t] \in {"lock", "query", "insert"}
Pending(t, n) == \E u \in Threads \ {t} : Registering(u) /\ Name(u) = n

\* Register: a name that is found gets registerError.html.
RegisterFinds(t, f) ==
    /\ pc[t] = "idle" /\ TRUE \in Found(f[1])
    /\ UNCHANGED vars

\* A name that is not found goes on to the lock.
RegisterMisses(t, f) ==
    /\ pc[t] = "idle" /\ FALSE \in Found(f[1])
    /\ req' = [req EXCEPT ![t] = f]
    /\ raced' = IF f[1] \in DOMAIN users \/ Pending(t, f[1])
                THEN raced \cup {f[1]} ELSE raced
    /\ goto(t, "lock")
    /\ UNCHANGED <<dbVars, res, confirmed, welcomed, torn>>

\* m_lock.lock()
Lock(t) ==
    /\ pc[t] = "lock" /\ m_lock = None
    /\ m_lock' = t
    /\ goto(t, "query")
    /\ UNCHANGED <<users, table, req, res, history>>

\* mysql_query(mysql, sql_insert)
Query(t) ==
    /\ pc[t] = "query"
    /\ \/ table' = table \cup {req[t]} /\ res' = [res EXCEPT ![t] = TRUE]
       \/ UNCHANGED table /\ res' = [res EXCEPT ![t] = FALSE]
    /\ goto(t, "insert")
    /\ UNCHANGED <<users, m_lock, req, history>>

\* Mutant: users[name] = password.
insertAssigns(n, p) ==
    [k \in DOMAIN users \cup {n} |-> IF k = n THEN p ELSE users[k]]

\* users.insert: it leaves a name that is in the map as it is.
insert(n, p) ==
    [k \in DOMAIN users \cup {n} |-> IF k \in DOMAIN users THEN users[k] ELSE p]

\* Mutant: the result of the INSERT is not looked at.
PageAlways(t) == TRUE

\* if (!res): login.html, else registerError.html.
Page(t) == res[t]

\* The name goes into the map, whatever the INSERT did; unlock and reply.
Insert(t) ==
    /\ pc[t] = "insert"
    /\ users' = insert(Name(t), Password(t))
    /\ m_lock' = None
    /\ confirmed' = IF Page(t) THEN confirmed \cup {req[t]} ELSE confirmed
    /\ goto(t, "idle")
    /\ UNCHANGED <<table, req, res, welcomed, raced, torn>>

\* Login: a name that is not found gets loginError.html.
LoginMisses(t, f) ==
    /\ pc[t] = "idle" /\ FALSE \in Found(f[1])
    /\ UNCHANGED vars

\* One that is found is looked up again.
LoginFinds(t, f) ==
    /\ pc[t] = "idle" /\ TRUE \in Found(f[1])
    /\ req' = [req EXCEPT ![t] = f]
    /\ goto(t, "login")
    /\ UNCHANGED <<dbVars, res, history>>

\* users[name] == password: welcome.html, else loginError.html.  Beside an insert
\* operator[] may miss the name as well; it then adds it with an empty password,
\* which from then on is, or is not, the one that is found.
LoginCompares(t) ==
    /\ pc[t] = "login"
    /\ \E found \in Found(Name(t)) :
          LET stored == IF found THEN users[Name(t)] ELSE Empty IN
          /\ welcomed' = IF stored = Password(t) THEN welcomed \cup {req[t]}
                                                 ELSE welcomed
          /\ torn' = IF found THEN torn ELSE torn \cup {Name(t)}
          /\ users' \in {users, [users EXCEPT ![Name(t)] = stored]}
    /\ goto(t, "idle")
    /\ UNCHANGED <<table, m_lock, req, res, confirmed, raced>>

\* The server stops at any point and starts again: initmysql_result reads the
\* table into an empty map.
initmysql_result ==
    /\ users' \in Loaded
    /\ m_lock' = None
    /\ pc' = [t \in Threads |-> "idle"]
    /\ welcomed' = {} /\ torn' = {}
    /\ UNCHANGED <<table, req, res, confirmed, raced>>

do_request(t) ==
    \/ \E f \in Forms : RegisterFinds(t, f) \/ RegisterMisses(t, f)
                        \/ LoginMisses(t, f) \/ LoginFinds(t, f)
    \/ Lock(t) \/ Query(t) \/ Insert(t) \/ LoginCompares(t)

Next == (\E t \in Threads : do_request(t)) \/ initmysql_result

Spec == Init /\ [][Next]_vars
-----------------------------------------------------------------------------
(* Properties: OnePassword and RegistrationCounts of AccountRecords.       *)

TypeOK ==
    /\ DOMAIN users \subseteq Names
    /\ \A n \in DOMAIN users : users[n] \in Passwords \cup {Empty}
    /\ table \subseteq Forms /\ confirmed \subseteq Forms
    /\ welcomed \subseteq Forms /\ raced \subseteq Names /\ torn \subseteq Names
    /\ m_lock \in Threads \cup {None}
    /\ pc \in [Threads -> {"idle", "lock", "query", "insert", "login"}]
    /\ req \in [Threads -> Forms] /\ res \in [Threads -> BOOLEAN]
=============================================================================
