--------------------------- MODULE AccountRecords ---------------------------
(***************************************************************************)
(* What registration and login in do_request promise to those who use      *)
(* them, in terms of the map users and of the pages they were answered     *)
(* with.  Accounts is the code that is to keep the promise.                *)
(***************************************************************************)

VARIABLES users,      \* the map, a function from the names that are in it
          confirmed,  \* registrations answered with login.html
          welcomed,   \* logins answered with welcome.html since the start
          raced,      \* names a find missed that were, or were about to be, in
                      \* the map
          torn        \* names operator[] missed beside an insert, since the
                      \* start, and gave an empty password

\* From one start of the server to the next a name has one password: no two
\* passwords are both welcome, whatever registrations run at the same time,
\* unless a login's unlocked operator[] changed the map.
OnePassword ==
    \A f, g \in welcomed : f[1] = g[1] => f = g \/ f[1] \in torn

\* Who was told that the registration succeeded can log in with that password,
\* now and after any restart.  Two things can spoil it: a second registration of
\* the name that the unlocked find let through, and, until the next restart, a
\* login whose operator[] missed the name.
RegistrationCounts ==
    \A f \in confirmed :
        f[1] \in DOMAIN users /\ (users[f[1]] = f[2] \/ f[1] \in raced \cup torn)
=============================================================================
