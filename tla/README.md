# EasyWebServer in TLA+

TLA+ models of the servers in this repository, with TLC runs on small instances
and TLAPS proofs for every value of the constants. The subject is first of all
`POST-Webserver/SimpleWebServer` (paths below are relative to it unless they
start with `CGI-Learn/` or `GET-WebServer/`), then its predecessor
`GET-WebServer` and the process pool of `CGI-Learn`.

## The system

SimpleWebServer is one process. The **main thread** (`src/main.cpp`) runs an
epoll loop: it accepts, reads whole requests into the buffer of an `http_conn`
and puts the object into the **thread pool**; it also writes the replies.
**Worker threads** take the object, parse the request, route it (with the
accounts map and the database) and prepare the reply. A **heap of timers**,
driven by `SIGALRM` through a pipe, closes idle connections. Everything is
indexed by file descriptor, and a descriptor is reused as soon as it is closed.

GET-WebServer has the same threads and objects without timers, log and database:
nothing finds a connection that everybody has forgotten. It parses like
SimpleWebServer; its `write` keeps no state between two calls.

| Component | State | Operations | Meets the others through |
|---|---|---|---|
| Reactor, `src/main.cpp` | batch of events, `timeout`, `stop_server` | one branch of the loop per kind of event, `cb_func`, `timer_handler` | `users[fd]`, `users_timer[fd]`, epoll registrations, `append` |
| Heap timer, `inc/heap_timer.h` | `m_pq` | add, adjust, del, tick | pointers `users_timer[fd].timer`, the callback |
| `http_conn` life cycle, `src/http/http_conn.cpp` | `m_sockfd`, buffers, `m_user_count` | `init`, `process`, `close_conn`, `read_once`, `write` | main and workers change the same object, kept apart by `EPOLLONESHOT` only |
| Thread pool, `inc/threadpool.h` | `m_workqueue`, mutex, semaphore, `m_stop` | `append`, `run`, destructor | main appends, workers take |
| MySQL pool, `src/MysqlPool/` | `connList`, two counters, semaphore, mutex | `GetConnection`, `ReleaseConnection`, `DestroyPool` | workers, through `connectionRAII`; main's static destructor |
| Blocking queue, `inc/block_queue.h` | circular array, mutex, condition variable | `push`, `pop`, `clear` | the log |
| Log, `src/log/log.cpp`, `inc/log.h` | open file, `m_count`, `m_today`, queue | `write_log`, `async_write_log` | every thread logs, one flush thread writes |
| Request parser | `m_read_buf`, three indices, the state machine | `read_once`, `parse_line`, `process_read`, `parse_*` | segments of the client, `init` between requests |
| Reply | two iovecs, two counters, a file mapping | `process_write`, `write`, `unmap` | prepared by a worker, sent by main in many calls |
| Accounts, `do_request`, `initmysql_result` | map `users`, table `user`, `m_lock` | register, login, load at start | workers, database, restarts |
| CGI process pool, `CGI-Learn/processpool.h` | pipes, `m_pid`, `m_stop` per process | `run_parent`, `run_child` | notifications and signals between processes, one shared listening socket |
| CGI connection, `CGI-Learn/pool_cgi.cpp` | read buffer | `process` | reads a program name, forks |
| GET main loop, `GET-WebServer/src/main.cpp` | batch of events | one branch per kind of event | `users[fd]`, epoll registrations, `append` |
| GET `http_conn`, `GET-WebServer/src/http_conn.cpp` | `m_sockfd`, buffers, `m_user_count`, file mapping | `init`, `read`, `process`, `write`, `close_conn` | main and workers change the same object and both close it |

Hard to test, and what the properties are for: descriptors reused while a
timer, a queued request or a worker still means the old connection; edges of
edge-triggered descriptors that are consumed once; state read before an unlock
and used after it (`connList.size()`, `full()`, `users.find`); two counts of one
thing (semaphore and list, notifications and connections, `m_user_count` and
open sockets); partial reads and writes; objects reused without a full reset;
destructors beside detached threads; a crash between the `INSERT` and the map.
`PROJECT.json` lists each hazard with its line and the properties that cover it.

## Modules

| Module | Models | Run |
|---|---|---|
| `Reactor`, `MCReactor` | epoll loop, timers, `http_conn` life cycle, workers | `reactor_live`, `reactor_safe` |
| `ThreadPool`, refining `WorkQueue` | `inc/threadpool.h` | `pool` |
| `SqlPool` | connection pool | `sql_pool` |
| `BlockQueue` on the array of `QueueArray`, refining `BoundedFifo` | `inc/block_queue.h` | `queue` |
| `AsyncLog` | log, over the queue that `BoundedFifo` describes | `log` |
| `HttpParser`, `MCHttpParser` | reading and parsing, in both servers | `parser_body`, `get_conn` |
| `GetConn`, `MCGetConn`, over an instance of `HttpParser` | exchanges of the GET server: requests, replies, mappings | `get_conn` |
| `Requests` | the requests TLC uses in both | |
| `HttpWrite` | replying | `write` |
| `Accounts`, keeping what `AccountRecords` promises, `MCAccounts` | registration and login | `accounts` |
| `ProcessPool` | `CGI-Learn/processpool.h`, `CGI-Learn/pool_cgi.cpp` | `process_pool` |
| `GetServer` | the GET server's loop, `http_conn` life cycle, workers | `get_server` |
| `ReactorProofs`, `ThreadPoolProofs`, `GetServerProofs`, `GetConnProofs`, `HttpWriteProofs`, `ProcessPoolProofs` | theorems about the module of that name, with their proofs | |
| `DatabaseProofs` | theorems about `SqlPool` and `Accounts` | |
| `LogProofs` | theorems about `AsyncLog` and the `BlockQueue` beneath it | |

Definitions keep the names of the source; `PROJECT.json` maps each to its lines.
Definitions commented "Mutant" are wrong variants of the definition below them.
Each is a plausible bug: put in its place, it makes a property of the module
fail. No specification uses them.

**Reactor.** An action is a branch of the loop, with every call it makes. Main
and workers interleave at each access to shared state: `close_conn` is three
steps, `m_user_count--` a load and a store. Connections are model values that
connect once; descriptors are separate and reused, so that "the timer of this
connection" and "the timer found at this descriptor" can differ. A timer is named
after the connection it was made for. Expiry is the number of TIMESLOTs left.
Buffers hold whose request or reply is in them. The worker side of the pool is
only the queue here; `ThreadPool` has its locks. A worker may fail, close its
connection and take any time. Four history variables, which no action reads,
record what the properties except: `skipped` (the accept loop broke off after the
last edge with clients left), `orphans` (timers that outlived their connection),
`reused` (descriptors accepted while somebody still had them from before) and
`miscounted` (an update of `m_user_count` was lost or made twice).

**ThreadPool, SqlPool, BlockQueue.** A step ends where another thread can come
in: a lock, an unlock, a semaphore operation, an unlocked read. A wake-up of a
condition variable may be spurious. `front()` on an empty `connList`, which
`DestroyPool` makes possible, ends in a state of its own (`PopEmpty`). `WorkQueue` and `BoundedFifo` say what the
two queues promise, without locks.

**AsyncLog.** `full()`, `push` and `pop` are one step each, which is what
`BlockQueue` shows. The first state chooses whether there is a queue and which
threads log.

**HttpParser.** One symbol of the buffer is one byte, except that the text of a
line is one symbol. The client's bytes arrive in segments cut anywhere, and it
may pipeline: `asked` holds the requests that have no reply yet, `lost` says that
`init` has thrown away bytes of one. While a body is incomplete the loop calls
`parse_line` on it; should that find the line of a request behind the body, with
bytes of it read in the meantime, `parse_content` is called again. `Shaped` says
what clients send: any text without a request line; or a request line, headers,
the empty line and the body the headers announce; or such a request spoilt by a
carriage return or line feed on its own, with anything behind it.

**GetConn.** Instantiates `HttpParser` over its own variables and adds what
GET-WebServer does with the verdict: `do_request`, `process_write`, and a `write`
whose counters are local and whose iovecs are never moved on. `wire` is how much
of the reply the client has, if it has each byte once. `open` and `mmap` may fail. The two parsers differ in
log lines and methods only, so the run of `GetConn` is the one that checks
`HttpParser`.

**GetServer.** As Reactor, without timers. `close_conn` is one step in main and
in a worker `removefd`, `m_sockfd = -1` with the load of `m_user_count`, and the
store. `clash` records that a descriptor was opened or closed while a worker was
inside or just after its `close_conn`; what happens then is modelled, and is
where the properties end.

**HttpWrite.** A byte is known by its address, so that sending the right number
of bytes from the wrong place is seen. Each reply may get a mapping of its own,
and `unmap` frees as many bytes as `st_size` says at that time. `open` or `mmap`
may fail: the second iovec is then at `MAP_FAILED` (place -1), from where writev
takes nothing. `splits` counts the writevs that ended in the reply's header.

**Accounts.** The unlocked `find` may miss a name while the map is being
changed (`raced`). A login makes two unlocked lookups in two steps; the second is
`operator[]`, which, if it misses the name, stores an empty password for it that
later lookups may or may not see (`torn`, until the next start). The `INSERT` may fail; the table has no key (schema in
`POST-Webserver/README.md`). The server may stop and start at any point.

**ProcessPool.** Handling one event is one step, since processes share nothing
but the kernel's queues. Children may die at any time. `line[c]` is how much of
the client's line has arrived since the last event, for which `process` cleared
its buffer, and what earlier events have taken away: cut anywhere, also between
CR and LF, in any number of segments. A child's `accept` may fail.

## Runs

Twelve runs; eleven must pass, one shows a disagreement between code and comment.

| Run | Instance | Shows |
|---|---|---|
| `reactor_live` | 1 descriptor, 2 connections, 1 worker, at most 1 user | `EventHasTimer`, `OpenHasTimer`, `Accepted`; `Reaped`, `Stops` under fairness |
| `reactor_safe` | 2 descriptors, 2 connections, 2 workers, 2 segments | `Accepted`, `UserCountExact`, `OneHolder`, `ReplyToAsker`, `TickClosesInactive`, up to the histories above |
| `pool` | 4 requests, 3 threads, limit 1 | `SemCountsQueue`, refinement of `WorkQueue`, `Processed` |
| `sql_pool` | 4 threads, 2 connections, with `DestroyPool` | `NoSharing`, `CountsAgree`, `UsesOpenConnection`, `NullOnlyWhenAllLent`, `PoolServes` |
| `queue` | 2 producers, 2 consumers, 2 slots, 4 pushes | refinement of `BoundedFifo`, `Drained` |
| `log` | 2 threads, 3 lines each, 2 days, 2 slots, 2 lines per file | `WriterOrder`, `NoneLost`, `FilesKept`, `Logged` |
| `parser_body` | 1 POST | a body in two segments is never answered |
| `write` | headers of 2 and 4 bytes, files of 1 and 2, 3 replies | `SendsReply`, `SentInFull`, `MappingLife` |
| `accounts` | 2 threads, 2 names, 2 passwords (one of them empty), restarts | `OnePassword`, `RegistrationCounts` |
| `process_pool` | parent, 2 children, 2 clients | `NotificationsBacked`, `ParentLast`, `Terminates`, `Answered` |
| `get_server` | 2 descriptors, 3 connections, 2 workers, at most 2 users, queue limit 0, 3 segments and hang-ups | `OneHolder`, `TablesAgree`; `Served` under fairness |
| `get_conn` | 6 requests, good and bad, up to 3 in all, pipelined, every segmentation; a body of 4 bytes; header of 3 bytes, files of 0 to 2 | `VerdictRight`, `NoStall`, `MappingLife` |

**Bounds.** The reactor's hazards need one descriptor and a second connection
that gets it; limits on users, on the queue and on descriptors are small enough
to be hit (`MAX_FD` 1 or 2, `MAX_REQUESTS` 0 or 1). In `reactor_safe` one edge
can stand for two clients while two descriptors are free, so that a loop that
stops after one accept is seen; in `reactor_live` clients are refused and accept
runs out of descriptors. The idle timeout (`LIFE`) is one slot in every
run: a connection that has just been heard of has a slot left, an idle one has
none. Clients send one or two segments, after which they are idle. The pools have more
threads than resources. The queue wraps around twice. The log crosses midnight
and a file boundary. The parser's buffer is shorter than one of the requests, and
a body is longer than a line end, so that it can be cut more than once.
In `get_conn` a header of 3 bytes is the shortest for which `write`, which
compares what is sent with what is left of the header, both goes on (after a
writev of 1) and stops too early (after one of 2). In `write` a header of 4 bytes
can be cut twice. In `accounts` one thread inserts while the other looks up, the
same name or another. In `get_server` three
connections share two descriptors, three client actions are enough for two
requests in the pool beside a hang-up, and both workers can be in `close_conn`.
Symmetry is used in
safety runs only. Runs without deadlock checking are those where everybody may
rightly stop: clients with nothing more to send, bounded calls, a stopped server.

**Fairness.** Threads and processes are scheduled: weak fairness of main, of
each worker, of each process. Threads that compete for a mutex or a semaphore
are not served in any order, as POSIX promises none: there fairness is for
the group, and for each thread's steps that need neither. Time passes and a
pending alarm goes off. A reply is finite, so `write` cannot block for ever on
a socket that keeps becoming writable (strong fairness of its end). Nothing is
assumed of clients, of signals from outside, of dying children, of spurious
wake-ups or of a socket becoming writable. In `GetServer` fairness is of main, of
the taking of queued requests, and of each worker inside `process`.

## Where a property is conditional

Several properties name the event after which the code does not keep them, as a
history variable or a state of the model: nothing is assumed about when or
whether that event happens, and up to it the property is checked and proved.
Where a comment of the code promises more, the module states that promise too:
`OneThread`, `ClosesInactive` and `ClientsCounted` in `Reactor`,
`ReturnedIsWaitedFor` in `SqlPool`, `AnsweredAlways` in `ProcessPool`, `SentInFull`
in `GetConn`. Put into the configuration of the module's run each of them gives
a counterexample in about a minute or less.
These are the code's limits, found while modelling:

- *Reactor.* Workers that close connections leave timers behind (`orphans`): once
  accept has given the descriptor to another client the callback, "删除非活动连接…并关闭"
  (`src/main.cpp:63`), closes that client's active connection (`ClosesInactive`) and
  takes `m_user_count` down a second time (`ClientsCounted`). A request that stays
  in the pool beyond the idle timeout, or a worker inside `close_conn`, lets its
  descriptor be `reused`, and two threads can then work on one `http_conn`
  (`OneThread`). After a refusal by `show_error`, or any error of
  `accept`, the loop leaves the rest of the backlog to the next edge (`skipped`).
  `users` is deleted while detached workers may use it.
- *Thread pool.* `append` compares with `>`: `max_requests + 1` requests can
  wait. The destructor wakes nobody; what is queued then may stay there.
- *MySQL pool.* `GetConnection` returns NULL instead of waiting when all
  connections are lent, also while one of them is being given back (`ReturnedIsWaitedFor`).
  After `DestroyPool` a thread the semaphore let through calls `front()` on an
  empty list. `DestroyPool` unlocks twice if the list was not empty,
  which can release a mutex that another thread holds, and it closes only the
  connections that are free.
- *Blocking queue.* `front()`, which nobody calls, reads the slot before the
  head.
- *Log.* Two threads can pass `full()` for the last slot; one line is lost.
  With the queue, or with two threads, a line can go to the file after the one
  it was counted for, and past its line limit.
- *Parser.* A segment that ends inside the body stalls the request (the run
  `parser_body`). A line with a lone CR or LF is waited on, not rejected. Bytes
  of a pipelined request that were read with the one before are thrown away by
  `init`: it is not answered, or what is left of it is judged on its own.
- *Reply.* `write` compares all bytes sent with what is left of the header: two
  splits inside one header break the iovecs (`HeaderCutTwice`). `open` and `mmap`
  are not checked; the file is then not sent and writev's error closes the
  connection.
  `NO_RESOURCE` has no case in `process_write`; the connection is closed without
  a 404. A connection that main closes while its reply waits keeps its mapping.
- *Accounts.* Two registrations of one name can both pass `find`; both may be
  confirmed and only one password works, possibly the other one after a
  restart. A login whose `operator[]` misses a name beside an insert can give it an
  empty password until the next start. After a failed `INSERT` the name can log
  in until the next start.
- *Process pool.* One edge gives one notification: connections that arrive
  together stay in the backlog until the next one comes. Notifications of a
  child that dies, or whose `accept` fails, are lost. Of a program name in two
  segments the second is taken for the name, and a line cut between CR and LF is
  never answered (`AnsweredAlways`).
- *GET server.* A worker's `close_conn` frees the descriptor before it clears
  `m_sockfd` and counts down: a client accepted at it meanwhile has its object
  cut off, and no timer ends it. A request that `append` refuses leaves its
  connection disabled for good. Each edge of the listening socket accepts one
  connection; others that came with it wait for the next client. A short writev
  is either taken for the whole reply or followed by the same bytes from the
  start (`SentInFull`). A hang-up leaves the file mapped, and the object's next reply frees it
  with the size of another file. An empty file, whose page is prepared, falls
  through to `default` and closes the connection. `open` and `mmap` are not
  checked.

## Proofs

**`ReactorProofs`**, for any descriptors, connections, workers and limits
(`ReactorAssumption`): `ReactorTypeOK`, `EventTimerSafe`, `OpenTimerSafe`.
`TypeOK` is not inductive: `adjust_timer` puts whatever `users_timer[fd].timer`
is into the heap, so one must know that it is a timer when an event is handled.
That in turn depends on timers being deleted by `tick` only, outside a batch.
The inductive invariant is `TypeOK /\ TimerInv`, where `TimerInv` joins the two
properties with: a registered descriptor has its timer (`RegisteredHasTimer`, so
that epoll reports only such), a timer in the heap belongs to the descriptor
whose `users_timer` names it (`TimerOfFd`), the heap holds no deleted timer
(`HeapAlive`), connections in the backlog have no timer yet (`BacklogFresh`), and
outside a batch no event is left (`BatchOver`). One lemma per group of
actions: clients and signals, workers, main.

`BacklogAccepted` is inductive with one addition: an event of the listening socket
is in the batch only during one.

Four more theorems need no further assumption: `OneThreadPerConnection`,
`UsersCounted`, `RepliesToAsker` and the action property `TickSparesActive`. Each
excepts by name what the history variables record, so that it says that nothing
else can break the property. Workers fail, close and are slow as they like. The
invariant `ReactorInv` adds to the above: the timer of an open descriptor is its
connection's own and the heap has no others but orphans (`OwnTimer`); a worker has
a descriptor exactly while it is not idle (`Hands`); a closed descriptor is not
registered (`ClosedQuiet`); none is in two hands unless it was reused (`NotInTwo`);
the bytes in an object are its connection's, with the same exception (`OwnBytes`);
and `m_user_count` is the number of open descriptors and of workers that have
closed one and not stored the count, unless it was miscounted (`CountRight`).
`tick` closes the right connection because every timer in the heap that is not an
orphan is the open connection's own, and that stays so because every close in main
takes the descriptor's only timer along.

**`ThreadPoolProofs`**, for any finite set of threads, any requests and any
limit (`ThreadPoolAssumption`): `ThreadPoolTypeOK`, `SemaphoreExact`,
`NoEmptyWakeup`, `QueueBounded` and the refinement `PoolRefinesQueue`. The
inductive invariant `PoolInv` adds to the types that append's argument is there
while it runs and that a thread has a request exactly while it processes it;
without them neither `Append` nor `Tail` keeps its type. The count of woken
threads changes by one per step (`WokenCount`, from the cardinality theorems).
A woken thread is one of those the queue is ahead of the semaphore by, hence the
queue is not empty.

**`DatabaseProofs`** has two parts. *The connection pool*, for any finite sets of threads and connections, no more than
`UINT_MAX` of them (`SqlPoolAssumption`): `ConnectionsNotShared`,
`PoolCountsExact`, `NoUseAfterClose` and the action property `NullMeansAllLent`,
which counts a connection that has not reached `push_back` as lent.
`SqlInv` adds that whoever is in a critical section owns the mutex (`OwnsLock`),
that a thread has a connection between `pop_front` and `push_back` only
(`ConHeld`), that none is missing, so that the two unsigned counters add up to
the number of connections and neither wraps around (`NoneMissing`), and that
the list has no closed connection (`ListOpen`).

*Accounts*, instantiated as `Acc` over the same threads, for any names and
passwords and without an assumption: `NamesHaveOnePassword`,
`ConfirmedCanLogIn`. The invariant says how map and table follow each other through crashes: what is confirmed has a row
(`ConfirmedInTable`), the name of every row is in the map or on its way there
(`TableCovered`), a name that two threads do not race for is registered by one
and has one row (`FreshName`, `OneRow`), a name a login has found stays in the map
(`LoginFound`), and what was welcomed is what the map has unless the name is torn
(`WelcomedInMap`). The mutex is not needed for any of it:
that `insert` keeps an existing entry is.

**`LogProofs`** has two parts as well. *The queue*, instantiated as `Q`, for any items and
threads and every size of the array (`BlockQueueAssumption`, a hypothesis of the
lemmas there; TLC evaluates it on the run `queue`): `QueueImplementsFifo`, the
refinement of `BoundedFifo`.
The abstract queue is read off the array from `m_front` on; the invariant has the
mutex, `m_back` as a function of `m_front` and `m_size`, and that the slots in
between are written. `Wrap` settles the remainders: an index wraps around once.

*The log*, for any finite set of threads, any size of the queue and of
a file (`AsyncLogAssumption`): `LinesInOrder`, `NoLineLost`, `FilesAsPromised`.
The first needs the order of a thread's lines on their whole way: files, the line
the flush thread has in hand, the queue, the line being made (`AllPast`,
`InOrder`). The second needs that nobody else can fill the queue between `full()`
and `push` (`RoomForPush`). The third needs that `m_fp` is the file that
`m_today` and `m_count` name, that no file of a later name has lines, and that
`m_count % m_split_lines` bounds those of the open one (`Rotation`).

**`GetServerProofs`**, for any finite set of descriptors and any connections,
workers and limits (`GetServerAssumption`): `OneThreadPerSocket`,
`TablesStayInStep`. Both rest on one invariant, which says until a `clash`: the
epoll table, `sock` and `m_sockfd` agree (`Tables`), one worker at most is
closing and its descriptor stays closed (`OneCloser`), nobody else has a closed
descriptor (`ClosedFree`), no descriptor is in two hands and no open one in none
(`NotInTwo`, `NotInNone`), and `m_user_count` is the number of open descriptors
and of the one not yet counted down, which the closing worker has loaded
(`CountExact`). One lemma per action; that `clash` is never reset ends it.

**`HttpWriteProofs`**, for headers and files of any length and any number of
requests (`HttpWriteAssumption`): `MappingsReleased`, `RepliesIntact`,
`RepliesSentInFull`. For the mappings: `m_file_address` is the mapping of the reply
being sent, or none, or one that a close in main has left behind, so that
`unmap` spoils no other (`MapInv`). For the bytes: both iovecs are parts of the
reply that begin at `bytes_have_send` (`IovecsRight`), what is sent is its
beginning (`PrefixSent`), and adjacent parts join (`PartJoin`); all until two writevs
have ended in the header of one reply, which is where the last two theorems end.

**`GetConnProofs`**, for any requests that are `Shaped`, files and headers of any
length, any buffer and any number of requests (`GetConnAssumption`,
`ShapedAssumption`): `VerdictsRight`, `NeverStalls`, `MappingsEnd`.

The first two are about the parser. `ParserInv` says, until `init` has thrown
bytes away: the bytes in the buffer and those still to come are the requests in
`asked`, one behind the other, with the line ends that are checked overwritten
(`Following`); the parser's state fits the part of the first request that it has
checked (`Parsing`: in the request line, in the headers with the Content-length
noted exactly if it was there, in the body); the buffer does not end inside a
body unless a segment did (`Uncut`); the verdict is the request's own and stands
while the reply is sent (`Judged`). Every line `parse_line` finds in the head is
one the request has, because the first of its line ends behind `m_checked_idx` is
also the first in the buffer, whatever later requests follow there (`LineTaken`,
`LineNotTaken`). That the prover has no induction over sequences does not matter:
offsets of the requests are a function that each step extends or shifts, and
where a least index is needed `Least` takes it from the well-ordering of the
naturals. `Shaped` is needed: a request that begins with LF would complete a lone
CR at the end of the one before it, and a request is answered before a body that
no header announces has arrived.

The last one is about the reply (`ReplyInv`): a mapping is that of the reply being
sent, or one a hang-up left, or freed (`MappingsHeld`).

**`ProcessPoolProofs`**, for any number of children and any clients
(`ProcessPoolAssumption`): `NotificationsAreBacked`, `ParentEndsLast`. The
inductive invariant `CgiInv` counts what is on its way from the edge of the
listening socket to an `accept` in a child: the edge, the event in the parent's
batch and the bytes in the pipes are together no more than the backlog
(`Backed`); an edge of a child's pipe, seen or not, stands for a byte in it
(`EdgesBacked`), so that `recv` takes one for each `accept`; a process that waits
has nothing left of its last batch (`NoStaleBatch`). For the end of the pool: a
child whose `m_pid` is -1 has been waited for, and the parent stops only when
all are (`Marked`).

Only model-checked: what needs fairness, which is out of the prover's reach
(`Reaped`, `Stops`, `Processed`, `PoolServes`, `Drained`, `Logged`,
`Terminates`, `Answered`, `Served`), and the counterexamples to `AllAnswered`
(`parser_body`) and to the promises named above. Every
other property that a run checks is stated by a theorem. A `TypeOK` that no run lists records the types of a module's variables
for its reader, and for the proofs.

## Not modelled

The text of requests, replies, pages and log lines; start-up failures, which end
the program; the inside of `std::priority_queue` and of the request line; a
reply's header at the limit of its buffer; failing `epoll_wait`; `SO_LINGER`,
with which the GET server's sockets drop unsent bytes at `close`; the CGI program
a child runs; `webbench` (vendored) and the pages. Mappings are taken to lie
apart, so that a `munmap` that is too long hits no other one.

## State of the development

The model covers the parts whose control flow can go wrong. Every safety
property that a run checks is proved for all values of the constants, two of the
modules are proved to refine an abstract queue, and the properties under fairness
are checked on the instances above. What the conditional properties leave out is
listed under *Where a property is conditional*: it is what a change of the code
would have to repair before the conditions can go.
