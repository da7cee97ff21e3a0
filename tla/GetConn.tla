------------------------------ MODULE GetConn ------------------------------
(***************************************************************************)
(* GET-WebServer/src/http_conn.cpp on one http_conn object: whole          *)
(* exchanges, from the segments of a request to the bytes of its reply,    *)
(* for one connection after the other.  The parser is, but for log lines   *)
(* and the set of methods, the one of SimpleWebServer, that is HttpParser; *)
(* the reply is not: write keeps nothing from one call to the next.        *)
(*                                                                         *)
(* Mappings are numbered in the order in which mmap returned them.         *)
(***************************************************************************)
EXTENDS Integers, Sequences

CONSTANTS Messages, CONTENT_LENGTH, READ_BUFFER_SIZE, Pipelining, MaxRequests,
          Headers,  \* lengths of m_write_buf's contents
          Files     \* sizes of the files

VARIABLES asked, todo, cut, lost, requests, m_read_buf, m_checked_idx,
          m_start_line, m_check_state, m_content_length, m_linger, line_status,
          pc, ret,         \* as in HttpParser; pc also "armed" for EPOLLOUT,
                           \* "write" while main is in write
          code,            \* what do_request makes of ret, for process_write
          m_write_idx,     \* length of the header, or of an error reply
          file,            \* length of the second iovec, 0 if there is none
          bytes_to_send, bytes_have_send,  \* the local variables of write
          m_file_address,  \* number of a mapping; 0: NULL; -1: MAP_FAILED
          st_size,         \* m_file_stat.st_size
          mapped,          \* mapped[i]: bytes of mapping i that are left
          dropped,         \* mappings of replies that a hang-up ended
          wire             \* the client has the first wire bytes of the reply;
                           \* -1: it has some of them twice

P == INSTANCE HttpParser

ASSUME GetConnAssumption ==
    /\ Messages \subseteq Seq(P!Bytes)
    /\ CONTENT_LENGTH \in Nat \ {0} /\ READ_BUFFER_SIZE \in Nat
    /\ Pipelining \in BOOLEAN /\ MaxRequests \in Nat
    /\ Headers \subseteq Nat \ {0} /\ Files \subseteq Nat

ASSUME ShapedAssumption == \A m \in Messages : P!Shaped(m)

client == <<asked, todo, cut, lost, requests>>
parseVars == <<m_checked_idx, m_start_line, m_check_state, m_content_length,
               m_linger>>
readVars == <<client, m_read_buf, parseVars, line_status, ret>>
fileVars == <<m_file_address, st_size, mapped, dropped>>
writeVars == <<code, m_write_idx, file, bytes_to_send, bytes_have_send, fileVars,
               wire>>
vars == <<readVars, pc, writeVars>>

Init ==
    /\ P!Init
    /\ code = "NO_REQUEST" /\ m_write_idx = 0 /\ file = 0
    /\ bytes_to_send = 0 /\ bytes_have_send = 0
    /\ m_file_address = 0 /\ st_size = 0 /\ mapped = <<>> /\ dropped = {}
    /\ wire = 0

Ask(m) == P!Ask(m) /\ UNCHANGED writeVars
-----------------------------------------------------------------------------
(* Reading: main calls read, a worker process_read.                        *)

read(k) == P!read_once(k) /\ UNCHANGED writeVars

parse_line == P!ParseStops
parse_request_line == P!ParseRequestLine
parse_headers == P!ParseHeader
parse_content == P!ParseContent

process_read ==
    /\ parse_line \/ parse_request_line \/ parse_headers \/ parse_content
    /\ UNCHANGED writeVars
-----------------------------------------------------------------------------
(* do_request and process_write, in the same worker.                       *)

\* process_write has put h bytes into m_write_buf and f more into the second
\* iovec; process arms EPOLLOUT.
process_write(h, f) ==
    /\ pc' = "armed"
    /\ m_write_idx' = h /\ file' = f
    /\ wire' = 0
    /\ UNCHANGED <<readVars, bytes_to_send, bytes_have_send, dropped>>

\* 400 for a request with syntax errors or for a directory; 404; 403.
ReplyError(h, f) ==
    /\ pc = "reply"
    /\ \/ /\ code' = IF ret = "GET_REQUEST" THEN "NO_RESOURCE" ELSE ret
          /\ UNCHANGED st_size
       \/ /\ ret = "GET_REQUEST"
          /\ code' \in {"BAD_REQUEST", "FORBIDDEN_REQUEST"} /\ st_size' = f
    /\ process_write(h, 0)
    /\ UNCHANGED <<m_file_address, mapped>>

\* 200: stat, open, mmap, which are not checked.
ReplyFile(h, f) ==
    /\ pc = "reply" /\ ret = "GET_REQUEST" /\ f # 0
    /\ code' = "FILE_REQUEST" /\ st_size' = f
    /\ \/ mapped' = Append(mapped, f) /\ m_file_address' = Len(mapped')
       \/ m_file_address' = -1 /\ UNCHANGED mapped
    /\ process_write(h, f)

\* An empty file: mmap fails, the case falls through to default, which returns
\* false, and process calls close_conn.
ReplyEmptyFile(h) ==
    /\ pc = "reply" /\ ret = "GET_REQUEST" /\ 0 \in Files
    /\ code' = "FILE_REQUEST" /\ st_size' = 0 /\ m_file_address' = -1
    /\ m_write_idx' = h
    /\ pc' = "closed"
    /\ UNCHANGED <<readVars, file, bytes_to_send, bytes_have_send, mapped,
                   dropped, wire>>
-----------------------------------------------------------------------------
(* write, called by main for EPOLLOUT.                                     *)

\* Every call begins again: with the whole header to send and nothing sent.
write ==
    /\ pc = "armed"
    /\ pc' = "write"
    /\ bytes_to_send' = m_write_idx /\ bytes_have_send' = 0
    /\ UNCHANGED <<readVars, code, m_write_idx, file, fileVars, wire>>

\* The local variables end with the call.
Returns == bytes_to_send' = 0 /\ bytes_have_send' = 0

\* munmap takes st_size bytes off the mapping.
unmap ==
    /\ mapped' = IF m_file_address > 0
                 THEN [mapped EXCEPT ![m_file_address] =
                          IF st_size < @ THEN @ - st_size ELSE 0]
                 ELSE mapped
    /\ m_file_address' = 0
    /\ UNCHANGED <<st_size, dropped>>

\* writev takes n bytes, from the start of both iovecs, which nobody moves on.
\* It stops at a file that is not mapped.
Sends(n) ==
    /\ pc = "write"
    /\ n \in 1..(m_write_idx + file)
    /\ m_file_address = -1 => n <= m_write_idx
    /\ wire' = IF wire = 0 THEN n ELSE -1
    /\ UNCHANGED file

\* bytes_to_send > bytes_have_send: the loop goes on.
writev(n) ==
    /\ Sends(n) /\ bytes_to_send - n > bytes_have_send + n
    /\ bytes_to_send' = bytes_to_send - n
    /\ bytes_have_send' = bytes_have_send + n
    /\ UNCHANGED <<readVars, pc, code, m_write_idx, fileVars>>

\* Otherwise the reply counts as sent.  Keep-alive: init and EPOLLIN.
WriteDone(n) ==
    /\ Sends(n) /\ bytes_to_send - n <= bytes_have_send + n
    /\ Returns
    /\ unmap
    /\ \/ /\ m_linger
          /\ P!init /\ m_write_idx' = 0 /\ code' = "NO_REQUEST"
          /\ asked' = Tail(asked) /\ cut' = FALSE
          /\ lost' = (lost \/ Len(m_read_buf) > Len(Head(asked)))
          /\ pc' = "wait" /\ ret' = "NO_REQUEST"
          /\ UNCHANGED <<todo, requests, line_status>>
       \/ /\ ~m_linger
          /\ pc' = "closed"
          /\ UNCHANGED <<readVars, code, m_write_idx>>

\* EAGAIN: EPOLLOUT again.
WriteBlocks ==
    /\ pc = "write" /\ pc' = "armed"
    /\ Returns
    /\ UNCHANGED <<readVars, code, m_write_idx, file, fileVars, wire>>

\* Mutant: the error path forgets the mapping.
WriteFailsKeeps ==
    /\ pc = "write" /\ pc' = "closed"
    /\ Returns
    /\ UNCHANGED <<readVars, code, m_write_idx, file, fileVars, wire>>

\* Any other error: main calls close_conn.
WriteFails ==
    /\ pc = "write" /\ pc' = "closed"
    /\ Returns /\ unmap
    /\ UNCHANGED <<readVars, code, m_write_idx, file, wire>>

\* The client hangs up: close_conn knows of no mapping.
Hangup ==
    /\ pc \in {"wait", "armed"} /\ pc' = "closed"
    /\ dropped' = IF pc = "armed" /\ m_file_address > 0
                  THEN dropped \cup {m_file_address} ELSE dropped
    /\ UNCHANGED <<readVars, code, m_write_idx, file, bytes_to_send,
                   bytes_have_send, m_file_address, st_size, mapped, wire>>

\* init(sockfd, addr): the descriptor, and this object, serve another client.
init ==
    /\ pc = "closed" /\ requests < MaxRequests
    /\ P!init /\ m_write_idx' = 0 /\ code' = "NO_REQUEST"
    /\ asked' = <<>> /\ todo' = <<>> /\ cut' = FALSE /\ lost' = FALSE
    /\ pc' = "wait" /\ ret' = "NO_REQUEST"
    /\ wire' = 0
    /\ UNCHANGED <<requests, line_status, file, bytes_to_send, bytes_have_send,
                   fileVars>>
-----------------------------------------------------------------------------
Longest == CHOOSE n \in {h + f : h \in Headers, f \in Files} :
              \A h \in Headers, f \in Files : h + f <= n

Next ==
    \/ \E m \in Messages : Ask(m)
    \/ \E k \in 1..Len(todo) : read(k)
    \/ process_read
    \/ \E h \in Headers, f \in Files : ReplyError(h, f) \/ ReplyFile(h, f)
    \/ \E h \in Headers : ReplyEmptyFile(h)
    \/ write
    \/ \E n \in 1..Longest : writev(n) \/ WriteDone(n)
    \/ WriteBlocks \/ WriteFails \/ Hangup \/ init

Spec == Init /\ [][Next]_vars
-----------------------------------------------------------------------------
(* Properties.                                                             *)

VerdictRight == P!VerdictRight
NoStall == P!NoStall

\* The length of the reply.
Whole == m_write_idx + (IF code = "FILE_REQUEST" THEN st_size ELSE 0)

\* "After writing is done, back to reading" (http_conn.cpp, in write): the
\* connection goes back to EPOLLIN only when the client has the reply, in full
\* and once.  The code does not keep this: write compares with the length of the
\* header only and never moves the iovecs on.
SentInFull == [][pc = "write" /\ pc' = "wait" => wire' = Whole]_vars

\* When an exchange is over its file is not left mapped, but for hang-ups; and
\* munmap frees the file that is mapped, not more and not less, unless a hang-up
\* left the mapping behind and st_size is of a later request.
MappingLife ==
    /\ pc \in {"wait", "closed"} =>
          \A i \in DOMAIN mapped \ dropped : mapped[i] = 0
    /\ pc = "write" /\ m_file_address > 0 =>
          m_file_address \in dropped \/ st_size = mapped[m_file_address]
=============================================================================
