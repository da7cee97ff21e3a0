----------------------------- MODULE HttpWrite -----------------------------
(***************************************************************************)
(* The sending half of src/http/http_conn.cpp on one http_conn object:     *)
(* do_request and process_write put the reply into two iovecs, the header  *)
(* in m_write_buf and the file that is mapped at m_file_address, and write *)
(* sends them with writev, which may take any number of bytes.  The object *)
(* is reused by the next request and by the next connection.               *)
(*                                                                         *)
(* A byte is known by its address: the place it is at, and its offset      *)
(* there.  Mappings are numbered in the order in which mmap returned them. *)
(* The heap is fresh, so m_file_address is 0 in the beginning.             *)
(***************************************************************************)
EXTENDS Integers, Sequences, FiniteSets

CONSTANTS Headers,      \* lengths of m_write_buf's contents
          Files,        \* sizes of the files, none of them 0
          MaxReplies    \* bound: requests

ASSUME HttpWriteAssumption ==
    /\ Headers \subseteq Nat \ {0} /\ Files \subseteq Nat \ {0}
    /\ MaxReplies \in Nat

VARIABLES pc,              \* "idle", "armed" for EPOLLOUT, "write", "closed"
          kind,            \* what process_read returned for the request
          m_write_idx,     \* length of the header
          m_iv, m_iv_count,
          bytes_to_send, bytes_have_send,
          m_file_address,  \* number of a mapping; 0: NULL; -1: MAP_FAILED
          st_size,         \* m_file_stat.st_size
          mapped,          \* mapped[i]: bytes of mapping i that are left
          dropped,         \* replies main closed while they were waiting
          sent,            \* the addresses of the bytes sent for this reply
          splits           \* how many of its writevs ended in the header

sendVars == <<m_iv, m_iv_count, bytes_to_send, bytes_have_send>>
fileVars == <<m_file_address, st_size, mapped, dropped>>
vars == <<pc, kind, m_write_idx, sendVars, fileVars, sent, splits>>

Init ==
    /\ pc = "idle" /\ kind = "NO_REQUEST"
    /\ m_write_idx = 0
    /\ m_iv = [i \in 0..1 |-> [place |-> 0, base |-> 0, len |-> 0]]
    /\ m_iv_count = 0
    /\ bytes_to_send = 0 /\ bytes_have_send = 0
    /\ m_file_address = 0 /\ st_size = 0
    /\ mapped = <<>> /\ dropped = {}
    /\ sent = <<>> /\ splits = 0

\* Place 0 is m_write_buf, place i is mapping i, place -1 is MAP_FAILED, where
\* no memory is.
iovec(place, base, len) == [place |-> place, base |-> base, len |-> len]
Bytes(v) == [i \in 1..v.len |-> <<v.place, v.base + i - 1>>]
Pending == IF m_iv_count = 2 THEN Bytes(m_iv[0]) \o Bytes(m_iv[1])
                             ELSE Bytes(m_iv[0])

\* Mutant: init does not reset bytes_have_send.
initKeepsSent ==
    /\ m_write_idx' = 0
    /\ bytes_to_send' = 0 /\ UNCHANGED bytes_have_send

\* http_conn::init(), before the next request.  It leaves the file and the
\* iovecs as they are.
init ==
    /\ m_write_idx' = 0
    /\ bytes_to_send' = 0 /\ bytes_have_send' = 0

\* process_read returns code.
Request(code) ==
    /\ pc = "idle" /\ Len(mapped) < MaxReplies
    /\ kind' = code
    /\ sent' = <<>> /\ splits' = 0
    /\ UNCHANGED <<bytes_have_send, dropped>>
-----------------------------------------------------------------------------
(* do_request and process_write.                                           *)

\* FILE_REQUEST: stat, mmap, the header and the file in two iovecs.  Neither
\* open nor mmap is checked: when one fails the second iovec is at MAP_FAILED.
ReplyFile(h, f) ==
    /\ Request("FILE_REQUEST")
    /\ st_size' = f
    /\ \/ mapped' = Append(mapped, f) /\ m_file_address' = Len(mapped')
       \/ mapped' = Append(mapped, 0) /\ m_file_address' = -1
    /\ m_write_idx' = h
    /\ m_iv' = [m_iv EXCEPT ![0] = iovec(0, 0, h),
                            ![1] = iovec(m_file_address', 0, f)]
    /\ m_iv_count' = 2
    /\ bytes_to_send' = h + f
    /\ pc' = "armed"

\* FORBIDDEN_REQUEST, after stat, and BAD_REQUEST, before it or for a
\* directory: everything is in m_write_buf.  The request takes a number too.
ReplyError(h, f) ==
    /\ \/ Request("FORBIDDEN_REQUEST") /\ st_size' = f
       \/ Request("BAD_REQUEST") /\ st_size' \in {st_size, f}
    /\ mapped' = Append(mapped, 0)
    /\ m_write_idx' = h
    /\ m_iv' = [m_iv EXCEPT ![0] = iovec(0, 0, h)]
    /\ m_iv_count' = 1
    /\ bytes_to_send' = h
    /\ pc' = "armed"
    /\ UNCHANGED m_file_address

\* The file is missing, or empty and mmap fails: process_write returns false
\* and close_conn follows.
ReplyNothing(h) ==
    /\ \/ Request("NO_RESOURCE") /\ UNCHANGED <<m_file_address, st_size>>
       \/ Request("FILE_REQUEST") /\ m_file_address' = -1 /\ st_size' = 0
    /\ mapped' = Append(mapped, 0)
    /\ m_write_idx' = IF kind' = "NO_RESOURCE" THEN 0 ELSE h
    /\ pc' = "closed"
    /\ UNCHANGED <<m_iv, m_iv_count, bytes_to_send>>
-----------------------------------------------------------------------------
(* write, called by main for EPOLLOUT.                                     *)

Epollout ==
    /\ pc = "armed"
    /\ pc' = "write"
    /\ UNCHANGED <<kind, m_write_idx, sendVars, fileVars, sent, splits>>

\* Mutant: the file's iovec starts at the bytes sent, header included.
AdvanceNoHeader(have, todo) ==
    IF have >= m_iv[0].len
    THEN [m_iv EXCEPT ![0].len = 0,
                      ![1] = iovec(m_file_address, have, todo)]
    ELSE [m_iv EXCEPT ![0] = iovec(0, have, @.len - have)]

\* The iovecs once have bytes are sent and todo are left.  have is compared
\* with, and subtracted from, what is left of the header's iovec.
Advance(have, todo) ==
    IF have >= m_iv[0].len
    THEN [m_iv EXCEPT ![0].len = 0,
                      ![1] = iovec(m_file_address, have - m_write_idx, todo)]
    ELSE [m_iv EXCEPT ![0] = iovec(0, have, @.len - have)]

\* Mutant: the mapping stays.
unmapNever == UNCHANGED fileVars

\* munmap takes st_size bytes off the mapping.
unmap ==
    /\ mapped' = IF m_file_address > 0
                 THEN [mapped EXCEPT ![m_file_address] =
                          IF st_size < @ THEN @ - st_size ELSE 0]
                 ELSE mapped
    /\ m_file_address' = 0
    /\ UNCHANGED <<st_size, dropped>>

\* writev takes n bytes, none only if there are none and never one from
\* MAP_FAILED, and the iovecs move on.
Sends(n) ==
    /\ pc = "write"
    /\ n = 0 => Pending = <<>>
    /\ \A i \in 1..n : Pending[i][1] # -1
    /\ splits' = IF n > 0 /\ bytes_have_send + n < m_write_idx
                 THEN splits + 1 ELSE splits
    /\ sent' = sent \o SubSeq(Pending, 1, n)
    /\ m_iv' = Advance(bytes_have_send + n, bytes_to_send - n)
    /\ UNCHANGED <<kind, m_iv_count>>

Counts(n) ==
    /\ bytes_have_send' = bytes_have_send + n
    /\ bytes_to_send' = bytes_to_send - n
    /\ UNCHANGED m_write_idx

\* Not everything is sent: the loop calls writev again.
writev(n) ==
    /\ Sends(n) /\ bytes_to_send - n > 0
    /\ Counts(n)
    /\ UNCHANGED <<pc, fileVars>>

\* All is sent: unmap; then init, or main closes the connection.
WriteDone(n) ==
    /\ Sends(n) /\ bytes_to_send - n <= 0
    /\ unmap
    /\ \/ init /\ pc' = "idle"
       \/ Counts(n) /\ pc' = "closed"

\* EAGAIN: modfd(EPOLLOUT).
WriteBlocks ==
    /\ pc = "write"
    /\ pc' = "armed"
    /\ UNCHANGED <<kind, m_write_idx, sendVars, fileVars, sent, splits>>

\* Any other error: unmap, and main closes the connection.
WriteFails ==
    /\ pc = "write"
    /\ unmap
    /\ pc' = "closed"
    /\ UNCHANGED <<kind, m_write_idx, sendVars, sent, splits>>

\* The client hangs up or the timer expires: cb_func knows of no mapping.
Hangup ==
    /\ pc = "armed"
    /\ pc' = "closed"
    /\ dropped' = dropped \cup {Len(mapped)}
    /\ UNCHANGED <<kind, m_write_idx, sendVars, m_file_address, st_size,
                   mapped, sent, splits>>

\* The descriptor, and with it this object, serves the next connection.
NextConnection ==
    /\ pc = "closed"
    /\ pc' = "idle" /\ kind' = "NO_REQUEST"
    /\ init
    /\ sent' = <<>> /\ splits' = 0
    /\ UNCHANGED <<m_iv, m_iv_count, fileVars>>
-----------------------------------------------------------------------------
Next ==
    \/ \E h \in Headers, f \in Files : ReplyFile(h, f) \/ ReplyError(h, f)
    \/ \E h \in Headers : ReplyNothing(h)
    \/ Epollout
    \/ \E n \in 0..Len(Pending) : writev(n) \/ WriteDone(n)
    \/ WriteBlocks \/ WriteFails \/ Hangup \/ NextConnection

Spec == Init /\ [][Next]_vars
-----------------------------------------------------------------------------
(* Properties.                                                             *)

TypeOK ==
    /\ pc \in {"idle", "armed", "write", "closed"}
    /\ kind \in {"NO_REQUEST", "FILE_REQUEST", "FORBIDDEN_REQUEST",
                 "BAD_REQUEST", "NO_RESOURCE"}
    /\ m_write_idx \in Headers \cup {0}
    /\ m_iv \in [0..1 -> [place : -1..MaxReplies, base : Int, len : Nat]]
    /\ m_iv_count \in 0..2
    /\ bytes_to_send \in Nat /\ bytes_have_send \in Nat
    /\ m_file_address \in -1..Len(mapped)
    /\ st_size \in Files \cup {0}
    /\ mapped \in Seq(Nat) /\ Len(mapped) <= MaxReplies
    /\ dropped \subseteq DOMAIN mapped
    /\ splits \in Nat

\* The reply process_write made: the header, then the file.
Reply ==
    Bytes(iovec(0, 0, m_write_idx)) \o
    (IF kind = "FILE_REQUEST" THEN Bytes(iovec(m_file_address, 0, st_size))
                              ELSE <<>>)

\* write moves the header's iovec by all the bytes sent, not by those sent since
\* it last moved it, so a second writev that ends in the header spoils the rest.
HeaderCutTwice == splits > 1

\* However writev cuts it up, unless it cuts the header twice, what is sent and
\* what the iovecs still hold are together the reply, byte by byte: nothing is
\* lost or sent twice, no byte is from outside, and the loop in write, which
\* leaves only at an error or at the end, does not spin with nothing to send.
SendsReply ==
    ~HeaderCutTwice =>
        /\ pc \in {"armed", "write"} => sent \o Pending = Reply
        /\ pc = "write" => Pending # <<>>

\* write gives the connection back to EPOLLIN only when the whole reply is sent,
\* unless its header was cut twice.  A reply whose file is not mapped never is.
SentInFull ==
    [][pc = "write" /\ pc' = "idle" /\ ~HeaderCutTwice' => sent' = Reply]_vars

\* The file is mapped, whole, as long as bytes of it may be sent, unless mmap
\* failed, in which case no earlier mapping is sent in its place.
MappedWhileSending ==
    pc \in {"armed", "write"} /\ kind = "FILE_REQUEST" =>
        IF m_file_address = -1 THEN mapped[Len(mapped)] = 0
        ELSE /\ m_file_address = Len(mapped)
             /\ mapped[Len(mapped)] = st_size

\* When a reply is over, sent or not, its file is not left mapped, unless main
\* closed the connection while the reply was waiting.  What such a close leaves
\* behind does not spoil the mappings of later replies, which are taken to lie
\* apart in memory.
NoMappingLeft ==
    pc \in {"idle", "closed"} =>
        \A i \in DOMAIN mapped \ dropped : mapped[i] = 0

\* The mapping lives as long as write needs it, and no longer.
MappingLife == MappedWhileSending /\ NoMappingLeft
=============================================================================
