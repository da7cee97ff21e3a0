----------------------------- MODULE HttpParser -----------------------------
(***************************************************************************)
(* The request parser of src/http/http_conn.cpp on one connection:         *)
(* read_once appends whatever has arrived to m_read_buf, process_read      *)
(* cuts it into lines (parse_line) and runs the state machine              *)
(* CHECK_STATE_REQUESTLINE, _HEADER, _CONTENT over them.  The bytes of a   *)
(* request arrive in segments cut anywhere.  A client may pipeline: send   *)
(* the next request before it has the reply to the last one.               *)
(*                                                                         *)
(* One member of Bytes stands for one byte of the buffer.  The text of a   *)
(* line is a single one, which says what the line is; an empty line has    *)
(* none.  Indices count from 0, as in the source.                          *)
(***************************************************************************)
EXTENDS Integers, Sequences, FiniteSetsExt

Bytes == {"CR", "LF", "NUL",  \* \r, \n, \0
          "request",          \* a request line
          "garbage",          \* text that is not a request line
          "keep-alive",       \* Connection: keep-alive
          "length",           \* Content-length: CONTENT_LENGTH
          "header",           \* any other header
          "body"}             \* a byte of a body

CONSTANTS Messages,         \* the requests a client may send, as sequences
          CONTENT_LENGTH,   \* the value of every Content-length header
          READ_BUFFER_SIZE,
          Pipelining,       \* TRUE: clients may pipeline
          MaxRequests       \* bound: requests on the connection

VARIABLES asked,         \* the requests that have no reply yet, in order
          todo,          \* the bytes of them that have not arrived
          cut,           \* a segment has ended inside the first one's body
          lost,          \* init has thrown away bytes of a later request
          requests,      \* requests begun
          m_read_buf,    \* the first m_read_idx bytes of the array
          m_checked_idx, m_start_line, m_check_state, m_content_length,
          m_linger,
          line_status,   \* the local variable of process_read
          pc,            \* "wait" for EPOLLIN, "loop" in process_read, "reply"
                         \* when it has returned, "closed"
          ret            \* what it returned

parseVars == <<m_checked_idx, m_start_line, m_check_state, m_content_length,
               m_linger>>
client == <<asked, todo, cut, lost, requests>>
vars == <<client, m_read_buf, parseVars, line_status, pc, ret>>

m_read_idx == Len(m_read_buf)

Init ==
    /\ asked = <<>> /\ todo = <<>> /\ cut = FALSE /\ lost = FALSE
    /\ requests = 0
    /\ m_read_buf = <<>>
    /\ m_checked_idx = 0 /\ m_start_line = 0
    /\ m_check_state = "REQUESTLINE" /\ m_content_length = 0
    /\ m_linger = FALSE
    /\ line_status = "LINE_OK" /\ pc = "wait" /\ ret = "NO_REQUEST"
-----------------------------------------------------------------------------
\* The client sends the request m.
Ask(m) ==
    /\ asked = <<>> \/ Pipelining
    /\ pc # "closed" /\ requests < MaxRequests
    /\ asked' = Append(asked, m) /\ todo' = todo \o m
    /\ requests' = requests + 1
    /\ UNCHANGED <<cut, lost, m_read_buf, parseVars, line_status, pc, ret>>

\* k bytes leave no room in the buffer.
NoRoom(k) == m_read_idx + k >= READ_BUFFER_SIZE

\* read_once: the next k bytes.  A recv into a buffer without room returns 0,
\* which is taken for the end of the stream: main closes the connection.
read_once(k) ==
    /\ pc = "wait" /\ k <= Len(todo)
    /\ IF NoRoom(k)
       THEN /\ pc' = "closed"
            /\ UNCHANGED <<todo, cut, m_read_buf, line_status>>
       ELSE /\ m_read_buf' = m_read_buf \o SubSeq(todo, 1, k)
            /\ todo' = SubSeq(todo, k + 1, Len(todo))
            /\ cut' = (cut \/ (k < Len(todo) /\ todo[k] = "body"
                                            /\ todo[k + 1] = "body"))
            /\ pc' = "loop" /\ line_status' = "LINE_OK"
    /\ UNCHANGED <<asked, lost, requests, parseVars, ret>>

\* The byte at index i.
At(i) == m_read_buf[i + 1]

\* What parse_line finds from m_checked_idx on: the status, the new
\* m_checked_idx, and the indices it overwrites with '\0'.
Line(status, idx, nul) == [status |-> status, idx |-> idx, nul |-> nul]

\* Mutant: a carriage return at the end of the buffer is skipped.
parse_lineSkipsCR ==
    LET ends == {i \in m_checked_idx..(m_read_idx - 1) : At(i) \in {"CR", "LF"}}
        i == Min(ends)
    IN  IF ends = {} THEN Line("LINE_OPEN", m_read_idx, {})
        ELSE IF At(i) = "CR"
        THEN IF i + 1 = m_read_idx THEN Line("LINE_OPEN", i + 1, {})
             ELSE IF At(i + 1) = "LF" THEN Line("LINE_OK", i + 2, {i, i + 1})
             ELSE Line("LINE_BAD", i, {})
        ELSE Line("LINE_BAD", i, {})

parse_line ==
    LET ends == {i \in m_checked_idx..(m_read_idx - 1) : At(i) \in {"CR", "LF"}}
        i == Min(ends)
    IN  IF ends = {} THEN Line("LINE_OPEN", m_read_idx, {})
        ELSE IF At(i) = "CR"
        THEN IF i + 1 = m_read_idx THEN Line("LINE_OPEN", i, {})
             ELSE IF At(i + 1) = "LF" THEN Line("LINE_OK", i + 2, {i, i + 1})
             ELSE Line("LINE_BAD", i, {})
        ELSE IF i > 1 /\ At(i - 1) = "CR" THEN Line("LINE_OK", i + 1, {i - 1, i})
        ELSE Line("LINE_BAD", i, {})

\* The loop condition reads no line while it is in the body and all is well.
InBody == m_check_state = "CONTENT" /\ line_status = "LINE_OK"

\* The loop ends: parse_line found no complete line.  process returns
\* NO_REQUEST and re-arms EPOLLIN.
ParseStops ==
    /\ pc = "loop" /\ ~InBody /\ parse_line.status # "LINE_OK"
    /\ m_checked_idx' = parse_line.idx
    /\ line_status' = parse_line.status
    /\ pc' = "wait"
    /\ UNCHANGED <<client, m_read_buf, m_start_line, m_check_state,
                   m_content_length, m_linger, ret>>

\* parse_line found a line, and has overwritten its end.
LineFound ==
    /\ pc = "loop" /\ ~InBody /\ parse_line.status = "LINE_OK"
    /\ m_read_buf' = [j \in 1..m_read_idx |->
                         IF j - 1 \in parse_line.nul THEN "NUL"
                                                     ELSE m_read_buf[j]]
    /\ m_checked_idx' = parse_line.idx

\* Its text begins with text.
HasLine(state, text) ==
    /\ m_check_state = state
    /\ LineFound
    /\ text = m_read_buf'[m_start_line + 1]
    /\ m_start_line' = m_checked_idx'
    /\ line_status' = "LINE_OK"
    /\ UNCHANGED client

\* process_read returns code.
Returns(code) == pc' = "reply" /\ ret' = code

\* parse_request_line.
ParseRequestLine ==
    \E text \in Bytes :
        /\ HasLine("REQUESTLINE", text)
        /\ \/ /\ text = "request"
              /\ m_check_state' = "HEADER"
              /\ UNCHANGED <<pc, ret>>
           \/ /\ text # "request"
              /\ Returns("BAD_REQUEST")
              /\ UNCHANGED m_check_state
        /\ UNCHANGED <<m_content_length, m_linger>>

\* Mutant: the empty line always ends the request.
EmptyLineEnds ==
    Returns("GET_REQUEST") /\ UNCHANGED m_check_state

\* parse_headers at the empty line: the request is complete, or its body
\* follows.
EmptyLine ==
    IF m_content_length # 0
    THEN m_check_state' = "CONTENT" /\ UNCHANGED <<pc, ret>>
    ELSE Returns("GET_REQUEST") /\ UNCHANGED m_check_state

\* parse_headers.
ParseHeader ==
    \E text \in Bytes :
        /\ HasLine("HEADER", text)
        /\ m_linger' = (m_linger \/ text = "keep-alive")
        /\ m_content_length' = IF text = "length" THEN CONTENT_LENGTH
                                                  ELSE m_content_length
        /\ IF text = "NUL" THEN EmptyLine
                           ELSE UNCHANGED <<m_check_state, pc, ret>>

\* parse_content: with the whole body in the buffer the request is complete;
\* otherwise LINE_OPEN, and the loop condition calls parse_line on the body.  If
\* that finds a line, of a request behind the body, parse_content is called
\* again.
ParseContent ==
    /\ m_check_state = "CONTENT"
    /\ \/ pc = "loop" /\ InBody /\ UNCHANGED <<m_read_buf, m_checked_idx>>
       \/ LineFound
    /\ m_start_line' = m_checked_idx'
    /\ IF m_read_idx >= m_content_length + m_checked_idx'
       THEN Returns("GET_REQUEST") /\ line_status' = "LINE_OK"
       ELSE line_status' = "LINE_OPEN" /\ UNCHANGED <<pc, ret>>
    /\ UNCHANGED <<client, m_check_state, m_content_length, m_linger>>

\* http_conn::init()
init ==
    /\ m_read_buf' = <<>>
    /\ m_checked_idx' = 0 /\ m_start_line' = 0
    /\ m_check_state' = "REQUESTLINE" /\ m_content_length' = 0
    /\ m_linger' = FALSE

\* The reply is sent on a connection that is kept alive.
NextRequest ==
    /\ pc = "reply" /\ m_linger
    /\ init
    /\ asked' = Tail(asked) /\ cut' = FALSE
    /\ lost' = (lost \/ m_read_idx > Len(Head(asked)))
    /\ pc' = "wait" /\ ret' = "NO_REQUEST"
    /\ UNCHANGED <<todo, requests, line_status>>

Next ==
    \/ \E m \in Messages : Ask(m)
    \/ \E k \in 1..Len(todo) : read_once(k)
    \/ ParseStops \/ ParseRequestLine \/ ParseHeader \/ ParseContent
    \/ NextRequest

Spec == Init /\ [][Next]_vars
-----------------------------------------------------------------------------
(* Properties.                                                             *)

TypeOK ==
    /\ asked \in Seq(Messages) /\ requests \in 0..MaxRequests
    /\ cut \in BOOLEAN /\ lost \in BOOLEAN
    /\ todo \in Seq(Bytes) /\ m_read_buf \in Seq(Bytes)
    /\ m_check_state \in {"REQUESTLINE", "HEADER", "CONTENT"}
    /\ m_content_length \in {0, CONTENT_LENGTH} /\ m_linger \in BOOLEAN
    /\ line_status \in {"LINE_OK", "LINE_BAD", "LINE_OPEN"}
    /\ pc \in {"wait", "loop", "reply", "closed",
              "armed", "write"}  \* the last two in GetConn only
    /\ ret \in {"NO_REQUEST", "GET_REQUEST", "BAD_REQUEST"}
    /\ 0 <= m_start_line /\ m_start_line <= m_checked_idx
    /\ m_checked_idx <= m_read_idx /\ m_read_idx < READ_BUFFER_SIZE

\* The reference: a request has syntax errors if its first line is not a
\* request line, or if it has a carriage return or a line feed on its own.
Has(m, i, b) == i \in DOMAIN m /\ m[i] = b
Lone(m, i) == \/ m[i] = "CR" /\ ~Has(m, i + 1, "LF")
              \/ m[i] = "LF" /\ ~Has(m, i - 1, "CR")
Malformed(m) == m[1] # "request" \/ \E i \in DOMAIN m : Lone(m, i)

\* What clients send: anything that does not begin with a request line; or a
\* request line, headers and, at index e, the empty line, with a body of
\* CONTENT_LENGTH bytes if one of the headers says so and none otherwise; or
\* such a request up to a lone carriage return or line feed, at index e, and
\* anything behind it.
EmptyAt(m, i) == i > 1 /\ m[i - 1] = "LF" /\ m[i] = "CR" /\ Has(m, i + 1, "LF")
HasLength(m, n) == \E i \in 2..n : m[i - 1] = "LF" /\ m[i] = "length"
HeadEnds(m, e) ==
    /\ \A i \in 1..(e - 1) : ~Lone(m, i) /\ ~EmptyAt(m, i)
    /\ \/ Lone(m, e)
       \/ /\ EmptyAt(m, e)
          /\ Len(m) = e + 1 + (IF HasLength(m, e - 1) THEN CONTENT_LENGTH ELSE 0)
          /\ \A i \in (e + 2)..Len(m) : m[i] = "body"
Shaped(m) ==
    /\ m # <<>> /\ m[1] # "LF" /\ \A i \in DOMAIN m : m[i] # "NUL"
    /\ m[1] = "request" => \E e \in DOMAIN m : HeadEnds(m, e)

\* Whatever the segments, the parser's verdict, if it comes to one, is the one
\* the whole request deserves, and a good request is not cut short; also with
\* later requests behind it in the buffer, until init throws those away.
VerdictRight ==
    pc = "reply" /\ ~lost =>
        /\ ret = IF Malformed(Head(asked)) THEN "BAD_REQUEST" ELSE "GET_REQUEST"
        /\ ret = "GET_REQUEST" => m_read_idx >= Len(Head(asked))

\* "The request is not complete, go on reading": the parser does not ask for
\* more once it has every byte of a good request.
AllAnswered ==
    pc = "wait" /\ asked # <<>> /\ ~Malformed(Head(asked)) => todo # <<>>

\* It does not, as long as no segment ended inside the body and no byte of the
\* request was thrown away with the one before it: lines may be cut anywhere,
\* also between CR and LF, and the body may come on its own.
NoStall == cut \/ lost \/ AllAnswered
=============================================================================
