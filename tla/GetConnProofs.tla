--------------------------- MODULE GetConnProofs ---------------------------
(***************************************************************************)
(* Proofs about GetConn, for any requests, file sizes and header lengths,  *)
(* any buffer size and any number of requests.                             *)
(***************************************************************************)
EXTENDS GetConn, SequenceTheorems, WellFoundedInduction, TLAPS

(* The parser.                                                             *)

\* The bytes of the connection, from the first one of asked[1]: those in the
\* buffer and those that have not arrived.
Total == Len(m_read_buf) + Len(todo)
Stream(j) == IF j <= Len(m_read_buf) THEN m_read_buf[j]
                                    ELSE todo[j - Len(m_read_buf)]

\* They are those of the requests, one after the other: asked[i] begins behind
\* index off[i].  In the part that is checked all line ends are overwritten.
Ends == {"CR", "LF"}
Seen(b, j) == IF j <= m_checked_idx /\ b \in Ends THEN "NUL" ELSE b
Follows(off) ==
    /\ off[1] = 0 /\ off[Len(asked) + 1] = Total
    /\ \A i \in 1..Len(asked) :
          /\ off[i + 1] = off[i] + Len(asked[i]) /\ off[i + 1] <= Total
          /\ \A k \in 1..Len(asked[i]) :
                Stream(off[i] + k) = Seen(asked[i][k], off[i] + k)
Following == \E off \in [1..(Len(asked) + 1) -> Nat] : Follows(off)

\* Types of what the parser reads and keeps.
ReadTypes ==
    /\ asked \in Seq(Messages) /\ todo \in Seq(P!Bytes)
    /\ m_read_buf \in Seq(P!Bytes)
    /\ m_checked_idx \in 0..Len(m_read_buf) /\ m_start_line \in 0..m_checked_idx
    /\ m_check_state \in {"REQUESTLINE", "HEADER", "CONTENT"}
    /\ \A j \in 1..m_checked_idx : m_read_buf[j] \notin Ends

\* The end of the head of m, and the requests that are complete and correct.
HeadEnd(m) == CHOOSE e \in DOMAIN m : P!HeadEnds(m, e)
Good(m) == m[1] = "request" /\ P!EmptyAt(m, HeadEnd(m))

\* While it looks for the request line it has found no end of a line.
InRequestLine(m) ==
    m_check_state = "REQUESTLINE" =>
        /\ \A j \in 1..m_checked_idx : j <= Len(m) => m[j] \notin Ends
        /\ m[1] = "request" => m_checked_idx < HeadEnd(m)

\* In the headers: m_start_line is behind the end of a line, there is none
\* behind it, and the Content-length has been noted if there was one.
InHeaders(m) ==
    m_check_state = "HEADER" =>
        /\ m[1] = "request" /\ m_checked_idx < HeadEnd(m)
        /\ m_start_line >= 1 /\ m[m_start_line] = "LF"
        /\ \A j \in (m_start_line + 1)..m_checked_idx : m[j] \notin Ends
        /\ m_content_length = IF P!HasLength(m, m_start_line) THEN CONTENT_LENGTH
                                                             ELSE 0

\* In the body, from whose beginning m_checked_idx moves only if it was cut.
InContent(m) ==
    m_check_state = "CONTENT" =>
        /\ Good(m) /\ m_content_length = CONTENT_LENGTH
        /\ Len(m) = HeadEnd(m) + 1 + CONTENT_LENGTH
        /\ m_checked_idx >= HeadEnd(m) + 1
        /\ ~cut => m_checked_idx = HeadEnd(m) + 1
        /\ pc = "loop" /\ line_status # "LINE_OK" =>
              Len(m_read_buf) < CONTENT_LENGTH + m_checked_idx

\* The buffer does not end inside a body that was not cut, and does not hold a
\* whole good request while the parser waits for more.
Uncut(m) ==
    Good(m) /\ ~cut => /\ Len(m_read_buf) <= HeadEnd(m) + 1
                          \/ Len(m_read_buf) >= Len(m)
                       /\ pc = "wait" => Len(m_read_buf) < Len(m)

\* The state of the parser while it works on a request, and its verdict, which
\* stands while the reply is sent.
Parsing ==
    pc \in {"wait", "loop"} /\ asked # <<>> =>
        /\ InRequestLine(asked[1]) /\ InHeaders(asked[1]) /\ InContent(asked[1])
        /\ Uncut(asked[1])
Judged ==
    pc \in {"reply", "armed", "write"} =>
        \/ ret = "BAD_REQUEST" /\ asked[1][1] # "request" /\ ~m_linger
        \/ ret = "GET_REQUEST" /\ Good(asked[1]) /\ Len(m_read_buf) >= Len(asked[1])

\* Before the request line is found nothing is noted; without a request there is
\* nothing to parse.
Fresh ==
    /\ m_check_state = "REQUESTLINE" =>
          /\ m_content_length = 0 /\ ~m_linger
          /\ pc \in {"wait", "loop"} => m_start_line = 0
    /\ asked = <<>> => pc = "wait" /\ m_check_state = "REQUESTLINE"

\* The inductive invariant.
Sound == ReadTypes /\ Following /\ Parsing /\ Judged /\ Fresh
ParserInv == lost \/ pc = "closed" \/ Sound

\* An index of the second of two parts that fit into d.
LEMMA Inside ==
    \A a, b, d \in Nat : a + b <= d =>
        \A q \in 1..b : a + q \in 1..d /\ ~(a + q <= 0)
OBVIOUS

\* A set of natural numbers that is not empty has a least one.
LEMMA Least ==
    ASSUME NEW T, T \subseteq Nat, T # {}
    PROVE  \E x \in T : \A y \in T : x <= y
<1> DEFINE R == OpToRel(<, Nat)
<1>1. IsWellFoundedOn(R, Nat)
  BY NatLessThanWellFounded, Zenon
<1>2. \A x, y \in Nat : x < y => <<x, y>> \in R
  BY Zenon DEF OpToRel
<1> HIDE DEF R
<1>3. PICK x \in T : \A y \in T : ~ (<<y, x>> \in R)
  BY <1>1, WFMin, Zenon
<1>4. \A y \in T : ~(y < x)
  BY <1>2, <1>3
<1> QED
  BY <1>3, <1>4

\* The part of the buffer that is not checked has no end of a line before x; and
\* there is one, complete, at x.
NoEnds(x) ==
    /\ x \in m_checked_idx..Len(m_read_buf)
    /\ \A j \in (m_checked_idx + 1)..x : m_read_buf[j] \notin Ends
Complete(x) ==
    /\ x + 2 <= Len(m_read_buf)
    /\ m_read_buf[x + 1] = "CR" /\ m_read_buf[x + 2] = "LF"

\* parse_line finds the first end of a line, and takes it if it is complete.  The
\* branch for a line feed whose carriage return was seen before is never taken.
LEMMA ParseLine ==
    ASSUME ReadTypes
    PROVE  \E x : /\ NoEnds(x)
                  /\ \/ /\ Complete(x)
                        /\ P!parse_line = P!Line("LINE_OK", x + 2, {x, x + 1})
                     \/ /\ ~Complete(x)
                        /\ x = Len(m_read_buf) \/ m_read_buf[x + 1] \in Ends
                        /\ P!parse_line.status # "LINE_OK"
                        /\ P!parse_line.idx = x
<1> DEFINE n == Len(m_read_buf)
           ends == {i \in m_checked_idx..(P!m_read_idx - 1) :
                       P!At(i) \in {"CR", "LF"}}
<1>0. /\ m_read_buf \in Seq(P!Bytes) /\ n \in Nat /\ m_checked_idx \in 0..n
      /\ \A j \in 1..m_checked_idx : m_read_buf[j] \notin Ends
  BY DEF ReadTypes
<1>1. ends = {i \in m_checked_idx..(n - 1) : m_read_buf[i + 1] \in Ends}
  BY DEF P!m_read_idx, P!At, Ends
<1>2. CASE ends = {}
  <2>1. P!parse_line = P!Line("LINE_OPEN", n, {})
    BY <1>2 DEF P!parse_line, P!m_read_idx
  <2>2. NoEnds(n)
    <3>1. \A y \in m_checked_idx..(n - 1) : m_read_buf[y + 1] \notin Ends
      BY <1>1, <1>2
    <3>2. ASSUME NEW j \in (m_checked_idx + 1)..n PROVE m_read_buf[j] \notin Ends
      <4>1. j - 1 \in m_checked_idx..(n - 1) /\ (j - 1) + 1 = j
        BY <1>0
      <4> QED
        BY <3>1, <4>1
    <3> QED
      BY <1>0, <3>2 DEF NoEnds
  <2>3. ~Complete(n)
    BY <1>0 DEF Complete
  <2> QED
    BY <2>1, <2>2, <2>3 DEF P!Line
<1>3. CASE ends # {}
  <2>1. \E i \in ends : \A y \in ends : i <= y
    <3>1. ends \subseteq Nat
      BY <1>0, <1>1
    <3> HIDE DEF ends
    <3> QED
      BY <1>3, <3>1, Least
  <2> DEFINE i == P!Min(ends)
  <2>2. i \in ends /\ \A y \in ends : i <= y
    <3> HIDE DEF ends
    <3> QED
      BY <2>1 DEF P!Min
  <2>3. P!parse_line =
          IF P!At(i) = "CR"
          THEN IF i + 1 = P!m_read_idx THEN P!Line("LINE_OPEN", i, {})
               ELSE IF P!At(i + 1) = "LF" THEN P!Line("LINE_OK", i + 2, {i, i + 1})
               ELSE P!Line("LINE_BAD", i, {})
          ELSE IF i > 1 /\ P!At(i - 1) = "CR"
               THEN P!Line("LINE_OK", i + 1, {i - 1, i})
          ELSE P!Line("LINE_BAD", i, {})
    BY <1>3 DEF P!parse_line
  <2> HIDE DEF i
  <2>4. /\ i \in m_checked_idx..(n - 1) /\ m_read_buf[i + 1] \in Ends
        /\ \A y \in m_checked_idx..(n - 1) : m_read_buf[y + 1] \in Ends => i <= y
    BY <1>1, <2>2
  <2> HIDE DEF ends
  <2>5. i \in Nat /\ i + 1 <= n /\ m_checked_idx <= i
    BY <1>0, <2>4
  <2>6. \A j \in 1..i : m_read_buf[j] \notin Ends
    <3> SUFFICES ASSUME NEW j \in 1..i PROVE m_read_buf[j] \notin Ends
      OBVIOUS
    <3>1. CASE j <= m_checked_idx
      BY <1>0, <2>5, <3>1
    <3>2. CASE j > m_checked_idx
      <4>1. j - 1 \in m_checked_idx..(n - 1) /\ (j - 1) + 1 = j /\ ~(i <= j - 1)
        BY <1>0, <2>5, <3>2
      <4> QED
        BY <2>4, <4>1
    <3> QED
      BY <1>0, <2>5, <3>1, <3>2
  <2>7. NoEnds(i)
    BY <1>0, <2>5, <2>6 DEF NoEnds
  <2>8. /\ P!At(i) = m_read_buf[i + 1] /\ P!At(i + 1) = m_read_buf[i + 2]
        /\ i > 1 => P!At(i - 1) # "CR"
    <3>1. P!At(i) = m_read_buf[i + 1] /\ P!At(i + 1) = m_read_buf[i + 2]
      BY <2>5 DEF P!At
    <3>2. i > 1 => P!At(i - 1) # "CR"
      BY <2>5, <2>6 DEF P!At, Ends
    <3> QED
      BY <3>1, <3>2
  <2>9. CASE m_read_buf[i + 1] = "CR"
    <3>1. CASE i + 1 = n
      <4>1. P!parse_line = P!Line("LINE_OPEN", i, {})
        BY <2>3, <2>8, <2>9, <3>1 DEF P!m_read_idx
      <4>2. ~Complete(i)
        BY <1>0, <2>5, <3>1 DEF Complete
      <4> QED
        BY <2>4, <2>7, <4>1, <4>2 DEF P!Line
    <3>2. CASE i + 1 # n
      <4>1. i + 2 <= n /\ i + 1 # P!m_read_idx
        BY <1>0, <2>5, <3>2 DEF P!m_read_idx
      <4>2. CASE m_read_buf[i + 2] = "LF"
        <5>1. P!parse_line = P!Line("LINE_OK", i + 2, {i, i + 1})
          BY <2>3, <2>8, <2>9, <4>1, <4>2
        <5>2. Complete(i)
          BY <2>9, <4>1, <4>2 DEF Complete
        <5> QED
          BY <2>7, <5>1, <5>2
      <4>3. CASE m_read_buf[i + 2] # "LF"
        <5>1. P!parse_line = P!Line("LINE_BAD", i, {})
          BY <2>3, <2>8, <2>9, <4>1, <4>3
        <5>2. ~Complete(i)
          BY <4>3 DEF Complete
        <5> QED
          BY <2>4, <2>7, <5>1, <5>2 DEF P!Line
      <4> QED
        BY <4>2, <4>3
    <3> QED
      BY <3>1, <3>2
  <2>10. CASE m_read_buf[i + 1] # "CR"
    BY <2>3, <2>4, <2>7, <2>8, <2>10 DEF Complete, P!Line
  <2> QED
    BY <2>9, <2>10
<1> QED
  BY <1>2, <1>3

\* What is known of every request.
LEMMA ShapeOf ==
    ASSUME NEW m \in Messages
    PROVE  /\ m \in Seq(P!Bytes) /\ Len(m) \in Nat \ {0} /\ m[1] # "LF"
           /\ \A k \in 1..Len(m) : m[k] \in P!Bytes /\ m[k] # "NUL"
           /\ m[1] = "request" =>
                HeadEnd(m) \in 1..Len(m) /\ P!HeadEnds(m, HeadEnd(m))
<1>1. P!Shaped(m) /\ m \in Seq(P!Bytes)
  BY ShapedAssumption, GetConnAssumption
<1>2. m # <<>> /\ m[1] # "LF" /\ \A k \in DOMAIN m : m[k] # "NUL"
  BY <1>1 DEF P!Shaped
<1>3. Len(m) \in Nat \ {0} /\ DOMAIN m = 1..Len(m)
  BY <1>1, <1>2, EmptySeq
<1>4. ASSUME m[1] = "request"
      PROVE  HeadEnd(m) \in 1..Len(m) /\ P!HeadEnds(m, HeadEnd(m))
  <2>1. \E e \in DOMAIN m : P!HeadEnds(m, e)
    BY <1>1, <1>4 DEF P!Shaped
  <2> QED
    BY <1>3, <2>1, Zenon DEF HeadEnd
<1> QED
  BY <1>1, <1>2, <1>3, <1>4

\* A request has syntax errors unless it is good.
LEMMA GoodOrMalformed ==
    ASSUME NEW m \in Messages
    PROVE  P!Malformed(m) <=> ~Good(m)
<1> DEFINE e == HeadEnd(m)
<1>0. Len(m) \in Nat \ {0} /\ DOMAIN m = 1..Len(m) /\ m[1] # "LF"
  BY ShapeOf
<1>1. ASSUME m[1] # "request" PROVE P!Malformed(m) /\ ~Good(m)
  BY <1>1 DEF P!Malformed, Good
<1>2. ASSUME m[1] = "request", P!EmptyAt(m, e) PROVE ~P!Malformed(m)
  <2>1. e \in 1..Len(m) /\ P!HeadEnds(m, e)
    BY <1>2, ShapeOf
  <2> HIDE DEF e
  <2>2. /\ e > 1 /\ m[e - 1] = "LF" /\ m[e] = "CR" /\ e + 1 \in DOMAIN m
        /\ m[e + 1] = "LF"
    BY <1>2 DEF P!EmptyAt, P!Has
  <2>3. ~P!Lone(m, e)
    BY <2>2 DEF P!Lone, P!Has
  <2>4. ~P!Lone(m, e + 1)
    <3>1. (e + 1) - 1 = e /\ e \in DOMAIN m
      BY <1>0, <2>1
    <3> QED
      BY <2>2, <3>1 DEF P!Lone, P!Has
  <2>5. \A i \in 1..(e - 1) : ~P!Lone(m, i)
    BY <2>1 DEF P!HeadEnds
  <2>6. \A i \in (e + 2)..Len(m) : ~P!Lone(m, i)
    <3>1. \A i \in (e + 2)..Len(m) : m[i] = "body"
      BY <2>1, <2>3 DEF P!HeadEnds
    <3> QED
      BY <3>1 DEF P!Lone
  <2>7. \A i \in 1..Len(m) : \/ i \in 1..(e - 1) \/ i = e \/ i = e + 1
                             \/ i \in (e + 2)..Len(m)
    BY <1>0, <2>1
  <2> QED
    BY <1>0, <1>2, <2>3, <2>4, <2>5, <2>6, <2>7 DEF P!Malformed
<1>3. ASSUME m[1] = "request", ~P!EmptyAt(m, e) PROVE P!Malformed(m)
  BY <1>0, <1>3, ShapeOf DEF P!Malformed, P!HeadEnds
<1> QED
  BY <1>1, <1>2, <1>3 DEF Good

\* The length of a good request.
LEMMA GoodLength ==
    ASSUME NEW m \in Messages, Good(m)
    PROVE  /\ m[1] = "request" /\ HeadEnd(m) \in 2..(Len(m) - 1)
           /\ m[HeadEnd(m)] = "CR" /\ m[HeadEnd(m) + 1] = "LF"
           /\ m[HeadEnd(m) - 1] = "LF"
           /\ Len(m) = HeadEnd(m) + 1 +
                (IF P!HasLength(m, HeadEnd(m) - 1) THEN CONTENT_LENGTH ELSE 0)
           /\ \A i \in (HeadEnd(m) + 2)..Len(m) : m[i] = "body"
<1> DEFINE e == HeadEnd(m)
<1>1. /\ m[1] = "request" /\ P!EmptyAt(m, e) /\ e \in 1..Len(m)
      /\ P!HeadEnds(m, e) /\ Len(m) \in Nat /\ DOMAIN m = 1..Len(m)
  BY ShapeOf DEF Good
<1> HIDE DEF e
<1>2. ~P!Lone(m, e)
  BY <1>1 DEF P!EmptyAt, P!Lone
<1>3. /\ e > 1 /\ m[e - 1] = "LF" /\ m[e] = "CR" /\ e + 1 \in 1..Len(m)
      /\ m[e + 1] = "LF"
  BY <1>1 DEF P!EmptyAt, P!Has
<1>4. /\ Len(m) = e + 1 + (IF P!HasLength(m, e - 1) THEN CONTENT_LENGTH ELSE 0)
      /\ \A i \in (e + 2)..Len(m) : m[i] = "body"
  BY <1>1, <1>2 DEF P!HeadEnds
<1>5. e \in 2..(Len(m) - 1)
  BY <1>1, <1>3
<1> QED
  BY <1>1, <1>3, <1>4, <1>5 DEF e

\* The buffer holds a prefix of m, or m and more; what is behind m does not begin
\* with a line feed.
Holds(m) ==
    /\ \A k \in 1..Len(m_read_buf) :
          k <= Len(m) => m_read_buf[k] = Seen(m[k], k)
    /\ Len(m) < Len(m_read_buf) /\ m_checked_idx <= Len(m) =>
          m_read_buf[Len(m) + 1] # "LF"

\* The end of a line that parse_line finds in the head of m, from the line that
\* begins behind s: if it is complete it ends a line of the head or is the empty
\* line; if it is not, and m is good, its line feed has not arrived.
LEMMA EndInHead ==
    ASSUME ReadTypes, NEW m \in Messages, m[1] = "request", Holds(m),
           m_checked_idx < HeadEnd(m),
           NEW s \in 0..m_checked_idx, s >= 1 => m[s] = "LF",
           \A j \in (s + 1)..m_checked_idx : m[j] \notin Ends,
           NEW x, NoEnds(x)
    PROVE  /\ x \in Nat /\ x < HeadEnd(m)
           /\ \A j \in (s + 1)..x : m[j] \notin Ends
           /\ Complete(x) =>
                \/ /\ x + 2 < HeadEnd(m) /\ m[x + 1] = "CR" /\ m[x + 2] = "LF"
                   /\ s < x
                \/ x + 1 = HeadEnd(m) /\ Good(m) /\ x = s /\ s >= 1
           /\ Good(m) /\ ~Complete(x)
              /\ (x = Len(m_read_buf) \/ m_read_buf[x + 1] \in Ends) =>
                Len(m_read_buf) < Len(m)
<1> DEFINE e == HeadEnd(m)
           n == Len(m_read_buf)
           c == m_checked_idx
<1>0. /\ n \in Nat /\ c \in 0..n /\ Len(m) \in Nat \ {0} /\ m[1] # "LF"
      /\ e \in 1..Len(m) /\ P!HeadEnds(m, e) /\ c < e /\ x \in c..n
      /\ DOMAIN m = 1..Len(m)
  BY ShapeOf DEF ReadTypes, NoEnds
<1>1. \A k \in 1..n : k > c /\ k <= Len(m) => m_read_buf[k] = m[k]
  BY <1>0 DEF Holds, Seen
<1>2. P!Lone(m, e) \/ P!EmptyAt(m, e)
  BY <1>0 DEF P!HeadEnds
<1>3. m[e] \in Ends
  BY <1>2 DEF P!Lone, P!EmptyAt, Ends
<1>4. x < e
  <2> SUFFICES ASSUME x >= e PROVE FALSE
    BY <1>0
  <2>1. e \in (c + 1)..x /\ e \in 1..n /\ e > c /\ e <= Len(m)
    BY <1>0
  <2>2. m_read_buf[e] = m[e]
    BY <1>1, <2>1
  <2>3. m_read_buf[e] \notin Ends
    BY <2>1 DEF NoEnds
  <2> QED
    BY <1>3, <2>2, <2>3
<1>5. \A j \in (s + 1)..x : m[j] \notin Ends
  <2> SUFFICES ASSUME NEW j \in (s + 1)..x PROVE m[j] \notin Ends
    OBVIOUS
  <2>1. CASE j <= c
    BY <1>0, <2>1
  <2>2. CASE j > c
    <3>1. j \in (c + 1)..x /\ j \in 1..n /\ j <= Len(m)
      BY <1>0, <1>4, <2>2
    <3> QED
      BY <1>1, <2>2, <3>1 DEF NoEnds
  <2> QED
    BY <1>0, <2>1, <2>2
<1>6. ASSUME x + 1 <= n PROVE m_read_buf[x + 1] = m[x + 1]
  BY <1>0, <1>1, <1>4, <1>6
<1>7. ASSUME x + 2 <= n, x + 2 <= Len(m) PROVE m_read_buf[x + 2] = m[x + 2]
  BY <1>0, <1>1, <1>7
<1>8. \A i \in 1..(e - 1) : ~P!Lone(m, i) /\ ~P!EmptyAt(m, i)
  BY <1>0 DEF P!HeadEnds
<1>9. ASSUME x + 1 < e, m[x + 1] = "CR"
      PROVE  x + 2 < e /\ m[x + 2] = "LF" /\ s < x
  <2>1. x + 1 \in 1..(e - 1) /\ (x + 1) + 1 = x + 2 /\ (x + 1) - 1 = x
    BY <1>0, <1>9
  <2>2. ~P!Lone(m, x + 1) /\ ~P!EmptyAt(m, x + 1)
    BY <1>8, <2>1
  <2>3. x + 2 \in DOMAIN m /\ m[x + 2] = "LF"
    BY <1>9, <2>1, <2>2 DEF P!Lone, P!Has
  <2>4. e # x + 2
    <3> SUFFICES ASSUME e = x + 2 PROVE FALSE
      OBVIOUS
    <3>1. m[e] = "LF" /\ e - 1 = x + 1 /\ m[e - 1] = "CR" /\ e - 1 \in DOMAIN m
      BY <1>0, <1>9, <2>3
    <3> QED
      BY <1>2, <3>1 DEF P!Lone, P!EmptyAt, P!Has
  <2>5. s # x
    <3> SUFFICES ASSUME s = x PROVE FALSE
      OBVIOUS
    <3>1. s >= 1 => P!EmptyAt(m, x + 1)
      <4> SUFFICES ASSUME s >= 1 PROVE P!EmptyAt(m, x + 1)
        OBVIOUS
      <4>1. x + 1 > 1 /\ m[(x + 1) - 1] = "LF"
        BY <1>0, <2>1
      <4> QED
        BY <1>9, <2>1, <2>3, <4>1 DEF P!EmptyAt, P!Has
    <3>2. s = 0
      BY <1>0, <2>2, <3>1
    <3>3. m[1] = "CR"
      BY <1>9, <3>2
    <3> QED
      BY <3>3
  <2> QED
    BY <1>0, <1>9, <2>3, <2>4, <2>5
<1>10. ASSUME x + 1 = e, m[e] = "CR", P!EmptyAt(m, e) PROVE x = s /\ s >= 1
  <2>1. e > 1 /\ m[e - 1] = "LF" /\ e - 1 = x
    BY <1>0, <1>10 DEF P!EmptyAt
  <2>2. m[x] \in Ends /\ x >= 1
    BY <1>0, <2>1 DEF Ends
  <2> QED
    BY <1>0, <1>5, <2>2
<1>11. ASSUME Complete(x)
       PROVE  \/ x + 2 < e /\ m[x + 1] = "CR" /\ m[x + 2] = "LF" /\ s < x
              \/ x + 1 = e /\ Good(m) /\ x = s /\ s >= 1
  <2>1. /\ x + 2 <= n /\ m_read_buf[x + 1] = "CR" /\ m_read_buf[x + 2] = "LF"
        /\ x + 1 <= n
    BY <1>0, <1>11 DEF Complete
  <2>2. m[x + 1] = "CR"
    BY <1>6, <2>1
  <2>3. CASE x + 1 < e
    BY <1>9, <2>2, <2>3
  <2>4. CASE x + 1 = e
    <3>1. x + 2 <= Len(m)
      <4> SUFFICES ASSUME x + 2 > Len(m) PROVE FALSE
        BY <1>0
      <4>0. x \in Int /\ n \in Int /\ c \in Int /\ Len(m) \in Int /\ c <= x
            /\ x + 1 <= Len(m)
        BY <1>0, <2>4
      <4>1. Len(m) = x + 1 /\ Len(m) < n /\ c <= Len(m) /\ Len(m) + 1 = x + 2
        BY <2>1, <4>0
      <4> QED
        BY <2>1, <4>1 DEF Holds
    <3>2. m[x + 2] = "LF" /\ x + 2 = e + 1 /\ e + 1 \in DOMAIN m
      BY <1>0, <1>7, <2>1, <2>4, <3>1
    <3>3. ~P!Lone(m, e)
      BY <2>2, <2>4, <3>2 DEF P!Lone, P!Has
    <3>4. P!EmptyAt(m, e)
      BY <1>2, <3>3
    <3> QED
      BY <1>10, <2>2, <2>4, <3>4 DEF Good
  <2> QED
    BY <1>0, <1>4, <2>3, <2>4
<1>12. ASSUME Good(m), ~Complete(x), x = n \/ m_read_buf[x + 1] \in Ends
       PROVE  n < Len(m)
  <2>0. P!EmptyAt(m, e) /\ e + 1 <= Len(m)
    BY <1>0, <1>12 DEF Good, P!EmptyAt, P!Has
  <2>1. CASE x = n
    BY <1>0, <1>4, <2>1
  <2>2. CASE x # n
    <3>1. x + 1 <= n /\ m[x + 1] \in Ends /\ x + 1 <= e
      BY <1>0, <1>4, <1>6, <1>12, <2>2
    <3>2. m[x + 1] # "LF"
      <4> SUFFICES ASSUME m[x + 1] = "LF" PROVE FALSE
        OBVIOUS
      <4>1. x + 1 # e
        BY <2>0 DEF P!EmptyAt
      <4>2. x + 1 \in 1..(e - 1) /\ (x + 1) - 1 = x
        BY <1>0, <3>1, <4>1
      <4>3. x \in DOMAIN m /\ m[x] = "CR"
        BY <1>8, <4>2 DEF P!Lone, P!Has
      <4>4. x >= 1 /\ x = s
        BY <1>0, <1>5, <4>3 DEF Ends
      <4> QED
        BY <4>3, <4>4
    <3>3. m[x + 1] = "CR"
      BY <3>1, <3>2 DEF Ends
    <3>4. m[x + 2] = "LF" /\ x + 2 <= Len(m)
      <4>1. CASE x + 1 < e
        BY <1>0, <1>9, <3>3, <4>1
      <4>2. CASE x + 1 = e
        <5>1. m[e + 1] = "LF"
          BY <2>0 DEF P!EmptyAt, P!Has
        <5>2. x + 2 = e + 1
          BY <1>0, <4>2
        <5> QED
          BY <2>0, <5>1, <5>2
      <4> QED
        BY <1>0, <3>1, <4>1, <4>2
    <3>5. x + 2 > n
      <4> SUFFICES ASSUME x + 2 <= n PROVE FALSE
        BY <1>0
      <4>1. m_read_buf[x + 2] = "LF" /\ m_read_buf[x + 1] = "CR"
        BY <1>6, <1>7, <3>1, <3>3, <3>4
      <4> QED
        BY <1>12, <4>1 DEF Complete
    <3> QED
      BY <1>0, <3>4, <3>5
  <2> QED
    BY <2>1, <2>2
<1> HIDE DEF e, n, c
<1>13. x \in Nat
  BY <1>0
<1> QED
  BY <1>4, <1>5, <1>11, <1>12, <1>13 DEF e, n

\* The buffer begins with the first request.
LEMMA HeadHeld ==
    ASSUME ReadTypes, Following, asked # <<>>
    PROVE  /\ asked[1] \in Messages /\ Head(asked) = asked[1]
           /\ Len(asked) \in Nat \ {0}
           /\ Len(asked[1]) <= Total
           /\ \A k \in 1..Len(asked[1]) : Stream(k) = Seen(asked[1][k], k)
           /\ Holds(asked[1])
<1> DEFINE m == asked[1]
           n == Len(m_read_buf)
<1>1. /\ asked \in Seq(Messages) /\ Len(asked) \in Nat \ {0}
      /\ n \in Nat /\ Len(todo) \in Nat /\ m_checked_idx \in 0..n
  BY EmptySeq DEF ReadTypes
<1>2. m \in Messages /\ Head(asked) = m
  BY <1>1
<1>3. Len(m) \in Nat \ {0} /\ \A k \in 1..Len(m) : m[k] # "NUL"
  BY <1>2, ShapeOf
<1>4. PICK off \in [1..(Len(asked) + 1) -> Nat] : Follows(off)
  BY DEF Following
<1>5. /\ off[1] = 0 /\ off[2] = Len(m) /\ off[2] <= Total
      /\ \A k \in 1..Len(m) : Stream(off[1] + k) = Seen(m[k], off[1] + k)
  <2>1. 1 \in 1..Len(asked) /\ 1 + 1 = 2 /\ off[1] = 0
    BY <1>1, <1>4 DEF Follows
  <2>2. /\ off[2] = off[1] + Len(m) /\ off[2] <= Total
        /\ \A k \in 1..Len(m) : Stream(off[1] + k) = Seen(m[k], off[1] + k)
    BY <1>4, <2>1 DEF Follows
  <2> QED
    BY <1>3, <2>1, <2>2
<1>6. \A k \in 1..Len(m) : Stream(k) = Seen(m[k], k)
  BY <1>5
<1>7. \A k \in 1..n : k <= Len(m) => m_read_buf[k] = Seen(m[k], k)
  BY <1>1, <1>3, <1>6 DEF Stream
<1>8. ASSUME Len(m) < n, m_checked_idx <= Len(m) PROVE m_read_buf[Len(m) + 1] # "LF"
  <2>1. Len(asked) >= 2
    <3>1. ASSUME Len(asked) = 1 PROVE FALSE
      <4>1. off[1 + 1] = Total
        BY <1>4, <3>1 DEF Follows
      <4>2. Len(m) = Len(m_read_buf) + Len(todo)
        BY <1>5, <4>1 DEF Total
      <4> QED
        BY <1>1, <1>3, <1>8, <4>2
    <3>2. \A l \in Nat : l # 0 /\ l # 1 => l >= 2
      OBVIOUS
    <3>3. Len(asked) \in Nat /\ Len(asked) # 0 /\ Len(asked) # 1
      BY <1>1, <3>1
    <3> QED
      BY <3>2, <3>3, Zenon
  <2>2. asked[2] \in Messages /\ 2 \in 1..Len(asked)
    BY <1>1, <2>1
  <2>3. Len(asked[2]) \in Nat \ {0} /\ asked[2][1] # "LF"
    BY <2>2, ShapeOf
  <2>4. Stream(off[2] + 1) = Seen(asked[2][1], off[2] + 1)
    BY <1>4, <2>2, <2>3 DEF Follows
  <2>5. Seen(asked[2][1], Len(m) + 1) = asked[2][1]
    BY <1>1, <1>3, <1>8 DEF Seen
  <2>6. Stream(Len(m) + 1) = m_read_buf[Len(m) + 1]
    BY <1>1, <1>3, <1>8 DEF Stream
  <2> QED
    BY <1>5, <2>3, <2>4, <2>5, <2>6
<1>9. Holds(m)
  BY <1>7, <1>8 DEF Holds
<1> QED
  BY <1>1, <1>2, <1>5, <1>6, <1>9

\* The stream stays the one of the requests when line ends are overwritten in the
\* part that has been checked.
LEMMA FollowsOn ==
    ASSUME ReadTypes, Following, asked' = asked, Total' = Total,
           m_checked_idx' \in Nat, m_checked_idx <= m_checked_idx',
           \A j \in 1..Total : Stream(j)' = IF j <= m_checked_idx' /\ Stream(j) \in Ends
                                            THEN "NUL" ELSE Stream(j)
    PROVE  Following'
<1>1. PICK off \in [1..(Len(asked) + 1) -> Nat] : Follows(off)
  BY DEF Following
<1>2. /\ asked \in Seq(Messages) /\ Len(asked) \in Nat
      /\ m_checked_idx \in Nat
  BY DEF ReadTypes
<1>3. ASSUME NEW i \in 1..Len(asked), NEW k \in 1..Len(asked[i])
      PROVE  Stream(off[i] + k)' = Seen(asked[i][k], off[i] + k)'
  <2> DEFINE j == off[i] + k
             b == asked[i][k]
  <2>1. asked[i] \in Messages
    BY <1>2
  <2>2. Len(asked[i]) \in Nat /\ b # "NUL"
    BY <2>1, ShapeOf
  <2>3. /\ off[i + 1] = off[i] + Len(asked[i]) /\ off[i + 1] <= Total
        /\ off[i] \in Nat /\ Total \in Nat
    <3>1. i \in 1..(Len(asked) + 1)
      BY <1>2
    <3>2. off[i] \in Nat
      BY <1>1, <3>1
    <3>3. Total \in Nat
      BY DEF Total, ReadTypes
    <3> QED
      BY <1>1, <3>2, <3>3 DEF Follows
  <2>4. j \in 1..Total
    <3>1. off[i] + Len(asked[i]) <= Total /\ k \in 1..Len(asked[i])
      BY <2>3
    <3> QED
      BY <2>2, <2>3, <3>1
  <2>5. Stream(j) = Seen(b, j)
    BY <1>1 DEF Follows
  <2>6. j \in Nat
    BY <2>4
  <2> HIDE DEF j, b
  <2>7. Stream(j)' = IF j <= m_checked_idx' /\ Stream(j) \in Ends
                     THEN "NUL" ELSE Stream(j)
    BY <2>4
  <2>8. (IF j <= m_checked_idx' /\ Stream(j) \in Ends THEN "NUL" ELSE Stream(j))
         = IF j <= m_checked_idx' /\ b \in Ends THEN "NUL" ELSE b
    BY <1>2, <2>5, <2>6 DEF Seen, Ends
  <2>9. Seen(b, j)' = IF j <= m_checked_idx' /\ b' \in Ends THEN "NUL" ELSE b'
    BY DEF Seen, Ends, j
  <2>10. b' = b
    BY DEF b
  <2> QED
    BY <2>7, <2>8, <2>9, <2>10 DEF j, b
<1>4. Follows(off)'
  BY <1>1, <1>3 DEF Follows
<1> QED
  BY <1>1, <1>4 DEF Following

\* A line that is found.
LEMMA LineTaken ==
    ASSUME ReadTypes, P!LineFound, UNCHANGED P!client
    PROVE  \E x : /\ NoEnds(x) /\ Complete(x) /\ m_checked_idx' = x + 2
                  /\ m_read_buf' \in Seq(P!Bytes)
                  /\ Len(m_read_buf') = Len(m_read_buf)
                  /\ \A j \in 1..Len(m_read_buf) :
                        m_read_buf'[j] = IF j \in {x + 1, x + 2} THEN "NUL"
                                                                ELSE m_read_buf[j]
                  /\ \A j \in 1..(x + 2) : m_read_buf'[j] \notin Ends
                  /\ Following => Following'
<1>1. PICK x : /\ NoEnds(x) /\ Complete(x)
               /\ P!parse_line = P!Line("LINE_OK", x + 2, {x, x + 1})
  BY ParseLine DEF P!LineFound
<1> DEFINE n == Len(m_read_buf)
<1>2. /\ m_checked_idx' = x + 2
      /\ m_read_buf' = [j \in 1..n |-> IF j - 1 \in {x, x + 1} THEN "NUL"
                                                             ELSE m_read_buf[j]]
  BY <1>1 DEF P!LineFound, P!Line, P!m_read_idx
<1>3. /\ n \in Nat /\ x \in m_checked_idx..n /\ x + 2 <= n /\ m_checked_idx \in 0..n
      /\ m_read_buf \in Seq(P!Bytes) /\ x \in Nat
      /\ \A j \in 1..m_checked_idx : m_read_buf[j] \notin Ends
      /\ \A j \in (m_checked_idx + 1)..x : m_read_buf[j] \notin Ends
  BY <1>1 DEF ReadTypes, NoEnds, Complete
<1>4. \A j \in 1..n : m_read_buf'[j] = IF j \in {x + 1, x + 2} THEN "NUL"
                                                              ELSE m_read_buf[j]
  <2>1. \A j \in 1..n : j - 1 \in {x, x + 1} <=> j \in {x + 1, x + 2}
    BY <1>3
  <2> QED
    BY <1>2, <2>1
<1>5. m_read_buf' \in Seq(P!Bytes) /\ Len(m_read_buf') = n
  <2>1. \A j \in 1..n : m_read_buf[j] \in P!Bytes
    BY <1>3
  <2>2. "NUL" \in P!Bytes
    BY DEF P!Bytes
  <2>3. m_read_buf' \in [1..n -> P!Bytes]
    BY <1>2, <2>1, <2>2
  <2> QED
    BY <1>3, <2>3
<1>6. \A j \in 1..(x + 2) : m_read_buf'[j] \notin Ends
  <2> SUFFICES ASSUME NEW j \in 1..(x + 2) PROVE m_read_buf'[j] \notin Ends
    OBVIOUS
  <2>1. j \in 1..n
    BY <1>3
  <2>2. CASE j \in {x + 1, x + 2}
    BY <1>4, <2>1, <2>2 DEF Ends
  <2>3. CASE j \notin {x + 1, x + 2}
    <3>1. j \in 1..m_checked_idx \/ j \in (m_checked_idx + 1)..x
      BY <1>3, <2>3
    <3> QED
      BY <1>3, <1>4, <2>1, <2>3, <3>1
  <2> QED
    BY <2>2, <2>3
<1>7. ASSUME Following PROVE Following'
  <2>1. asked' = asked /\ todo' = todo
    BY DEF P!client
  <2>2. Total' = Total /\ Len(todo) \in Nat
    BY <1>5, <2>1 DEF Total, ReadTypes
  <2>3. ASSUME NEW j \in 1..Total
        PROVE  Stream(j)' = IF j <= m_checked_idx' /\ Stream(j) \in Ends
                            THEN "NUL" ELSE Stream(j)
    <3>1. CASE j > n
      <4>1. Stream(j) = todo[j - n] /\ Stream(j)' = todo[j - n]
        BY <1>3, <1>5, <2>1, <2>3, <3>1 DEF Stream
      <4>2. ~(j <= m_checked_idx')
        BY <1>2, <1>3, <3>1
      <4> QED
        BY <4>1, <4>2
    <3>2. CASE j <= n
      <4>1. j \in 1..n /\ Stream(j) = m_read_buf[j] /\ Stream(j)' = m_read_buf'[j]
        BY <1>3, <1>5, <2>3, <3>2 DEF Stream
      <4>2. CASE j \in {x + 1, x + 2}
        <5>1. m_read_buf[j] \in Ends /\ j <= m_checked_idx'
          BY <1>1, <1>2, <1>3, <4>2 DEF Complete, Ends
        <5> QED
          BY <1>4, <4>1, <4>2, <5>1
      <4>3. CASE j \notin {x + 1, x + 2}
        <5>1. j <= m_checked_idx' => m_read_buf[j] \notin Ends
          <6>1. j <= m_checked_idx' => j \in 1..(x + 2)
            BY <1>2, <1>3, <4>1
          <6> QED
            BY <1>4, <1>6, <4>1, <4>3, <6>1
        <5> QED
          BY <1>4, <4>1, <4>3, <5>1
      <4> QED
        BY <4>2, <4>3
    <3> QED
      BY <1>3, <2>2, <2>3, <3>1, <3>2
  <2>4. m_checked_idx' \in Nat /\ m_checked_idx <= m_checked_idx'
    BY <1>2, <1>3
  <2> QED
    BY <1>7, <2>1, <2>2, <2>3, <2>4, FollowsOn
<1> QED
  BY <1>1, <1>2, <1>4, <1>5, <1>6, <1>7

\* No line is found: m_checked_idx moves up to the end of the line that may have
\* begun.
LEMMA LineNotTaken ==
    ASSUME ReadTypes, P!ParseStops
    PROVE  \E x : /\ NoEnds(x) /\ ~Complete(x) /\ m_checked_idx' = x
                  /\ x = Len(m_read_buf) \/ m_read_buf[x + 1] \in Ends
                  /\ ReadTypes'
                  /\ Following => Following'
<1>1. PICK x : /\ NoEnds(x) /\ ~Complete(x) /\ P!parse_line.idx = x
               /\ x = Len(m_read_buf) \/ m_read_buf[x + 1] \in Ends
  BY ParseLine DEF P!ParseStops, P!Line
<1>2. /\ m_checked_idx' = x /\ UNCHANGED <<m_read_buf, asked, todo>>
      /\ UNCHANGED <<m_start_line, m_check_state>>
  BY <1>1 DEF P!ParseStops, P!client
<1> DEFINE n == Len(m_read_buf)
<1>3. /\ n \in Nat /\ x \in m_checked_idx..n /\ m_checked_idx \in 0..n
      /\ m_start_line \in 0..m_checked_idx /\ x \in Nat /\ Len(todo) \in Nat
      /\ \A j \in 1..m_checked_idx : m_read_buf[j] \notin Ends
      /\ \A j \in (m_checked_idx + 1)..x : m_read_buf[j] \notin Ends
  BY <1>1 DEF ReadTypes, NoEnds
<1>4. \A j \in 1..x : m_read_buf[j] \notin Ends
  <2>1. \A j \in 1..x : j \in 1..m_checked_idx \/ j \in (m_checked_idx + 1)..x
    BY <1>3
  <2> QED
    BY <1>3, <2>1
<1>5. ReadTypes'
  <2>1. x \in 0..n /\ m_start_line \in 0..x
    BY <1>3
  <2> QED
    BY <1>2, <1>4, <2>1 DEF ReadTypes
<1>6. ASSUME Following PROVE Following'
  <2>1. \A j \in 1..Total : Stream(j)' = Stream(j)
    BY <1>2 DEF Stream
  <2>2. \A j \in 1..Total : j <= m_checked_idx' => Stream(j) \notin Ends
    BY <1>2, <1>3, <1>4 DEF Stream, Total
  <2>3. Total' = Total
    BY <1>2 DEF Total
  <2> QED
    BY <1>2, <1>3, <1>6, <2>1, <2>2, <2>3, FollowsOn
<1> QED
  BY <1>1, <1>2, <1>5, <1>6

\* Before any byte has arrived the parser is ready for a request.
LEMMA Ready ==
    ASSUME NEW m \in Messages, m_read_buf' = <<>>, m_checked_idx' = 0,
           m_check_state' = "REQUESTLINE"
    PROVE  (InRequestLine(m) /\ InHeaders(m) /\ InContent(m) /\ Uncut(m))'
<1>1. InRequestLine(m)'
  <2>1. m[1] = "request" => 0 < HeadEnd(m)
    BY ShapeOf
  <2> QED
    BY <2>1 DEF InRequestLine
<1>2. InHeaders(m)' /\ InContent(m)'
  BY DEF InHeaders, InContent
<1>3. Uncut(m)'
  <2>1. Len(m) \in Nat \ {0} /\ Len(m_read_buf') = 0
    BY ShapeOf
  <2>2. Good(m) => HeadEnd(m) \in 2..(Len(m) - 1)
    BY GoodLength
  <2>3. Good(m) => 0 <= HeadEnd(m) + 1 /\ 0 < Len(m)
    BY <2>1, <2>2
  <2> QED
    BY <2>1, <2>3 DEF Uncut, Good
<1> QED
  BY <1>1, <1>2, <1>3

\* A request that is sent follows the others.
LEMMA AskSound ==
    ASSUME Sound, NEW m \in Messages, P!Ask(m)
    PROVE  Sound'
<1> DEFINE l == Len(asked)
           n == Len(m_read_buf)
<1>1. /\ asked' = Append(asked, m) /\ todo' = todo \o m
      /\ UNCHANGED <<cut, m_read_buf, m_checked_idx, m_start_line, m_check_state,
                     m_content_length, m_linger, line_status, pc, ret>>
  BY DEF P!Ask, P!parseVars
<1>2. /\ asked \in Seq(Messages) /\ l \in Nat /\ n \in Nat /\ Len(todo) \in Nat
      /\ todo \in Seq(P!Bytes) /\ m_checked_idx \in 0..n /\ Total \in Nat
  BY DEF Sound, ReadTypes, Total
<1>3. m \in Seq(P!Bytes) /\ Len(m) \in Nat
  BY ShapeOf
<1>4. /\ asked' \in Seq(Messages) /\ Len(asked') = l + 1 /\ asked' # <<>>
      /\ \A i \in 1..l : asked'[i] = asked[i]
      /\ asked'[l + 1] = m
  BY <1>1, <1>2
<1>5. /\ todo' \in Seq(P!Bytes) /\ Len(todo') = Len(todo) + Len(m)
      /\ \A i \in 1..Len(todo) : todo'[i] = todo[i]
      /\ \A k \in 1..Len(m) : todo'[Len(todo) + k] = m[k]
  BY <1>1, <1>2, <1>3
<1>6. ReadTypes'
  BY <1>1, <1>4, <1>5 DEF Sound, ReadTypes
<1>7. Total' = Total + Len(m)
  BY <1>1, <1>2, <1>3, <1>5 DEF Total
<1>8. \A j \in 1..Total : Stream(j)' = Stream(j)
  <2> SUFFICES ASSUME NEW j \in 1..Total PROVE Stream(j)' = Stream(j)
    OBVIOUS
  <2>1. j > n => j - n \in 1..Len(todo)
    BY <1>2 DEF Total
  <2> QED
    BY <1>1, <1>5, <2>1 DEF Stream
<1>9. \A j \in (Total + 1)..(Total + Len(m)) : Stream(j)' = m[j - Total]
  <2> SUFFICES ASSUME NEW j \in (Total + 1)..(Total + Len(m))
               PROVE  Stream(j)' = m[j - Total]
    OBVIOUS
  <2>1. /\ ~(j <= n) /\ j - n = Len(todo) + (j - Total)
        /\ j - Total \in 1..Len(m)
    BY <1>2, <1>3 DEF Total
  <2>2. Stream(j)' = todo'[j - n]
    BY <1>1, <2>1 DEF Stream
  <2> QED
    BY <1>5, <2>1, <2>2
<1>10. Following'
  <2>1. PICK off \in [1..(l + 1) -> Nat] : Follows(off)
    BY DEF Sound, Following
  <2>2. PICK off2 \in [1..(l + 2) -> Nat] :
           /\ \A i \in 1..(l + 1) : off2[i] = off[i]
           /\ off2[l + 2] = Total + Len(m)
    <3>1. LET g == [i \in 1..(l + 2) |->
                      IF i <= l + 1 THEN off[i] ELSE Total + Len(m)]
          IN  /\ g \in [1..(l + 2) -> Nat] /\ g[l + 2] = Total + Len(m)
              /\ \A i \in 1..(l + 1) : g[i] = off[i]
      BY <1>2, <1>3
    <3> QED
      BY <3>1
  <2>3. off2[1] = 0
    <3>1. 1 \in 1..(l + 1) /\ off[1] = 0
      BY <1>2, <2>1 DEF Follows
    <3> QED
      BY <2>2, <3>1
  <2>4. off2[Len(asked') + 1] = Total' /\ off2 \in [1..(Len(asked') + 1) -> Nat]
    <3>1. Len(asked') + 1 = l + 2
      BY <1>2, <1>4
    <3> QED
      BY <1>7, <2>2, <3>1
  <2>5. ASSUME NEW i \in 1..Len(asked')
        PROVE  /\ off2[i + 1] = off2[i] + Len(asked'[i]) /\ off2[i + 1] <= Total'
               /\ \A k \in 1..Len(asked'[i]) :
                     Stream(off2[i] + k)' = Seen(asked[i][k], off2[i] + k)'
    <3>1. CASE i \in 1..l
      <4>1. /\ asked'[i] = asked[i] /\ asked[i] \in Messages
            /\ i \in 1..(l + 1) /\ i + 1 \in 1..(l + 1)
        BY <1>2, <1>4, <3>1
      <4>2. off2[i] = off[i] /\ off2[i + 1] = off[i + 1] /\ off[i] \in Nat
        BY <2>1, <2>2, <4>1
      <4>3. off[i + 1] = off[i] + Len(asked[i]) /\ off[i + 1] <= Total
        BY <2>1, <3>1 DEF Follows
      <4>4. Len(asked[i]) \in Nat
        BY <4>1, ShapeOf
      <4>5. ASSUME NEW k \in 1..Len(asked[i])
            PROVE  Stream(off2[i] + k)' = Seen(asked[i][k], off2[i] + k)'
        <5>1. off[i] + k \in 1..Total
          <6>1. off[i] + Len(asked[i]) <= Total
            BY <4>3
          <6> QED
            BY <1>2, <4>2, <4>4, <6>1, Inside, Zenon
        <5>2. Stream(off[i] + k) = Seen(asked[i][k], off[i] + k)
          BY <2>1, <3>1 DEF Follows
        <5>3. Stream(off[i] + k)' = Stream(off[i] + k)
          BY <1>8, <5>1
        <5>4. Seen(asked[i][k], off[i] + k)' = Seen(asked[i][k], off[i] + k)
          BY <1>1, <4>1 DEF Seen
        <5> QED
          BY <4>2, <5>2, <5>3, <5>4
      <4>6. off[i + 1] <= Total'
        <5>1. off[i + 1] \in Nat /\ off[i + 1] <= Total
          BY <4>2, <4>3, <4>4
        <5>2. \A a, b, d \in Nat : a <= b => a <= b + d
          OBVIOUS
        <5> QED
          BY <1>2, <1>3, <1>7, <5>1, <5>2, Zenon
      <4> QED
        BY <4>1, <4>2, <4>3, <4>5, <4>6
    <3>2. CASE i = l + 1
      <4>1. /\ asked'[i] = m /\ off2[i + 1] = Total + Len(m) /\ i + 1 = l + 2
            /\ i \in 1..(l + 1)
        BY <1>2, <1>4, <2>2, <3>2
      <4>2. off2[i] = Total
        BY <2>1, <2>2, <3>2, <4>1 DEF Follows
      <4>3. ASSUME NEW k \in 1..Len(m)
            PROVE  Stream(off2[i] + k)' = Seen(asked[i][k], off2[i] + k)'
        <5>1. /\ off2[i] + k \in (Total + 1)..(Total + Len(m))
              /\ (off2[i] + k) - Total = k /\ ~(off2[i] + k <= m_checked_idx')
          BY <1>1, <1>2, <1>3, <4>2 DEF Total
        <5>2. Stream(off2[i] + k)' = m[k]
          BY <1>9, <5>1
        <5>3. Seen(asked[i][k], off2[i] + k)' = m[k]
          BY <4>1, <5>1 DEF Seen
        <5> QED
          BY <5>2, <5>3
      <4>4. Total + Len(m) <= Total'
        BY <1>2, <1>3, <1>7
      <4> QED
        BY <4>1, <4>2, <4>3, <4>4
    <3> QED
      BY <1>2, <1>4, <3>1, <3>2
  <2>6. Follows(off2)'
    BY <2>3, <2>4, <2>5 DEF Follows
  <2> QED
    BY <2>4, <2>6 DEF Following
<1>11. CASE asked = <<>>
  <2>1. pc = "wait" /\ m_check_state = "REQUESTLINE"
    BY <1>11 DEF Sound, Fresh
  <2>2. Total = 0
    <3>1. PICK off \in [1..(l + 1) -> Nat] : Follows(off)
      BY DEF Sound, Following
    <3>2. l = 0
      BY <1>11
    <3>3. off[0 + 1] = Total /\ off[1] = 0
      BY <3>1, <3>2 DEF Follows
    <3> QED
      BY <3>3
  <2>3. n = 0
    BY <1>2, <2>2 DEF Total
  <2>4. m_read_buf' = <<>> /\ m_checked_idx' = 0
    <3>1. m_read_buf = <<>>
      BY <2>3, EmptySeq DEF Sound, ReadTypes
    <3> QED
      BY <1>1, <1>2, <2>3, <3>1
  <2>5. asked'[1] = m
    BY <1>4, <1>11
  <2>6. Parsing'
    BY <1>1, <2>1, <2>4, <2>5, Ready DEF Parsing
  <2>7. Judged' /\ Fresh'
    BY <1>1, <1>4, <2>1 DEF Judged, Fresh, Sound
  <2> QED
    BY <1>6, <1>10, <2>6, <2>7 DEF Sound
<1>12. CASE asked # <<>>
  <2>1. asked'[1] = asked[1]
    <3>1. 1 \in 1..l
      BY <1>2, <1>12, EmptySeq
    <3> QED
      BY <1>4, <3>1
  <2>2. Parsing'
    BY <1>1, <1>12, <2>1 DEF Sound, Parsing, InRequestLine, InHeaders, InContent, Uncut
  <2>3. Judged' /\ Fresh'
    BY <1>1, <1>4, <1>12, <2>1 DEF Judged, Fresh, Sound
  <2> QED
    BY <1>6, <1>10, <2>2, <2>3 DEF Sound
<1> QED
  BY <1>11, <1>12

\* Bytes that arrive move from one part of the stream to the other; a segment that
\* ends inside a body is noted in cut.
LEMMA ReadSound ==
    ASSUME Sound, NEW k \in 1..Len(todo), P!read_once(k), ~P!NoRoom(k)
    PROVE  Sound'
<1> DEFINE n == Len(m_read_buf)
<1>1. /\ pc = "wait" /\ pc' = "loop" /\ line_status' = "LINE_OK"
      /\ m_read_buf' = m_read_buf \o SubSeq(todo, 1, k)
      /\ todo' = SubSeq(todo, k + 1, Len(todo))
      /\ cut' = (cut \/ (k < Len(todo) /\ todo[k] = "body"
                                      /\ todo[k + 1] = "body"))
      /\ UNCHANGED <<asked, m_checked_idx, m_start_line, m_check_state,
                     m_content_length, m_linger, ret>>
  BY DEF P!read_once, P!parseVars
<1>2. /\ asked \in Seq(Messages) /\ n \in Nat /\ Len(todo) \in Nat /\ k \in Nat
      /\ todo \in Seq(P!Bytes) /\ m_read_buf \in Seq(P!Bytes)
      /\ m_checked_idx \in 0..n /\ Total \in Nat /\ k <= Len(todo) /\ k >= 1
      /\ \A j \in 1..m_checked_idx : m_read_buf[j] \notin Ends
  BY DEF Sound, ReadTypes, Total
<1>3. /\ m_read_buf' \in Seq(P!Bytes) /\ Len(m_read_buf') = n + k
      /\ \A j \in 1..n : m_read_buf'[j] = m_read_buf[j]
      /\ \A i \in 1..k : m_read_buf'[n + i] = todo[i]
  <2> DEFINE t == SubSeq(todo, 1, k)
  <2>1. t \in Seq(P!Bytes) /\ Len(t) = k /\ \A i \in 1..k : t[i] = todo[i]
    BY <1>2
  <2> HIDE DEF t
  <2>2. m_read_buf' = m_read_buf \o t
    BY <1>1 DEF t
  <2>3. m_read_buf' \in Seq(P!Bytes) /\ Len(m_read_buf') = n + k
    <3> HIDE DEF n
    <3>1. m_read_buf \in Seq(P!Bytes) /\ n = Len(m_read_buf)
      BY <1>2 DEF n
    <3>2. m_read_buf \o t \in Seq(P!Bytes) /\ Len(m_read_buf \o t) = n + Len(t)
      BY <2>1, <3>1, ConcatProperties
    <3> QED
      BY <2>1, <2>2, <3>2
  <2>4. \A j \in 1..n : m_read_buf'[j] = m_read_buf[j]
    BY <1>2, <2>1, <2>2
  <2>5. ASSUME NEW i \in 1..k PROVE m_read_buf'[n + i] = t[i]
    <3>1. n + i \in 1..(n + k) /\ ~(n + i <= n) /\ (n + i) - n = i
      BY <1>2
    <3> QED
      BY <1>2, <2>1, <2>2, <3>1
  <2> QED
    BY <2>1, <2>3, <2>4, <2>5
<1>4. /\ todo' \in Seq(P!Bytes) /\ Len(todo') = Len(todo) - k
      /\ \A i \in 1..(Len(todo) - k) : todo'[i] = todo[k + i]
  <2> DEFINE d == Len(todo)
  <2> HIDE DEF d
  <2>1. /\ k + 1 \in 1..(d + 1) /\ d \in k..d /\ d \in Nat /\ d - (k + 1) + 1 = d - k
        /\ k + 1 <= d + 1
    BY <1>2 DEF d
  <2>2. k + 1 \in 1..(Len(todo) + 1) /\ d \in ((k + 1) - 1)..Len(todo)
    BY <1>2, <2>1 DEF d
  <2>3. /\ todo' \in Seq(P!Bytes) /\ Len(todo') = d - (k + 1) + 1
        /\ \A i \in 1..(d - (k + 1) + 1) : todo'[i] = todo[(k + 1) + i - 1]
    <3>1. todo' = SubSeq(todo, k + 1, d)
      BY <1>1 DEF d
    <3> QED
      BY <1>2, <2>1, <2>2, <3>1, SubSeqProperties
  <2>4. \A i \in 1..(d - k) : (k + 1) + i - 1 = k + i
    BY <1>2, <2>1
  <2> QED
    BY <2>1, <2>3, <2>4 DEF d
<1>5. Total' = Total
  BY <1>2, <1>3, <1>4 DEF Total
<1>6. \A j \in 1..Total : Stream(j)' = Stream(j)
  <2> SUFFICES ASSUME NEW j \in 1..Total PROVE Stream(j)' = Stream(j)
    OBVIOUS
  <2>0. j \in 1..(n + Len(todo))
    BY DEF Total
  <2>1. CASE j <= n
    <3>1. j <= n + k /\ j \in 1..n
      BY <1>2, <2>0, <2>1
    <3>2. Stream(j) = m_read_buf[j]
      BY <2>1 DEF Stream
    <3>3. Stream(j)' = m_read_buf'[j]
      BY <1>3, <3>1 DEF Stream
    <3> QED
      BY <1>3, <3>1, <3>2, <3>3
  <2>2. CASE j > n /\ j <= n + k
    <3>1. ~(j <= n) /\ j - n \in 1..k /\ n + (j - n) = j
      BY <1>2, <2>0, <2>2
    <3>2. Stream(j) = todo[j - n]
      BY <3>1 DEF Stream
    <3>3. Stream(j)' = m_read_buf'[j]
      BY <1>3, <2>2 DEF Stream
    <3>4. m_read_buf'[n + (j - n)] = todo[j - n]
      BY <1>3, <3>1
    <3> QED
      BY <3>1, <3>2, <3>3, <3>4
  <2>3. CASE j > n + k
    <3>1. /\ ~(j <= n) /\ ~(j <= n + k) /\ j - (n + k) \in 1..(Len(todo) - k)
          /\ k + (j - (n + k)) = j - n
      BY <1>2, <2>0, <2>3
    <3>2. Stream(j) = todo[j - n]
      BY <3>1 DEF Stream
    <3>3. Stream(j)' = todo'[j - (n + k)]
      BY <1>3, <3>1 DEF Stream
    <3> QED
      BY <1>4, <3>1, <3>2, <3>3
  <2> QED
    BY <1>2, <2>0, <2>1, <2>2, <2>3
<1>7. ReadTypes'
  <2>1. m_checked_idx \in 0..(n + k)
    BY <1>2
  <2>2. \A j \in 1..m_checked_idx : m_read_buf'[j] \notin Ends
    <3>1. \A j \in 1..m_checked_idx : j \in 1..n
      BY <1>2
    <3> QED
      BY <1>2, <1>3, <3>1
  <2> QED
    BY <1>1, <1>3, <1>4, <2>1, <2>2 DEF Sound, ReadTypes
<1>8. Following'
  <2>1. \A j \in 1..Total : j <= m_checked_idx' => Stream(j) \notin Ends
    BY <1>1, <1>2 DEF Stream, Total
  <2>2. m_checked_idx' \in Nat /\ m_checked_idx <= m_checked_idx'
    BY <1>1, <1>2
  <2>3. \A j \in 1..Total : Stream(j)' = IF j <= m_checked_idx' /\ Stream(j) \in Ends
                                         THEN "NUL" ELSE Stream(j)
    BY <1>6, <2>1
  <2> QED
    BY <1>1, <1>5, <2>2, <2>3, FollowsOn DEF Sound
<1>9. ASSUME asked # <<>> PROVE Parsing'
  <2> DEFINE m == asked[1]
  <2>1. /\ InRequestLine(m) /\ InHeaders(m) /\ InContent(m) /\ Uncut(m)
    BY <1>1, <1>9 DEF Sound, Parsing
  <2>2. /\ m \in Messages /\ Len(m) <= Total
        /\ \A j \in 1..Len(m) : Stream(j) = Seen(m[j], j)
    BY <1>9, HeadHeld DEF Sound
  <2>3. ~cut' => ~cut
    BY <1>1
  <2>4. m' = m
    BY <1>1
  <2> HIDE DEF m
  <2>5. InRequestLine(m)' /\ InHeaders(m)' /\ InContent(m)'
    BY <1>1, <2>1, <2>3, <2>4 DEF InRequestLine, InHeaders, InContent
  <2>6. ASSUME Good(m), ~cut'
        PROVE  n + k <= HeadEnd(m) + 1 \/ n + k >= Len(m)
    <3>1. /\ HeadEnd(m) \in 2..(Len(m) - 1) /\ Len(m) \in Nat
          /\ \A i \in (HeadEnd(m) + 2)..Len(m) : m[i] = "body"
      BY <2>2, <2>6, GoodLength, ShapeOf
    <3> SUFFICES ASSUME n + k > HeadEnd(m) + 1, n + k < Len(m) PROVE FALSE
      BY <1>2, <3>1
    <3>2. n < Len(m) /\ (n <= HeadEnd(m) + 1 \/ n >= Len(m))
      BY <1>1, <2>1, <2>3, <2>6 DEF Uncut
    <3>3. n <= HeadEnd(m) + 1
      BY <1>2, <3>1, <3>2
    <3>4. /\ n + k \in (HeadEnd(m) + 2)..Len(m)
          /\ n + (k + 1) \in (HeadEnd(m) + 2)..Len(m)
          /\ n + k \in 1..Len(m) /\ n + (k + 1) \in 1..Len(m)
      BY <1>2, <3>1
    <3>5. m[n + k] = "body" /\ m[n + (k + 1)] = "body"
      BY <3>1, <3>4
    <3>6. Stream(n + k) = "body" /\ Stream(n + (k + 1)) = "body"
      BY <2>2, <3>4, <3>5 DEF Seen, Ends
    <3>7. /\ ~(n + k <= n) /\ ~(n + (k + 1) <= n)
          /\ (n + k) - n = k /\ (n + (k + 1)) - n = k + 1
      BY <1>2
    <3>8. Stream(n + k) = todo[k] /\ Stream(n + (k + 1)) = todo[k + 1]
      BY <3>7 DEF Stream
    <3>9. k < Len(todo)
      <4>1. Len(m) <= n + Len(todo)
        BY <2>2 DEF Total
      <4> QED
        BY <1>2, <3>1, <4>1
    <3> QED
      BY <1>1, <2>6, <3>6, <3>8, <3>9
  <2>7. Uncut(m)'
    BY <1>1, <1>3, <2>4, <2>6 DEF Uncut, Good, HeadEnd
  <2> QED
    BY <2>5, <2>7 DEF Parsing, m
<1>10. asked # <<>>
  <2>1. PICK off \in [1..(Len(asked) + 1) -> Nat] : Follows(off)
    BY DEF Sound, Following
  <2>2. ASSUME asked = <<>> PROVE FALSE
    <3>1. Len(asked) = 0
      BY <2>2
    <3>2. off[0 + 1] = Total /\ off[1] = 0
      BY <2>1, <3>1 DEF Follows
    <3> QED
      BY <1>2, <3>2 DEF Total
  <2> QED
    BY <2>2
<1>11. Judged' /\ Fresh'
  BY <1>1, <1>10 DEF Sound, Judged, Fresh
<1> QED
  BY <1>7, <1>8, <1>9, <1>10, <1>11 DEF Sound

\* The line that parse_line works on begins behind s, in the request line and in
\* the headers.
LEMMA LineBegins ==
    ASSUME Sound, pc = "loop", m_check_state # "CONTENT",
           asked[1][1] = "request"
    PROVE  /\ asked # <<>> /\ asked[1] \in Messages
           /\ m_start_line \in 0..m_checked_idx
           /\ m_start_line >= 1 => asked[1][m_start_line] = "LF"
           /\ m_start_line >= 1 <=> m_check_state = "HEADER"
           /\ m_checked_idx < HeadEnd(asked[1])
           /\ \A j \in (m_start_line + 1)..m_checked_idx : asked[1][j] \notin Ends
<1> DEFINE m == asked[1]
<1>1. asked # <<>>
  BY DEF Sound, Fresh
<1>2. m \in Messages
  BY <1>1, HeadHeld DEF Sound
<1>3. InRequestLine(m) /\ InHeaders(m)
  BY <1>1 DEF Sound, Parsing
<1>4. /\ m_start_line \in 0..m_checked_idx /\ m_checked_idx \in Nat
      /\ m_check_state \in {"REQUESTLINE", "HEADER", "CONTENT"}
  BY DEF Sound, ReadTypes
<1>5. Len(m) \in Nat /\ HeadEnd(m) \in 1..Len(m)
  BY <1>2, ShapeOf
<1>6. CASE m_check_state = "REQUESTLINE"
  <2>1. m_start_line = 0
    BY <1>6 DEF Sound, Fresh
  <2>2. m_checked_idx < HeadEnd(m)
    BY <1>3, <1>6 DEF InRequestLine
  <2>3. \A j \in 1..m_checked_idx : j <= Len(m)
    BY <1>4, <1>5, <2>2
  <2>4. \A j \in 1..m_checked_idx : m[j] \notin Ends
    BY <1>3, <1>6, <2>3 DEF InRequestLine
  <2> QED
    BY <1>1, <1>2, <1>4, <1>6, <2>1, <2>2, <2>4
<1>7. CASE m_check_state = "HEADER"
  BY <1>1, <1>2, <1>3, <1>4, <1>7 DEF InHeaders
<1> QED
  BY <1>4, <1>6, <1>7

\* No complete line: the parser waits, and does not do so with a whole request.
LEMMA StopsSound ==
    ASSUME Sound, P!ParseStops
    PROVE  Sound'
<1> DEFINE m == asked[1]
           n == Len(m_read_buf)
           c == m_checked_idx
<1>1. /\ pc = "loop" /\ pc' = "wait" /\ ~P!InBody
      /\ UNCHANGED <<asked, cut, m_read_buf, m_start_line, m_check_state,
                     m_content_length, m_linger>>
  BY DEF P!ParseStops, P!client
<1>2. PICK x : /\ NoEnds(x) /\ ~Complete(x) /\ c' = x
               /\ x = n \/ m_read_buf[x + 1] \in Ends
               /\ ReadTypes' /\ Following'
  BY LineNotTaken DEF Sound
<1>3. asked # <<>>
  BY <1>1 DEF Sound, Fresh
<1>4. /\ m \in Messages /\ Holds(m) /\ InRequestLine(m) /\ InHeaders(m)
      /\ InContent(m) /\ Uncut(m)
  BY <1>1, <1>3, HeadHeld DEF Sound, Parsing
<1>5. /\ n \in Nat /\ c \in 0..n /\ x \in c..n /\ Len(m) \in Nat
      /\ m_check_state \in {"REQUESTLINE", "HEADER", "CONTENT"}
      /\ \A j \in (c + 1)..x : m_read_buf[j] \notin Ends
  BY <1>2, <1>4, ShapeOf DEF Sound, ReadTypes, NoEnds
<1>6. ASSUME m_check_state # "CONTENT", m[1] = "request"
      PROVE  /\ x < HeadEnd(m)
             /\ \A j \in (m_start_line + 1)..x : m[j] \notin Ends
             /\ Good(m) => n < Len(m)
  <2> HIDE DEF m, n, c
  <2>1. /\ m_start_line \in 0..m_checked_idx
        /\ m_start_line >= 1 => m[m_start_line] = "LF"
        /\ m_checked_idx < HeadEnd(m)
        /\ \A j \in (m_start_line + 1)..m_checked_idx : m[j] \notin Ends
    BY <1>1, <1>6, LineBegins DEF m
  <2> QED
    BY <1>2, <1>4, <1>6, <2>1, EndInHead DEF Sound, n
<1>7. InRequestLine(m)'
  <2>1. ASSUME m_check_state = "REQUESTLINE", NEW j \in 1..x, j <= Len(m)
        PROVE  m[j] \notin Ends
    <3>1. CASE j <= c
      <4>1. j \in 1..c
        BY <1>5, <3>1
      <4> QED
        BY <1>4, <2>1, <4>1 DEF InRequestLine
    <3>2. CASE j > c
      <4>1. j \in (c + 1)..x /\ j \in 1..n
        BY <1>5, <3>2
      <4>2. m_read_buf[j] = m[j]
        BY <1>4, <1>5, <2>1, <3>2, <4>1 DEF Holds, Seen
      <4> QED
        BY <1>5, <4>1, <4>2
    <3> QED
      BY <1>5, <3>1, <3>2
  <2>2. m_check_state = "REQUESTLINE" /\ m[1] = "request" => x < HeadEnd(m)
    BY <1>6
  <2> QED
    BY <1>1, <1>2, <2>1, <2>2 DEF InRequestLine
<1>8. InHeaders(m)'
  <2>1. ASSUME m_check_state = "HEADER"
        PROVE  /\ m[1] = "request" /\ x < HeadEnd(m)
               /\ \A j \in (m_start_line + 1)..x : m[j] \notin Ends
    <3>1. m[1] = "request"
      BY <1>4, <2>1 DEF InHeaders
    <3> QED
      BY <1>6, <2>1, <3>1
  <2> QED
    BY <1>1, <1>2, <1>4, <2>1 DEF InHeaders
<1>9. ASSUME m_check_state = "CONTENT"
      PROVE  /\ x >= HeadEnd(m) + 1
             /\ ~cut => x = HeadEnd(m) + 1
             /\ ~cut => n < Len(m)
  <2>1. /\ Good(m) /\ c >= HeadEnd(m) + 1
        /\ ~cut => c = HeadEnd(m) + 1
        /\ Len(m) = HeadEnd(m) + 1 + CONTENT_LENGTH
        /\ n < CONTENT_LENGTH + c
    BY <1>1, <1>4, <1>9 DEF InContent, P!InBody
  <2>2. HeadEnd(m) \in Nat /\ CONTENT_LENGTH \in Nat
    BY <1>4, <2>1, GoodLength, GetConnAssumption
  <2>3. ~cut => n <= HeadEnd(m) + 1 \/ n >= Len(m)
    BY <1>4, <2>1 DEF Uncut
  <2> HIDE DEF m, n, c
  <2> QED
    BY <1>5, <2>1, <2>2, <2>3
<1>10. InContent(m)'
  BY <1>1, <1>2, <1>4, <1>9 DEF InContent
<1>11. Uncut(m)'
  <2>1. ASSUME Good(m), ~cut PROVE n < Len(m)
    <3>1. m[1] = "request"
      BY <2>1 DEF Good
    <3> QED
      BY <1>6, <1>9, <2>1, <3>1
  <2> QED
    BY <1>1, <1>4, <2>1 DEF Uncut, Good, HeadEnd
<1>12. Parsing'
  BY <1>1, <1>7, <1>8, <1>10, <1>11 DEF Parsing
<1>13. Judged' /\ Fresh'
  BY <1>1, <1>3 DEF Sound, Judged, Fresh
<1> QED
  BY <1>2, <1>12, <1>13 DEF Sound

\* A line of the head that is found, in the request line or the headers, of a
\* request that begins with a request line: it is not empty, and ends in the head,
\* or it is the empty line.
LEMMA LineOfHead ==
    ASSUME Sound, P!LineFound, UNCHANGED P!client, m_check_state # "CONTENT"
    PROVE  /\ asked # <<>> /\ asked[1] \in Messages
           /\ \E x : /\ m_checked_idx' = x + 2 /\ x \in Nat
                     /\ x + 2 <= Len(m_read_buf)
                     /\ Len(m_read_buf') = Len(m_read_buf)
                     /\ \A j \in 1..Len(m_read_buf) :
                           m_read_buf'[j] = IF j \in {x + 1, x + 2} THEN "NUL"
                                                                   ELSE m_read_buf[j]
                     /\ m_start_line' = m_checked_idx'
                        /\ m_check_state' \in {"REQUESTLINE", "HEADER", "CONTENT"}
                           => ReadTypes'
                     /\ asked[1][1] = "request" =>
                        /\ x < HeadEnd(asked[1])
                        /\ \A j \in (m_start_line + 1)..x : asked[1][j] \notin Ends
                        /\ \/ /\ x + 2 < HeadEnd(asked[1]) /\ asked[1][x + 1] = "CR"
                              /\ asked[1][x + 2] = "LF" /\ m_start_line < x
                           \/ /\ x + 1 = HeadEnd(asked[1]) /\ Good(asked[1])
                              /\ x = m_start_line /\ m_start_line >= 1
           /\ Following'
<1> DEFINE m == asked[1]
           n == Len(m_read_buf)
<1>1. pc = "loop" /\ UNCHANGED <<asked, todo>>
  BY DEF P!LineFound, P!client
<1>2. asked # <<>>
  BY <1>1 DEF Sound, Fresh
<1>3. m \in Messages /\ Holds(m)
  BY <1>2, HeadHeld DEF Sound
<1>4. PICK x : /\ NoEnds(x) /\ Complete(x) /\ m_checked_idx' = x + 2
               /\ m_read_buf' \in Seq(P!Bytes)
               /\ Len(m_read_buf') = n
               /\ \A j \in 1..n :
                     m_read_buf'[j] = IF j \in {x + 1, x + 2} THEN "NUL"
                                                             ELSE m_read_buf[j]
               /\ \A j \in 1..(x + 2) : m_read_buf'[j] \notin Ends
               /\ Following'
  BY LineTaken DEF Sound
<1>5. x \in Nat /\ x + 2 <= n /\ n \in Nat
  BY <1>4 DEF NoEnds, Complete, Sound, ReadTypes
<1>6. ASSUME m_start_line' = m_checked_idx',
             m_check_state' \in {"REQUESTLINE", "HEADER", "CONTENT"}
      PROVE  ReadTypes'
  <2>1. x + 2 \in 0..n /\ x + 2 \in 0..(x + 2)
    BY <1>5
  <2> QED
    BY <1>1, <1>4, <1>6, <2>1 DEF Sound, ReadTypes
<1>7. ASSUME m[1] = "request"
      PROVE  /\ x < HeadEnd(m)
             /\ \A j \in (m_start_line + 1)..x : m[j] \notin Ends
             /\ \/ /\ x + 2 < HeadEnd(m) /\ m[x + 1] = "CR"
                   /\ m[x + 2] = "LF" /\ m_start_line < x
                \/ /\ x + 1 = HeadEnd(m) /\ Good(m)
                   /\ x = m_start_line /\ m_start_line >= 1
  <2> HIDE DEF m
  <2>1. /\ m_start_line \in 0..m_checked_idx
        /\ m_start_line >= 1 => m[m_start_line] = "LF"
        /\ m_checked_idx < HeadEnd(m)
        /\ \A j \in (m_start_line + 1)..m_checked_idx : m[j] \notin Ends
    BY <1>1, <1>7, LineBegins DEF m
  <2> QED
    BY <1>3, <1>4, <1>7, <2>1, EndInHead DEF Sound
<1> QED
  BY <1>2, <1>3, <1>4, <1>5, <1>6, <1>7

\* The request line: its verdict is the one the request deserves.
LEMMA RequestLineSound ==
    ASSUME Sound, P!ParseRequestLine
    PROVE  Sound'
<1> DEFINE m == asked[1]
           n == Len(m_read_buf)
<1>1. PICK text \in P!Bytes :
        /\ P!HasLine("REQUESTLINE", text)
        /\ \/ /\ text = "request" /\ m_check_state' = "HEADER"
              /\ UNCHANGED <<pc, ret>>
           \/ /\ text # "request" /\ pc' = "reply" /\ ret' = "BAD_REQUEST"
              /\ UNCHANGED m_check_state
        /\ UNCHANGED <<m_content_length, m_linger>>
  BY DEF P!ParseRequestLine, P!Returns
<1>2. /\ m_check_state = "REQUESTLINE" /\ P!LineFound /\ UNCHANGED P!client
      /\ m_start_line' = m_checked_idx' /\ line_status' = "LINE_OK"
      /\ text = m_read_buf'[m_start_line + 1]
      /\ pc = "loop" /\ UNCHANGED <<asked, cut>>
  BY <1>1 DEF P!HasLine, P!LineFound, P!client
<1>3. m_start_line = 0 /\ m_content_length = 0 /\ ~m_linger
  BY <1>2 DEF Sound, Fresh
<1>4. asked # <<>> /\ m \in Messages /\ Following'
  BY <1>2, LineOfHead
<1>5. PICK x : /\ m_checked_idx' = x + 2 /\ x \in Nat /\ x + 2 <= n
               /\ Len(m_read_buf') = n
               /\ \A j \in 1..n : m_read_buf'[j] = IF j \in {x + 1, x + 2} THEN "NUL"
                                                                ELSE m_read_buf[j]
               /\ ReadTypes'
               /\ m[1] = "request" =>
                  /\ \A j \in (m_start_line + 1)..x : m[j] \notin Ends
                  /\ \/ /\ x + 2 < HeadEnd(m) /\ m[x + 1] = "CR"
                        /\ m[x + 2] = "LF" /\ m_start_line < x
                     \/ m_start_line >= 1
  <2>1. m_check_state' \in {"REQUESTLINE", "HEADER", "CONTENT"}
    BY <1>1, <1>2
  <2> QED
    BY <1>2, <2>1, LineOfHead
<1>6. /\ Holds(m) /\ Uncut(m) /\ n \in Nat /\ Len(m) \in Nat \ {0}
      /\ m[1] # "NUL"
  BY <1>2, <1>4, HeadHeld, ShapeOf DEF Sound, Parsing, ReadTypes
<1>7. m_read_buf[1] = Seen(m[1], 1) /\ 1 \in 1..n
  <2>1. 1 \in 1..n /\ 1 <= Len(m)
    BY <1>5, <1>6
  <2> QED
    BY <1>6, <2>1 DEF Holds
<1>8. text = m_read_buf'[1]
  BY <1>2, <1>3
<1>9. CASE m[1] # "request"
  <2>1. text # "request"
    <3>1. m_read_buf[1] # "request"
      BY <1>7, <1>9 DEF Seen
    <3>2. m_read_buf'[1] = "NUL" \/ m_read_buf'[1] = m_read_buf[1]
      BY <1>5, <1>7
    <3> QED
      BY <1>8, <3>1, <3>2
  <2>2. pc' = "reply" /\ ret' = "BAD_REQUEST" /\ UNCHANGED <<m_check_state, m_linger>>
    BY <1>1, <2>1
  <2>3. Judged'
    BY <1>2, <1>3, <1>9, <2>2 DEF Judged
  <2>4. Parsing'
    BY <2>2 DEF Parsing
  <2>5. Fresh'
    BY <1>1, <1>2, <1>3, <1>4, <2>2 DEF Fresh
  <2> QED
    BY <1>4, <1>5, <2>3, <2>4, <2>5 DEF Sound
<1>10. CASE m[1] = "request"
  <2>1. /\ \A j \in 1..x : m[j] \notin Ends
        /\ x + 2 < HeadEnd(m) /\ m[x + 1] = "CR" /\ m[x + 2] = "LF" /\ 0 < x
    BY <1>3, <1>5, <1>10
  <2>2. text = "request"
    <3>1. 1 \notin {x + 1, x + 2}
      BY <1>5, <2>1
    <3>2. m_read_buf'[1] = m_read_buf[1]
      BY <1>5, <1>7, <3>1
    <3> QED
      BY <1>7, <1>8, <1>10, <3>2 DEF Seen, Ends
  <2>3. m_check_state' = "HEADER" /\ pc' = "loop"
    BY <1>1, <1>2, <2>2
  <2>4. ~P!HasLength(m, x + 2)
    <3> SUFFICES ASSUME NEW i \in 2..(x + 2), m[i - 1] = "LF" PROVE FALSE
      BY DEF P!HasLength
    <3>1. i - 1 \in 1..x \/ i - 1 = x + 1
      BY <1>5
    <3> QED
      BY <2>1, <3>1 DEF Ends
  <2>5. InHeaders(m)'
    <3>1. (x + 2) + 1 > x + 2 /\ x + 2 >= 1
      BY <1>5
    <3>2. \A j \in (m_start_line' + 1)..m_checked_idx' : FALSE
      BY <1>2, <1>5, <3>1
    <3>3. m' = m
      BY <1>2
    <3>4. m_content_length' = 0
      BY <1>1, <1>3
    <3> HIDE DEF m
    <3> QED
      BY <1>2, <1>5, <1>10, <2>1, <2>4, <3>1, <3>2, <3>3, <3>4
      DEF InHeaders, HeadEnd, P!HasLength
  <2>6. InRequestLine(m)' /\ InContent(m)'
    BY <2>3 DEF InRequestLine, InContent
  <2>7. Uncut(m)'
    BY <1>2, <1>5, <1>6, <2>3 DEF Uncut, Good, HeadEnd
  <2>8. Parsing' /\ Judged' /\ Fresh'
    BY <1>2, <1>4, <2>3, <2>5, <2>6, <2>7 DEF Parsing, Judged, Fresh
  <2> QED
    BY <1>4, <1>5, <2>8 DEF Sound
<1> QED
  BY <1>9, <1>10

\* A header: the Content-length is noted, whichever line it is in; the empty line
\* ends the request or begins its body.
LEMMA HeaderSound ==
    ASSUME Sound, P!ParseHeader
    PROVE  Sound'
<1> DEFINE m == asked[1]
           n == Len(m_read_buf)
           s == m_start_line
           e == HeadEnd(m)
<1>1. PICK text \in P!Bytes :
        /\ P!HasLine("HEADER", text)
        /\ m_content_length' = IF text = "length" THEN CONTENT_LENGTH
                                                  ELSE m_content_length
        /\ IF text = "NUL" THEN P!EmptyLine
                           ELSE UNCHANGED <<m_check_state, pc, ret>>
  BY DEF P!ParseHeader
<1>2. /\ m_check_state = "HEADER" /\ P!LineFound /\ UNCHANGED P!client
      /\ m_start_line' = m_checked_idx' /\ line_status' = "LINE_OK"
      /\ text = m_read_buf'[s + 1]
      /\ pc = "loop" /\ UNCHANGED <<asked, cut>>
  BY <1>1 DEF P!HasLine, P!LineFound, P!client
<1>3. asked # <<>> /\ m \in Messages /\ Following'
  BY <1>2, LineOfHead
<1>4. Holds(m) /\ Uncut(m) /\ InHeaders(m)
  BY <1>2, <1>3, HeadHeld DEF Sound, Parsing
<1>5. /\ m[1] = "request" /\ s >= 1 /\ m[s] = "LF"
      /\ m_content_length = IF P!HasLength(m, s) THEN CONTENT_LENGTH ELSE 0
  BY <1>2, <1>4 DEF InHeaders
<1>6. /\ n \in Nat /\ Len(m) \in Nat \ {0} /\ e \in 1..Len(m) /\ s \in Nat
      /\ \A k \in 1..Len(m) : m[k] # "NUL"
  <2>1. n \in Nat /\ s \in Nat
    BY DEF Sound, ReadTypes
  <2> QED
    BY <1>3, <1>5, <2>1, ShapeOf
<1>7. m_check_state' \in {"HEADER", "CONTENT"}
  BY <1>1, <1>2 DEF P!EmptyLine
<1>8. PICK x : /\ m_checked_idx' = x + 2 /\ x \in Nat /\ x + 2 <= n
               /\ Len(m_read_buf') = n
               /\ \A j \in 1..n : m_read_buf'[j] = IF j \in {x + 1, x + 2} THEN "NUL"
                                                                ELSE m_read_buf[j]
               /\ ReadTypes' /\ x < e
               /\ \A j \in (s + 1)..x : m[j] \notin Ends
               /\ \/ /\ x + 2 < e /\ m[x + 1] = "CR"
                     /\ m[x + 2] = "LF" /\ s < x
                  \/ x + 1 = e /\ Good(m) /\ x = s
  BY <1>2, <1>5, <1>7, LineOfHead
<1>9. CASE x + 2 < e /\ m[x + 1] = "CR" /\ m[x + 2] = "LF" /\ s < x
  <2>1. /\ s + 1 \in (s + 1)..x /\ s + 1 \in 1..n /\ s + 1 <= Len(m)
        /\ s + 1 \notin {x + 1, x + 2} /\ s + 1 \in 1..Len(m)
    BY <1>6, <1>8, <1>9
  <2>2. m[s + 1] \notin Ends /\ m[s + 1] # "NUL"
    BY <1>6, <1>8, <2>1
  <2>3. text = m[s + 1]
    <3>1. text = m_read_buf[s + 1]
      BY <1>2, <1>8, <2>1
    <3>2. m_read_buf[s + 1] = Seen(m[s + 1], s + 1)
      BY <1>4, <2>1 DEF Holds
    <3> QED
      BY <2>2, <3>1, <3>2 DEF Seen
  <2>4. m_check_state' = "HEADER" /\ pc' = "loop"
    BY <1>1, <1>2, <2>2, <2>3
  <2>5. P!HasLength(m, x + 2) <=> P!HasLength(m, s) \/ m[s + 1] = "length"
    <3>1. ASSUME P!HasLength(m, s) PROVE P!HasLength(m, x + 2)
      <4>1. \A i \in 2..s : i \in 2..(x + 2)
        BY <1>6, <1>8, <1>9
      <4> QED
        BY <3>1, <4>1 DEF P!HasLength
    <3>2. ASSUME m[s + 1] = "length" PROVE P!HasLength(m, x + 2)
      <4>1. s + 1 \in 2..(x + 2) /\ (s + 1) - 1 = s
        BY <1>5, <1>6, <1>8, <1>9
      <4> QED
        BY <1>5, <3>2, <4>1 DEF P!HasLength
    <3>3. ASSUME P!HasLength(m, x + 2)
          PROVE  P!HasLength(m, s) \/ m[s + 1] = "length"
      <4>1. PICK i \in 2..(x + 2) : m[i - 1] = "LF" /\ m[i] = "length"
        BY <3>3 DEF P!HasLength
      <4>2. \/ i \in 2..s \/ i = s + 1 \/ i - 1 \in (s + 1)..x \/ i - 1 = x + 1
        BY <1>6, <1>8, <1>9
      <4>3. i - 1 \notin (s + 1)..x
        BY <1>8, <4>1 DEF Ends
      <4>4. i - 1 # x + 1
        BY <1>9, <4>1
      <4> QED
        BY <4>1, <4>2, <4>3, <4>4 DEF P!HasLength
    <3> QED
      BY <3>1, <3>2, <3>3
  <2>6. m_content_length' = IF P!HasLength(m, x + 2) THEN CONTENT_LENGTH ELSE 0
    BY <1>1, <1>5, <2>3, <2>5
  <2>7. InHeaders(m)'
    <3>1. x + 2 >= 1
      BY <1>8
    <3>2. \A j \in (m_start_line' + 1)..m_checked_idx' : FALSE
      BY <1>2, <1>8
    <3>3. m' = m
      BY <1>2
    <3> HIDE DEF m
    <3> QED
      BY <1>2, <1>5, <1>8, <1>9, <2>6, <3>1, <3>2, <3>3
      DEF InHeaders, HeadEnd, P!HasLength
  <2>8. InRequestLine(m)' /\ InContent(m)'
    BY <2>4 DEF InRequestLine, InContent
  <2>9. Uncut(m)'
    BY <1>2, <1>4, <1>8, <2>4 DEF Uncut, Good, HeadEnd
  <2>10. Parsing' /\ Judged' /\ Fresh'
    BY <1>2, <1>3, <2>4, <2>7, <2>8, <2>9 DEF Parsing, Judged, Fresh
  <2> QED
    BY <1>3, <1>8, <2>10 DEF Sound
<1>10. CASE x + 1 = e /\ Good(m) /\ x = s
  <2>1. s + 1 \in 1..n /\ s + 1 \in {x + 1, x + 2}
    BY <1>6, <1>8, <1>10
  <2>2. text = "NUL"
    BY <1>2, <1>8, <2>1
  <2>3. m_content_length' = m_content_length /\ P!EmptyLine
    BY <1>1, <2>2
  <2>4. e - 1 = s
    BY <1>6, <1>8, <1>10
  <2>5. Len(m) = e + 1 + m_content_length
    BY <1>3, <1>5, <1>10, <2>4, GoodLength
  <2>6. CONTENT_LENGTH \in Nat \ {0} /\ m_content_length \in {0, CONTENT_LENGTH}
    BY <1>5, GetConnAssumption
  <2>7. m_checked_idx' = e + 1
    BY <1>6, <1>8, <1>10
  <2>8. CASE m_content_length # 0
    <3>1. m_check_state' = "CONTENT" /\ pc' = "loop"
      BY <1>2, <2>3, <2>8 DEF P!EmptyLine
    <3>2. InContent(m)'
      <4>1. m_content_length' = CONTENT_LENGTH
        BY <2>3, <2>6, <2>8
      <4>2. Len(m) = e + 1 + CONTENT_LENGTH
        BY <2>3, <2>5, <4>1
      <4>3. e + 1 >= e + 1
        BY <1>6
      <4>4. m' = m
        BY <1>2
      <4> HIDE DEF m
      <4> QED
        BY <1>2, <1>10, <2>7, <4>1, <4>2, <4>3, <4>4 DEF InContent, Good, HeadEnd
    <3>3. InRequestLine(m)' /\ InHeaders(m)'
      BY <3>1 DEF InRequestLine, InHeaders
    <3>4. Uncut(m)'
      BY <1>2, <1>4, <1>8, <3>1 DEF Uncut, Good, HeadEnd
    <3>5. Parsing' /\ Judged' /\ Fresh'
      BY <1>2, <1>3, <3>1, <3>2, <3>3, <3>4 DEF Parsing, Judged, Fresh
    <3> QED
      BY <1>3, <1>8, <3>5 DEF Sound
  <2>9. CASE m_content_length = 0
    <3>1. /\ pc' = "reply" /\ ret' = "GET_REQUEST" /\ m_check_state' = "HEADER"
      BY <1>2, <2>3, <2>9 DEF P!EmptyLine, P!Returns
    <3>2. n >= Len(m)
      BY <1>6, <1>8, <1>10, <2>5, <2>9
    <3>3. Judged'
      BY <1>2, <1>8, <1>10, <3>1, <3>2 DEF Judged, Good, HeadEnd
    <3>4. Parsing' /\ Fresh'
      BY <1>2, <1>3, <3>1 DEF Parsing, Fresh
    <3> QED
      BY <1>3, <1>8, <3>3, <3>4 DEF Sound
  <2> QED
    BY <2>8, <2>9
<1> QED
  BY <1>8, <1>9, <1>10

\* The body: the request is complete when the whole of it is in the buffer.
LEMMA ContentSound ==
    ASSUME Sound, P!ParseContent
    PROVE  Sound'
<1> DEFINE m == asked[1]
           n == Len(m_read_buf)
           c == m_checked_idx
           e == HeadEnd(m)
<1>1. /\ m_check_state = "CONTENT" /\ pc = "loop"
      /\ UNCHANGED <<P!client, asked, todo, cut, m_check_state, m_content_length,
                     m_linger>>
      /\ m_start_line' = m_checked_idx'
      /\ \/ P!InBody /\ UNCHANGED <<m_read_buf, m_checked_idx>>
         \/ P!LineFound
      /\ IF n >= m_content_length + m_checked_idx'
         THEN pc' = "reply" /\ ret' = "GET_REQUEST" /\ line_status' = "LINE_OK"
         ELSE line_status' = "LINE_OPEN" /\ UNCHANGED <<pc, ret>>
  BY DEF P!ParseContent, P!LineFound, P!Returns, P!client, P!m_read_idx
<1>2. asked # <<>>
  BY <1>1 DEF Sound, Fresh
<1>3. m \in Messages /\ Uncut(m) /\ InContent(m)
  BY <1>1, <1>2, HeadHeld DEF Sound, Parsing
<1>4. /\ Good(m) /\ m_content_length = CONTENT_LENGTH
      /\ Len(m) = e + 1 + CONTENT_LENGTH
      /\ c >= e + 1
      /\ ~cut => c = e + 1
      /\ line_status # "LINE_OK" => n < CONTENT_LENGTH + c
  BY <1>1, <1>3 DEF InContent
<1>5. /\ n \in Nat /\ c \in 0..n /\ Len(m) \in Nat
      /\ CONTENT_LENGTH \in Nat \ {0}
  BY <1>3, ShapeOf, GetConnAssumption DEF Sound, ReadTypes
<1>6. e \in Nat
  BY <1>3, <1>4, <1>5, GoodLength
<1>7. ~cut => n <= e + 1 \/ n >= Len(m)
  BY <1>3, <1>4 DEF Uncut
<1>8. /\ Following' /\ ReadTypes' /\ Len(m_read_buf') = n
      /\ m_checked_idx' \in Nat /\ m_checked_idx' >= e + 1
      /\ ~cut => m_checked_idx' = e + 1
  <2>1. CASE P!InBody /\ UNCHANGED <<m_read_buf, m_checked_idx>>
    <3>1. Following'
      <4>1. \A j \in 1..Total : Stream(j)' = Stream(j)
        BY <1>1, <2>1 DEF Stream
      <4>2. \A j \in 1..Total : j <= m_checked_idx' => Stream(j) \notin Ends
        BY <1>5, <2>1 DEF Sound, ReadTypes, Stream, Total
      <4>3. Total' = Total /\ m_checked_idx' \in Nat /\ m_checked_idx <= m_checked_idx'
        BY <1>1, <1>5, <2>1 DEF Total
      <4> QED
        BY <1>1, <4>1, <4>2, <4>3, FollowsOn DEF Sound
    <3>2. ReadTypes'
      <4>1. c \in 0..c
        BY <1>5
      <4> QED
        BY <1>1, <2>1, <4>1 DEF Sound, ReadTypes
    <3>3. m_checked_idx' = c /\ c \in Nat
      BY <1>5, <2>1
    <3> QED
      BY <1>4, <2>1, <3>1, <3>2, <3>3
  <2>2. CASE P!LineFound
    <3>1. PICK x : /\ NoEnds(x) /\ Complete(x) /\ m_checked_idx' = x + 2
                   /\ m_read_buf' \in Seq(P!Bytes)
                   /\ Len(m_read_buf') = n
                   /\ \A j \in 1..(x + 2) : m_read_buf'[j] \notin Ends
                   /\ Following'
      BY <1>1, <2>2, LineTaken DEF Sound
    <3>2. x \in c..n /\ x + 2 <= n
      BY <3>1 DEF NoEnds, Complete
    <3>3. x + 2 \in 0..n /\ x + 2 \in 0..(x + 2)
      BY <1>5, <3>2
    <3>4. ReadTypes'
      BY <1>1, <3>1, <3>3 DEF Sound, ReadTypes
    <3>5. line_status # "LINE_OK"
      BY <1>1, <2>2 DEF P!LineFound, P!InBody
    <3>6. cut
      <4> HIDE DEF m, n, c, e
      <4> QED
        BY <1>4, <1>5, <1>6, <1>7, <3>2, <3>5
    <3>7. x + 2 \in Nat /\ x + 2 >= e + 1
      BY <1>4, <1>5, <1>6, <3>2
    <3> QED
      BY <3>1, <3>4, <3>6, <3>7
  <2> QED
    BY <1>1, <2>1, <2>2
<1>9. CASE n >= m_content_length + m_checked_idx'
  <2>1. pc' = "reply" /\ ret' = "GET_REQUEST"
    BY <1>1, <1>9
  <2>2. n >= Len(m)
    BY <1>4, <1>5, <1>6, <1>8, <1>9
  <2>3. Judged'
    BY <1>1, <1>4, <1>8, <2>1, <2>2 DEF Judged, Good, HeadEnd
  <2>4. Parsing' /\ Fresh'
    BY <1>1, <1>2, <2>1 DEF Parsing, Fresh
  <2> QED
    BY <1>8, <2>3, <2>4 DEF Sound
<1>10. CASE ~(n >= m_content_length + m_checked_idx')
  <2>1. pc' = "loop"
    BY <1>1, <1>10
  <2>2. n < CONTENT_LENGTH + m_checked_idx'
    BY <1>4, <1>5, <1>8, <1>10
  <2>3. InContent(m)'
    <3>1. m' = m
      BY <1>1
    <3> HIDE DEF m
    <3> QED
      BY <1>1, <1>4, <1>8, <2>2, <3>1 DEF InContent, Good, HeadEnd
  <2>4. InRequestLine(m)' /\ InHeaders(m)'
    BY <1>1 DEF InRequestLine, InHeaders
  <2>5. Uncut(m)'
    BY <1>1, <1>3, <1>8, <2>1 DEF Uncut, Good, HeadEnd
  <2>6. Parsing' /\ Judged' /\ Fresh'
    BY <1>1, <1>2, <2>1, <2>3, <2>4, <2>5 DEF Parsing, Judged, Fresh
  <2> QED
    BY <1>8, <2>6 DEF Sound
<1> QED
  BY <1>9, <1>10

\* While the reply is sent the parser's state stays.
LEMMA ReplySound ==
    ASSUME Sound, UNCHANGED readVars, pc \in {"reply", "armed", "write"},
           pc' \in {"reply", "armed", "write"}
    PROVE  Sound'
<1>1. UNCHANGED <<asked, todo, cut, m_read_buf, m_checked_idx, m_start_line,
                  m_check_state, m_content_length, m_linger, ret>>
  BY DEF readVars, client, parseVars
<1>2. ReadTypes'
  BY <1>1 DEF Sound, ReadTypes
<1>3. Following'
  <2>1. \A off : Follows(off) => Follows(off)'
    BY <1>1 DEF Follows, Stream, Seen, Total
  <2> QED
    BY <1>1, <2>1 DEF Sound, Following
<1>4. Parsing'
  BY DEF Parsing
<1>5. Judged'
  BY <1>1 DEF Sound, Judged, Good, HeadEnd
<1>6. Fresh'
  BY <1>1 DEF Sound, Fresh
<1> QED
  BY <1>2, <1>3, <1>4, <1>5, <1>6 DEF Sound

\* init, when no byte of a later request is lost: the requests that follow are
\* those that have not arrived at all.
LEMMA NextSound ==
    ASSUME Sound, pc = "write", m_linger, P!init, asked' = Tail(asked),
           todo' = todo, pc' = "wait", ~(Len(m_read_buf) > Len(Head(asked)))
    PROVE  Sound'
<1> DEFINE m == asked[1]
           n == Len(m_read_buf)
           l == Len(asked)
<1>1. /\ m_read_buf' = <<>> /\ m_checked_idx' = 0 /\ m_start_line' = 0
      /\ m_check_state' = "REQUESTLINE" /\ m_content_length' = 0 /\ ~m_linger'
  BY DEF P!init
<1>2. asked # <<>>
  BY DEF Sound, Fresh
<1>3. /\ m \in Messages /\ Head(asked) = m /\ l \in Nat \ {0}
      /\ asked \in Seq(Messages) /\ todo \in Seq(P!Bytes) /\ Len(todo) \in Nat
      /\ n \in Nat
  BY <1>2, HeadHeld DEF Sound, ReadTypes
<1>4. n >= Len(m)
  BY DEF Sound, Judged
<1>5. Len(m) \in Nat /\ n = Len(m)
  BY <1>3, <1>4, ShapeOf
<1>6. /\ asked' \in Seq(Messages) /\ Len(asked') = l - 1
      /\ \A i \in 1..(l - 1) : asked'[i] = asked[i + 1]
  BY <1>2, <1>3
<1>7. ReadTypes'
  <2>1. <<>> \in Seq(P!Bytes) /\ Len(<<>>) = 0
    OBVIOUS
  <2>2. 0 \in 0..0 /\ \A j \in 1..0 : FALSE
    OBVIOUS
  <2> QED
    BY <1>1, <1>3, <1>6, <2>1, <2>2 DEF ReadTypes
<1>8. Total' = Len(todo) /\ Total = n + Len(todo)
  BY <1>1, <1>3 DEF Total
<1>9. \A j \in 1..Len(todo) : Stream(j)' = Stream(n + j)
  <2> SUFFICES ASSUME NEW j \in 1..Len(todo) PROVE Stream(j)' = Stream(n + j)
    OBVIOUS
  <2>1. ~(j <= 0) /\ ~(n + j <= n) /\ (n + j) - n = j /\ j - 0 = j
    BY <1>3
  <2>2. Stream(n + j) = todo[j]
    BY <2>1 DEF Stream
  <2>3. Len(m_read_buf') = 0
    BY <1>1
  <2>4. Stream(j)' = todo[j]
    BY <2>1, <2>3 DEF Stream
  <2> QED
    BY <2>2, <2>4
<1>10. Following'
  <2>1. PICK off \in [1..(l + 1) -> Nat] : Follows(off)
    BY DEF Sound, Following
  <2>2. \A i \in 1..l : /\ off[i] \in Nat /\ off[i + 1] \in Nat
                        /\ off[i + 1] = off[i] + Len(asked[i]) /\ off[i + 1] <= Total
    <3>1. \A i \in 1..l : i \in 1..(l + 1) /\ i + 1 \in 1..(l + 1)
      BY <1>3
    <3>2. \A i \in 1..l : off[i] \in Nat /\ off[i + 1] \in Nat
      BY <2>1, <3>1
    <3> QED
      BY <2>1, <3>2 DEF Follows
  <2>3. \A i \in 2..(l + 1) : off[i] >= n
    <3> DEFINE Bad == {i \in 2..(l + 1) : off[i] < n}
    <3> SUFFICES ASSUME Bad # {} PROVE FALSE
      BY <1>3, <2>1
    <3>1. Bad \subseteq Nat
      BY <1>3
    <3> HIDE DEF Bad
    <3>2. PICK i \in Bad : \A y \in Bad : i <= y
      BY <3>1, Least
    <3>3. i \in 2..(l + 1) /\ off[i] < n
      BY <3>2 DEF Bad
    <3>4. i - 1 \in 1..l /\ (i - 1) + 1 = i
      BY <1>3, <3>3
    <3>5. off[i] = off[i - 1] + Len(asked[i - 1]) /\ off[i - 1] \in Nat
      BY <2>2, <3>4
    <3>6. asked[i - 1] \in Messages
      BY <1>3, <3>4
    <3>7. Len(asked[i - 1]) \in Nat
      BY <3>6, ShapeOf
    <3>8. CASE i = 2
      <4>1. off[1] = 0 /\ i - 1 = 1
        BY <2>1, <3>8 DEF Follows
      <4> QED
        BY <1>5, <3>3, <3>5, <3>7, <4>1
    <3>9. CASE i # 2
      <4>1. i - 1 \in 2..(l + 1) /\ i - 1 < i
        BY <1>3, <3>3, <3>9
      <4>2. i - 1 \notin Bad
        BY <1>3, <3>2, <3>3, <4>1
      <4>3. off[i - 1] >= n
        BY <1>3, <3>5, <4>1, <4>2 DEF Bad
      <4> QED
        BY <1>3, <3>3, <3>5, <3>7, <4>3
    <3> QED
      BY <3>8, <3>9
  <2>4. PICK off2 \in [1..l -> Nat] : \A i \in 1..l : off2[i] = off[i + 1] - n
    <3>1. \A i \in 1..l : off[i + 1] - n \in Nat
      <4> SUFFICES ASSUME NEW i \in 1..l PROVE off[i + 1] - n \in Nat
        OBVIOUS
      <4>1. i + 1 \in 2..(l + 1)
        BY <1>3
      <4>2. off[i + 1] >= n /\ off[i + 1] \in Nat
        BY <2>2, <2>3, <4>1
      <4> QED
        BY <1>3, <4>2
    <3>2. LET g == [i \in 1..l |-> off[i + 1] - n]
          IN  g \in [1..l -> Nat] /\ \A i \in 1..l : g[i] = off[i + 1] - n
      BY <3>1
    <3> QED
      BY <3>2
  <2>5. off2[1] = 0
    <3>1. 1 \in 1..l
      BY <1>3
    <3>2. off[1 + 1] = off[1] + Len(asked[1]) /\ off[1] = 0
      BY <2>1, <3>1 DEF Follows
    <3>3. off2[1] = off[1 + 1] - n
      BY <2>4, <3>1
    <3> QED
      BY <1>5, <3>2, <3>3
  <2>6. off2[Len(asked') + 1] = Total' /\ off2 \in [1..(Len(asked') + 1) -> Nat]
    <3>1. Len(asked') + 1 = l /\ l \in 1..l
      BY <1>3, <1>6
    <3>2. off2[l] = off[l + 1] - n /\ off[l + 1] = Total
      BY <2>1, <2>4, <3>1 DEF Follows
    <3>3. off2[l] = Len(todo)
      BY <1>3, <1>8, <3>2
    <3> QED
      BY <1>8, <2>4, <3>1, <3>3
  <2>7. ASSUME NEW i \in 1..Len(asked')
        PROVE  /\ off2[i + 1] = off2[i] + Len(asked'[i]) /\ off2[i + 1] <= Total'
               /\ \A k \in 1..Len(asked'[i]) :
                     Stream(off2[i] + k)' = Seen(asked[i][k], off2[i] + k)'
    <3>1. i \in 1..(l - 1) /\ i \in 1..l /\ i + 1 \in 1..l
      BY <1>3, <1>6
    <3>2. asked'[i] = asked[i + 1] /\ asked[i + 1] \in Messages
      BY <1>3, <1>6, <3>1
    <3>3. Len(asked[i + 1]) \in Nat
      BY <3>2, ShapeOf
    <3>4. /\ off2[i] = off[i + 1] - n /\ off2[i + 1] = off[(i + 1) + 1] - n
          /\ off2[i] \in Nat /\ off[i + 1] \in Nat
      BY <2>2, <2>4, <3>1
    <3>5. /\ off[(i + 1) + 1] = off[i + 1] + Len(asked[i + 1])
          /\ off[(i + 1) + 1] <= Total
      BY <2>2, <3>1
    <3>6. off2[i + 1] = off2[i] + Len(asked[i + 1]) /\ off2[i + 1] <= Len(todo)
      <4>1. \A a, b, d, q, t \in Nat :
               a = b + q /\ a <= d + t => a - d = (b - d) + q /\ a - d <= t
        OBVIOUS
      <4> DEFINE a == off[(i + 1) + 1]
                 b == off[i + 1]
                 q == Len(asked[i + 1])
                 t == Len(todo)
      <4>2. /\ a \in Nat /\ b \in Nat /\ n \in Nat /\ q \in Nat /\ t \in Nat
            /\ a = b + q /\ a <= Total
        BY <1>3, <2>2, <3>1, <3>3, <3>4, <3>5
      <4>3. a <= n + t
        BY <1>8, <4>2
      <4> HIDE DEF a, b, q, t, n
      <4>4. a - n = (b - n) + q /\ a - n <= t
        BY <4>1, <4>2, <4>3
      <4> QED
        BY <3>4, <4>4 DEF a, b, q, t, n
    <3>7. ASSUME NEW k \in 1..Len(asked[i + 1])
          PROVE  Stream(off2[i] + k)' = Seen(asked[i][k], off2[i] + k)'
      <4>1. /\ off2[i] + k \in 1..Len(todo) /\ n + (off2[i] + k) = off[i + 1] + k
            /\ ~(off2[i] + k <= 0)
        <5>1. off2[i] + Len(asked[i + 1]) <= Len(todo)
          BY <3>6
        <5>2. off2[i] + k \in 1..Len(todo) /\ ~(off2[i] + k <= 0)
          <6>1. k \in 1..Len(asked[i + 1]) /\ Len(todo) \in Nat
            BY <1>3
          <6> QED
            BY <3>3, <3>4, <5>1, <6>1, Inside, Zenon
        <5>3. n + (off2[i] + k) = off[i + 1] + k
          <6> HIDE DEF n
          <6>1. n \in Nat /\ k \in Nat
            BY <1>3, <3>3 DEF n
          <6> QED
            BY <3>4, <6>1
        <5> QED
          BY <5>2, <5>3
      <4>2. Stream(off2[i] + k)' = Stream(n + (off2[i] + k))
        BY <1>9, <4>1
      <4>3. Stream(off[i + 1] + k) = Seen(asked[i + 1][k], off[i + 1] + k)
        BY <2>1, <3>1 DEF Follows
      <4>4. ~(off[i + 1] + k <= m_checked_idx)
        <5>1. m_checked_idx \in 0..n
          BY DEF Sound, ReadTypes
        <5> QED
          BY <1>3, <3>3, <3>4, <5>1
      <4>5. Seen(asked[i + 1][k], off[i + 1] + k) = asked[i + 1][k]
        BY <4>4 DEF Seen
      <4>6. Seen(asked[i][k], off2[i] + k)' = asked'[i][k]
        BY <1>1, <4>1 DEF Seen
      <4> QED
        BY <3>2, <4>1, <4>2, <4>3, <4>5, <4>6
    <3> QED
      BY <1>8, <3>2, <3>6, <3>7
  <2>8. Follows(off2)'
    BY <2>5, <2>6, <2>7 DEF Follows
  <2> QED
    BY <2>6, <2>8 DEF Following
<1>11. Parsing'
  <2>1. ASSUME asked' # <<>> PROVE asked'[1] \in Messages
    BY <1>6, <2>1
  <2> QED
    BY <1>1, <2>1, Ready DEF Parsing
<1>12. Judged' /\ Fresh'
  BY <1>1 DEF Judged, Fresh
<1> QED
  BY <1>7, <1>10, <1>11, <1>12 DEF Sound

\* A connection begins with nothing asked and an empty buffer.
Begun ==
    /\ asked = <<>> /\ todo = <<>> /\ m_read_buf = <<>> /\ m_checked_idx = 0
    /\ m_start_line = 0 /\ m_check_state = "REQUESTLINE"
    /\ m_content_length = 0 /\ ~m_linger /\ pc = "wait"

LEMMA SoundInitially == Begun => Sound
<1> SUFFICES ASSUME Begun PROVE Sound
  OBVIOUS
<1> USE DEF Begun
<1>1. /\ Len(asked) = 0 /\ Len(todo) = 0 /\ Len(m_read_buf) = 0
      /\ asked \in Seq(Messages) /\ todo \in Seq(P!Bytes)
      /\ m_read_buf \in Seq(P!Bytes)
  OBVIOUS
<1>2. 0 \in 0..0 /\ \A j \in 1..0 : FALSE
  OBVIOUS
<1>3. ReadTypes
  BY <1>1, <1>2 DEF ReadTypes
<1>4. Following
  <2>1. PICK off \in [1..1 -> Nat] : off[1] = 0
    <3>1. LET g == [i \in 1..1 |-> 0] IN g \in [1..1 -> Nat] /\ g[1] = 0
      OBVIOUS
    <3> QED
      BY <3>1
  <2>2. Total = 0 /\ Len(asked) + 1 = 1
    BY <1>1 DEF Total
  <2>3. Follows(off)
    BY <1>1, <1>2, <2>1, <2>2 DEF Follows
  <2> QED
    BY <2>1, <2>2, <2>3 DEF Following
<1>5. Parsing /\ Judged /\ Fresh
  BY DEF Parsing, Judged, Fresh
<1> QED
  BY <1>3, <1>4, <1>5 DEF Sound

LEMMA ParserInitially == Init => ParserInv
<1> SUFFICES ASSUME Init PROVE Sound
  BY DEF ParserInv
<1>1. Begun
  BY DEF Init, P!Init, Begun
<1> QED
  BY <1>1, SoundInitially

\* Every step of GetConn, but for a new connection, on a connection that is open
\* and on which nothing was lost.
LEMMA SoundStep ==
    ASSUME Sound, ~lost, pc # "closed", Next, ~init
    PROVE  ParserInv'
<1>1. ASSUME NEW m \in Messages, Ask(m) PROVE ParserInv'
  BY <1>1, AskSound DEF Ask, ParserInv
<1>2. ASSUME NEW k \in 1..Len(todo), read(k) PROVE ParserInv'
  <2>1. P!read_once(k)
    BY <1>2 DEF read
  <2>2. CASE P!NoRoom(k)
    BY <2>1, <2>2 DEF P!read_once, ParserInv
  <2>3. CASE ~P!NoRoom(k)
    BY <2>1, <2>3, ReadSound DEF ParserInv
  <2> QED
    BY <2>2, <2>3
<1>3. ASSUME process_read PROVE ParserInv'
  BY <1>3, StopsSound, RequestLineSound, HeaderSound, ContentSound
  DEF process_read, parse_line, parse_request_line, parse_headers, parse_content,
      ParserInv
<1>4. ASSUME NEW h \in Headers, NEW f \in Files, ReplyError(h, f) \/ ReplyFile(h, f)
      PROVE  ParserInv'
  <2>1. pc = "reply" /\ pc' = "armed" /\ UNCHANGED readVars
    BY <1>4 DEF ReplyError, ReplyFile, process_write
  <2> QED
    BY <2>1, ReplySound DEF ParserInv
<1>5. ASSUME NEW h \in Headers, ReplyEmptyFile(h) PROVE ParserInv'
  BY <1>5 DEF ReplyEmptyFile, ParserInv
<1>6. ASSUME write \/ WriteBlocks PROVE ParserInv'
  <2>1. /\ pc \in {"armed", "write"} /\ pc' \in {"armed", "write"}
        /\ UNCHANGED readVars
    BY <1>6 DEF write, WriteBlocks
  <2> QED
    BY <2>1, ReplySound DEF ParserInv
<1>7. ASSUME NEW n \in 1..Longest, writev(n) PROVE ParserInv'
  <2>1. pc = "write" /\ UNCHANGED <<readVars, pc>>
    BY <1>7 DEF writev, Sends
  <2> QED
    BY <2>1, ReplySound DEF ParserInv
<1>8. ASSUME NEW n \in 1..Longest, WriteDone(n) PROVE ParserInv'
  <2>1. pc = "write"
    BY <1>8 DEF WriteDone, Sends
  <2>2. CASE m_linger
    <3>1. /\ P!init /\ asked' = Tail(asked) /\ todo' = todo /\ pc' = "wait"
          /\ lost' = (lost \/ Len(m_read_buf) > Len(Head(asked)))
      BY <1>8, <2>2 DEF WriteDone
    <3> QED
      BY <2>1, <2>2, <3>1, NextSound DEF ParserInv
  <2>3. CASE ~m_linger
    BY <1>8, <2>3 DEF WriteDone, ParserInv
  <2> QED
    BY <2>2, <2>3
<1>9. ASSUME WriteFails \/ Hangup PROVE ParserInv'
  BY <1>9 DEF WriteFails, Hangup, ParserInv
<1> QED
  BY <1>1, <1>2, <1>3, <1>4, <1>5, <1>6, <1>7, <1>8, <1>9 DEF Next

\* What is lost stays lost until the connection ends, and a connection that is
\* closed stays so, but for a new one.
LEMMA LostOrClosed ==
    ASSUME lost \/ pc = "closed", Next, ~init
    PROVE  lost' \/ pc' = "closed"
<1>1. ASSUME NEW m \in Messages, Ask(m) PROVE lost' \/ pc' = "closed"
  BY <1>1 DEF Ask, P!Ask
<1>2. ASSUME NEW k \in 1..Len(todo), read(k) PROVE lost' \/ pc' = "closed"
  BY <1>2 DEF read, P!read_once
<1>3. ASSUME process_read PROVE lost' \/ pc' = "closed"
  <2>1. pc = "loop" /\ UNCHANGED P!client
    BY <1>3 DEF process_read, parse_line, parse_request_line, parse_headers,
                parse_content, P!ParseStops, P!ParseRequestLine, P!ParseHeader,
                P!ParseContent, P!HasLine, P!LineFound
  <2> QED
    BY <2>1 DEF P!client
<1>4. ASSUME NEW h \in Headers, NEW f \in Files, ReplyError(h, f) \/ ReplyFile(h, f)
      PROVE  lost' \/ pc' = "closed"
  BY <1>4 DEF ReplyError, ReplyFile, process_write, readVars, client
<1>5. ASSUME NEW h \in Headers, ReplyEmptyFile(h) PROVE lost' \/ pc' = "closed"
  BY <1>5 DEF ReplyEmptyFile
<1>6. ASSUME write \/ WriteBlocks \/ WriteFails \/ Hangup
      PROVE  lost' \/ pc' = "closed"
  BY <1>6 DEF write, WriteBlocks, WriteFails, Hangup, readVars, client
<1>7. ASSUME NEW n \in 1..Longest, writev(n) \/ WriteDone(n)
      PROVE  lost' \/ pc' = "closed"
  BY <1>7 DEF writev, WriteDone, Sends, readVars, client
<1> QED
  BY <1>1, <1>2, <1>3, <1>4, <1>5, <1>6, <1>7 DEF Next

LEMMA ParserStep == ParserInv /\ [Next]_vars => ParserInv'
<1> SUFFICES ASSUME ParserInv, [Next]_vars PROVE ParserInv'
  OBVIOUS
<1>1. CASE Next /\ ~init
  <2>1. CASE lost \/ pc = "closed"
    BY <1>1, <2>1, LostOrClosed DEF ParserInv
  <2>2. CASE ~lost /\ pc # "closed"
    BY <1>1, <2>2, SoundStep DEF ParserInv
  <2> QED
    BY <2>1, <2>2
<1>2. CASE init
  <2>1. Begun'
    BY <1>2 DEF init, P!init, Begun
  <2>2. Sound'
    BY <2>1, SoundInitially, PTL
  <2> QED
    BY <2>2 DEF ParserInv
<1>3. CASE UNCHANGED vars
  <2>1. UNCHANGED <<asked, todo, cut, lost, m_read_buf, m_checked_idx, m_start_line,
                    m_check_state, m_content_length, m_linger, line_status, pc, ret>>
    BY <1>3 DEF vars, readVars, client, parseVars
  <2>2. \A off : Follows(off) => Follows(off)'
    BY <2>1 DEF Follows, Stream, Seen, Total
  <2>3. Following => Following'
    BY <2>1, <2>2 DEF Following
  <2>4. ReadTypes => ReadTypes'
    BY <2>1 DEF ReadTypes
  <2>5. Parsing => Parsing'
    BY <2>1 DEF Parsing, InRequestLine, InHeaders, InContent, Uncut, Good, HeadEnd
  <2>6. (Judged => Judged') /\ (Fresh => Fresh')
    BY <2>1 DEF Judged, Fresh, Good, HeadEnd
  <2> QED
    BY <2>1, <2>3, <2>4, <2>5, <2>6 DEF ParserInv, Sound
<1> QED
  BY <1>1, <1>2, <1>3

\* The parser's state agrees with the stream of requests, in every state.
THEOREM ParserInvariant == Spec => []ParserInv
  BY ParserInitially, ParserStep, PTL DEF Spec

\* Whatever the requests and however they are cut into segments, also with later
\* ones in the buffer: process_read answers BAD_REQUEST to those with syntax
\* errors only, GET_REQUEST to the others, and not before all of it has arrived.
THEOREM VerdictsRight == Spec => []VerdictRight
<1>1. ParserInv => VerdictRight
  <2> SUFFICES ASSUME Sound, pc = "reply"
               PROVE  /\ ret = IF P!Malformed(Head(asked)) THEN "BAD_REQUEST"
                                                           ELSE "GET_REQUEST"
                      /\ ret = "GET_REQUEST" => P!m_read_idx >= Len(Head(asked))
    BY DEF ParserInv, VerdictRight, P!VerdictRight
  <2>1. asked # <<>>
    BY DEF Sound, Fresh
  <2>2. asked[1] \in Messages /\ Head(asked) = asked[1]
    BY <2>1, HeadHeld DEF Sound
  <2>3. P!Malformed(asked[1]) <=> ~Good(asked[1])
    BY <2>2, GoodOrMalformed
  <2> QED
    BY <2>2, <2>3 DEF Sound, Judged, Good, P!m_read_idx
<1> QED
  BY <1>1, ParserInvariant, PTL

\* "The request is not complete, go on reading": the parser does not wait for more
\* when it has every byte of a good request, unless a segment ended in its body or
\* init threw away its beginning.
THEOREM NeverStalls == Spec => []NoStall
<1>1. ParserInv => NoStall
  <2> SUFFICES ASSUME Sound, ~cut, pc = "wait", asked # <<>>,
                      ~P!Malformed(Head(asked)), todo = <<>>
               PROVE  FALSE
    BY DEF ParserInv, NoStall, P!NoStall, P!AllAnswered
  <2> DEFINE m == asked[1]
  <2>1. /\ m \in Messages /\ Head(asked) = m /\ Len(m) <= Total
    BY HeadHeld DEF Sound
  <2>2. Good(m)
    BY <2>1, GoodOrMalformed
  <2>3. Len(m_read_buf) < Len(m)
    BY <2>2 DEF Sound, Parsing, Uncut
  <2>4. Len(m) \in Nat /\ Len(m_read_buf) \in Nat /\ Len(todo) = 0
    BY <2>1, ShapeOf DEF Sound, ReadTypes
  <2> QED
    BY <2>1, <2>3, <2>4 DEF Total
<1> QED
  BY <1>1, ParserInvariant, PTL

-----------------------------------------------------------------------------
(* The replies.                                                            *)

\* A reply is there to be sent.
Sending == pc \in {"armed", "write"}

\* Types of what the replies are made of.
ReplyTypes ==
    /\ ret \in {"NO_REQUEST", "GET_REQUEST", "BAD_REQUEST"}
    /\ m_write_idx \in Nat /\ file \in Nat /\ st_size \in Nat
    /\ mapped \in Seq(Nat) /\ m_file_address \in -1..Len(mapped)
    /\ dropped \subseteq 1..Len(mapped)

\* Mappings: one that no hang-up has left behind is unmapped, or it is the one
\* of the reply that is being sent; and m_file_address outlives a reply only if
\* a hang-up ended it.
MappingsHeld ==
    /\ \A i \in 1..Len(mapped) : i \in dropped \/ mapped[i] = 0
                                 \/ (Sending /\ i = m_file_address)
    /\ m_file_address > 0 =>
          \/ m_file_address \in dropped
          \/ Sending /\ st_size = mapped[m_file_address]

\* The inductive invariant.
ReplyInv == ReplyTypes /\ MappingsHeld

\* Reading and parsing leave the reply alone and never begin or end one.
LEMMA ReadingApart ==
    ASSUME \/ \E m \in Messages : Ask(m)
           \/ \E k \in 1..Len(todo) : read(k)
           \/ process_read
    PROVE  /\ UNCHANGED writeVars
           /\ \/ pc' = pc
              \/ ~Sending /\ ~Sending'
           /\ ret' \in {ret, "GET_REQUEST", "BAD_REQUEST"}
<1>1. ASSUME NEW m \in Messages, Ask(m) PROVE UNCHANGED <<writeVars, pc, ret>>
  BY <1>1 DEF Ask, P!Ask
<1>2. ASSUME NEW k \in 1..Len(todo), read(k)
      PROVE  UNCHANGED <<writeVars, ret>> /\ ~Sending /\ ~Sending'
  BY <1>2 DEF read, P!read_once, Sending
<1>3. ASSUME process_read
      PROVE  /\ UNCHANGED writeVars /\ ~Sending /\ ~Sending'
             /\ ret' \in {ret, "GET_REQUEST", "BAD_REQUEST"}
  <2>1. /\ UNCHANGED writeVars
        /\ \/ P!ParseStops \/ P!ParseRequestLine \/ P!ParseHeader
           \/ P!ParseContent
    BY <1>3 DEF process_read, parse_line, parse_request_line, parse_headers,
                parse_content
  <2>2. pc = "loop"
    BY <2>1 DEF P!ParseStops, P!ParseRequestLine, P!ParseHeader, P!ParseContent,
                P!HasLine, P!LineFound
  <2>3. /\ pc' \in {"loop", "wait", "reply"}
        /\ ret' \in {ret, "GET_REQUEST", "BAD_REQUEST"}
    BY <2>1, <2>2 DEF P!ParseStops, P!ParseRequestLine, P!ParseHeader,
                P!ParseContent, P!Returns, P!EmptyLine
  <2> QED
    BY <2>1, <2>2, <2>3 DEF Sending
<1> QED
  BY <1>1, <1>2, <1>3

\* The invariant holds in the beginning.
LEMMA ReplyInitially == ASSUME Init PROVE ReplyInv
<1>1. /\ pc = "wait" /\ ret = "NO_REQUEST" /\ m_write_idx = 0 /\ file = 0
      /\ m_file_address = 0 /\ st_size = 0 /\ mapped = <<>> /\ dropped = {}
  BY DEF Init, P!Init
<1>2. ReplyTypes
  BY <1>1 DEF ReplyTypes
<1> QED
  BY <1>1, <1>2 DEF ReplyInv, MappingsHeld, Sending

\* A step that leaves the reply alone preserves the invariant, and so does a
\* change of requests.
LEMMA ReplyKept ==
    ASSUME ReplyInv, UNCHANGED writeVars,
           pc' = pc \/ (~Sending /\ ~Sending'),
           ret' \in {ret, "NO_REQUEST", "GET_REQUEST", "BAD_REQUEST"}
    PROVE  ReplyInv'
<1>1. ReplyTypes'
  BY DEF ReplyInv, ReplyTypes, writeVars, fileVars
<1>2. MappingsHeld'
  BY DEF ReplyInv, MappingsHeld, writeVars, fileVars, Sending
<1> QED
  BY <1>1, <1>2 DEF ReplyInv

\* process_write makes a reply of the header and, for a file, of the file.
LEMMA ReplyMade ==
    ASSUME ReplyInv, NEW h \in Headers, NEW f \in Files,
           ReplyError(h, f) \/ ReplyFile(h, f)
    PROVE  ReplyInv'
<1>1. h \in Nat /\ f \in Nat
  BY GetConnAssumption
<1>2. pc = "reply" /\ ~Sending /\ pc' = "armed" /\ Sending'
  BY DEF ReplyError, ReplyFile, process_write, Sending
<1>3. /\ m_write_idx' = h /\ ret' = ret
      /\ dropped' = dropped
  BY DEF ReplyError, ReplyFile, process_write, readVars
<1>4. ASSUME ReplyError(h, f) PROVE ReplyInv'
  <2>1. /\ file' = 0 /\ UNCHANGED <<m_file_address, mapped>>
        /\ st_size' \in {st_size, f}
    BY <1>4 DEF ReplyError, process_write
  <2>2. ReplyTypes'
    BY <1>1, <1>3, <2>1 DEF ReplyInv, ReplyTypes
  <2>3. MappingsHeld'
    BY <1>2, <1>3, <2>1 DEF ReplyInv, MappingsHeld
  <2> QED
    BY <2>2, <2>3 DEF ReplyInv
<1>5. ASSUME ReplyFile(h, f) PROVE ReplyInv'
  <2>1. /\ file' = f /\ code' = "FILE_REQUEST" /\ st_size' = f
        /\ \/ mapped' = Append(mapped, f) /\ m_file_address' = Len(mapped')
           \/ m_file_address' = -1 /\ mapped' = mapped
    BY <1>5 DEF ReplyFile, process_write
  <2>2. mapped \in Seq(Nat) /\ Len(mapped) \in Nat
    BY DEF ReplyInv, ReplyTypes
  <2>4. \A i \in 1..Len(mapped) : i \in dropped \/ mapped[i] = 0
    BY <1>2 DEF ReplyInv, MappingsHeld
  <2>5. ASSUME mapped' = Append(mapped, f), m_file_address' = Len(mapped')
        PROVE  ReplyTypes' /\ MappingsHeld'
    <3>1. /\ mapped' \in Seq(Nat) /\ Len(mapped') = Len(mapped) + 1
          /\ \A i \in 1..Len(mapped) : mapped'[i] = mapped[i]
          /\ mapped'[Len(mapped')] = f
      BY <1>1, <2>2, <2>5
    <3>2. ReplyTypes'
      BY <1>1, <1>3, <2>1, <2>2, <2>5, <3>1 DEF ReplyInv, ReplyTypes
    <3>3. \A i \in 1..Len(mapped') : i \in dropped' \/ mapped'[i] = 0
                                     \/ (Sending' /\ i = m_file_address')
      BY <1>2, <1>3, <2>2, <2>4, <2>5, <3>1
    <3>4. m_file_address' > 0 => Sending' /\ st_size' = mapped'[m_file_address']
      BY <1>2, <2>1, <2>5, <3>1
    <3> QED
      BY <3>2, <3>3, <3>4 DEF MappingsHeld
  <2>6. ASSUME m_file_address' = -1, mapped' = mapped
        PROVE  ReplyTypes' /\ MappingsHeld'
    <3>1. ReplyTypes'
      BY <1>1, <1>3, <2>1, <2>2, <2>6 DEF ReplyInv, ReplyTypes
    <3> QED
      BY <1>3, <2>4, <2>6, <3>1 DEF MappingsHeld
  <2> QED
    BY <2>1, <2>5, <2>6 DEF ReplyInv
<1> QED
  BY <1>4, <1>5

\* munmap leaves the mapping of the reply empty, unless it is one that a hang-up
\* left behind.
LEMMA Unmapped ==
    ASSUME ReplyInv, Sending, unmap
    PROVE  /\ mapped' \in Seq(Nat) /\ Len(mapped') = Len(mapped)
           /\ m_file_address' = 0 /\ UNCHANGED <<st_size, dropped>>
           /\ \A i \in 1..Len(mapped') : i \in dropped \/ mapped'[i] = 0
<1> DEFINE a == m_file_address
           rest == IF st_size < mapped[a] THEN mapped[a] - st_size ELSE 0
<1>1. /\ mapped \in Seq(Nat) /\ Len(mapped) \in Nat /\ a \in -1..Len(mapped)
      /\ st_size \in Nat
  BY DEF ReplyInv, ReplyTypes
<1>2. m_file_address' = 0 /\ UNCHANGED <<st_size, dropped>>
  BY DEF unmap
<1>3. CASE a > 0
  <2>1. /\ mapped' = [mapped EXCEPT ![a] = rest] /\ a \in 1..Len(mapped)
    BY <1>1, <1>3 DEF unmap
  <2>2. rest \in Nat
    <3>1. mapped[a] \in Nat
      BY <1>1, <2>1
    <3> QED
      BY <1>1, <3>1
  <2>3. a \in dropped \/ rest = 0
    <3>1. mapped[a] \in Nat
      BY <1>1, <2>1
    <3>2. a \in dropped \/ st_size = mapped[a]
      BY <1>3 DEF ReplyInv, MappingsHeld
    <3> QED
      BY <1>1, <3>1, <3>2
  <2> HIDE DEF rest
  <2>4. mapped' \in Seq(Nat) /\ Len(mapped') = Len(mapped)
    BY <1>1, <2>1, <2>2
  <2>5. \A i \in 1..Len(mapped) : mapped'[i] = IF i = a THEN rest ELSE mapped[i]
    BY <1>1, <2>1
  <2>6. \A i \in 1..Len(mapped) : i \in dropped \/ mapped[i] = 0 \/ i = a
    BY DEF ReplyInv, MappingsHeld
  <2> QED
    BY <1>2, <2>3, <2>4, <2>5, <2>6
<1>4. CASE ~(a > 0)
  <2>1. mapped' = mapped
    BY <1>4 DEF unmap
  <2>2. \A i \in 1..Len(mapped) : i \in dropped \/ mapped[i] = 0 \/ i = a
    BY DEF ReplyInv, MappingsHeld
  <2> QED
    BY <1>1, <1>2, <1>4, <2>1, <2>2
<1> QED
  BY <1>3, <1>4

\* A reply that has ended, with its mapping gone.
LEMMA ReplyOver ==
    ASSUME ReplyInv, Sending, unmap, ~Sending', m_write_idx' \in {0, m_write_idx},
           file' = file, ret' \in {ret, "NO_REQUEST"}
    PROVE  ReplyInv'
<1>1. ReplyTypes'
  <2>1. /\ mapped' \in Seq(Nat) /\ Len(mapped') = Len(mapped)
        /\ m_file_address' = 0 /\ UNCHANGED <<st_size, dropped>>
    BY Unmapped
  <2>2. /\ ret \in {"NO_REQUEST", "GET_REQUEST", "BAD_REQUEST"}
        /\ m_write_idx \in Nat /\ file \in Nat /\ st_size \in Nat
        /\ dropped \subseteq 1..Len(mapped) /\ Len(mapped) \in Nat
    BY DEF ReplyInv, ReplyTypes
  <2> QED
    BY <2>1, <2>2 DEF ReplyTypes
<1>2. MappingsHeld'
  BY Unmapped DEF MappingsHeld
<1> QED
  BY <1>1, <1>2 DEF ReplyInv

\* Every step preserves the invariant.
LEMMA ReplyStep == ASSUME ReplyInv, [Next]_vars PROVE ReplyInv'
<1>1. ASSUME \/ \E m \in Messages : Ask(m)
             \/ \E k \in 1..Len(todo) : read(k)
             \/ process_read
      PROVE  ReplyInv'
  <2>1. /\ UNCHANGED writeVars
        /\ pc' = pc \/ (~Sending /\ ~Sending')
        /\ ret' \in {ret, "GET_REQUEST", "BAD_REQUEST"}
    BY <1>1, ReadingApart
  <2> QED
    BY <2>1, ReplyKept
<1>2. ASSUME NEW h \in Headers, NEW f \in Files,
             ReplyError(h, f) \/ ReplyFile(h, f)
      PROVE  ReplyInv'
  BY <1>2, ReplyMade
<1>3. ASSUME NEW h \in Headers, ReplyEmptyFile(h) PROVE ReplyInv'
  <2>1. /\ pc = "reply" /\ pc' = "closed" /\ m_write_idx' = h
        /\ st_size' = 0 /\ m_file_address' = -1 /\ ret' = ret
        /\ UNCHANGED <<file, mapped, dropped>>
    BY <1>3 DEF ReplyEmptyFile, readVars
  <2>2. h \in Nat
    BY GetConnAssumption
  <2>3. ReplyTypes'
    BY <2>1, <2>2 DEF ReplyInv, ReplyTypes
  <2>4. MappingsHeld'
    BY <2>1 DEF ReplyInv, MappingsHeld, Sending
  <2> QED
    BY <2>3, <2>4 DEF ReplyInv
<1>4. ASSUME write \/ WriteBlocks \/ \E n \in 1..Longest : writev(n) PROVE ReplyInv'
  <2>1. /\ Sending /\ Sending' /\ ret' = ret
        /\ UNCHANGED <<m_write_idx, file, fileVars>>
    BY <1>4 DEF write, WriteBlocks, writev, Sends, Sending, readVars
  <2>2. ReplyTypes'
    BY <2>1 DEF ReplyInv, ReplyTypes, fileVars
  <2>3. MappingsHeld'
    BY <2>1 DEF ReplyInv, MappingsHeld, fileVars
  <2> QED
    BY <2>2, <2>3 DEF ReplyInv
<1>5. ASSUME WriteFails \/ \E n \in 1..Longest : WriteDone(n) PROVE ReplyInv'
  <2>1. /\ Sending /\ ~Sending' /\ unmap /\ file' = file
        /\ m_write_idx' \in {0, m_write_idx} /\ ret' \in {ret, "NO_REQUEST"}
    BY <1>5 DEF WriteFails, WriteDone, Sends, Sending, readVars
  <2> QED
    BY <2>1, ReplyOver
<1>6. CASE Hangup
  <2>1. /\ pc \in {"wait", "armed"} /\ ~Sending' /\ ret' = ret
        /\ dropped' = IF pc = "armed" /\ m_file_address > 0
                      THEN dropped \cup {m_file_address} ELSE dropped
        /\ UNCHANGED <<m_write_idx, file, m_file_address, st_size, mapped>>
    BY <1>6 DEF Hangup, Sending, readVars
  <2>2. ReplyTypes'
    BY <2>1 DEF ReplyInv, ReplyTypes
  <2>4. MappingsHeld'
    BY <2>1 DEF ReplyInv, ReplyTypes, MappingsHeld, Sending
  <2> QED
    BY <2>2, <2>4 DEF ReplyInv
<1>7. CASE init
  <2>1. /\ ~Sending /\ ~Sending' /\ m_write_idx' = 0
        /\ ret' = "NO_REQUEST" /\ UNCHANGED <<file, fileVars>>
    BY <1>7 DEF init, Sending
  <2>2. ReplyTypes'
    BY <2>1 DEF ReplyInv, ReplyTypes, fileVars
  <2>4. MappingsHeld'
    BY <2>1 DEF ReplyInv, MappingsHeld, fileVars
  <2> QED
    BY <2>2, <2>4 DEF ReplyInv
<1>8. CASE UNCHANGED vars
  BY <1>8, ReplyKept DEF vars, readVars
<1> QED
  BY <1>1, <1>2, <1>3, <1>4, <1>5, <1>6, <1>7, <1>8 DEF Next

\* The parts of the invariant hold throughout.
THEOREM ReplyInvariant == Spec => []ReplyInv
<1>1. Init => ReplyInv
  BY ReplyInitially
<1>2. ReplyInv /\ [Next]_vars => ReplyInv'
  BY ReplyStep
<1> QED
  BY <1>1, <1>2, PTL DEF Spec

\* Whatever the files, the hang-ups and the errors: a file that is mapped is
\* unmapped, with its own size, when its reply is over (unmap in http_conn.cpp),
\* but for replies that a hang-up ended.
THEOREM MappingsEnd == Spec => []MappingLife
<1>1. ReplyInv => MappingLife
  <2> SUFFICES ASSUME ReplyInv PROVE MappingLife
    OBVIOUS
  <2>1. DOMAIN mapped = 1..Len(mapped)
    BY DEF ReplyInv, ReplyTypes
  <2> QED
    BY <2>1 DEF ReplyInv, MappingsHeld, MappingLife, Sending
<1> QED
  BY <1>1, ReplyInvariant, PTL
=============================================================================
