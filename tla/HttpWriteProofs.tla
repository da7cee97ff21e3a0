-------------------------- MODULE HttpWriteProofs --------------------------
(***************************************************************************)
(* Proofs about HttpWrite, for headers and files of any length, any number *)
(* of requests and connections on one object, and any way in which writev  *)
(* cuts a reply up: a file's mapping lives as long as it is needed and no  *)
(* longer; and exactly the reply is sent, unless its header was cut twice. *)
(***************************************************************************)
EXTENDS HttpWrite, SequenceTheorems, TLAPS

\* A reply is being sent, and it has a file.
Sending == pc \in {"armed", "write"}
SendingFile == Sending /\ kind = "FILE_REQUEST"

\* The types of what the mappings depend on.
MapTypes ==
    /\ pc \in {"idle", "armed", "write", "closed"}
    /\ mapped \in Seq(Nat) /\ dropped \subseteq DOMAIN mapped
    /\ st_size \in Nat /\ m_file_address \in Int

\* The mapping of the reply that is being sent is the last one, whole, or
\* MAP_FAILED, and no close has dropped it.
LastMapped ==
    /\ Sending => mapped # <<>> /\ Len(mapped) \notin dropped
    /\ SendingFile =>
          \/ m_file_address = Len(mapped) /\ mapped[Len(mapped)] = st_size
          \/ m_file_address = -1 /\ mapped[Len(mapped)] = 0

\* m_file_address is that mapping, or none, or a mapping that main's close of
\* an earlier connection has left behind: unmap takes no other.
PointsAtLeftover == m_file_address > 0 /\ ~SendingFile => m_file_address \in dropped

\* All other mappings are gone.
OthersUnmapped ==
    \A i \in DOMAIN mapped \ dropped :
        mapped[i] = 0 \/ (SendingFile /\ i = Len(mapped))

\* The inductive invariant for the mappings.
MapInv == MapTypes /\ LastMapped /\ PointsAtLeftover /\ OthersUnmapped

\* What Append does to the mappings, which are numbered from 1.
LEMMA NewMapping ==
    ASSUME mapped \in Seq(Nat), NEW f \in Nat, mapped' = Append(mapped, f)
    PROVE  /\ mapped' \in Seq(Nat) /\ mapped' # <<>>
           /\ Len(mapped) \in Nat /\ Len(mapped') = Len(mapped) + 1
           /\ DOMAIN mapped = 1 .. Len(mapped)
           /\ DOMAIN mapped' = 1 .. Len(mapped) + 1
           /\ mapped'[Len(mapped) + 1] = f
           /\ \A i \in 1 .. Len(mapped) : mapped'[i] = mapped[i]
BY AppendProperties, LenProperties

\* Request starts a reply with one more mapping, which is empty without a file.
LEMMA MapReply ==
    ASSUME MapInv, pc = "idle", NEW f \in Nat, mapped' = Append(mapped, f),
           pc' \in {"armed", "closed"}, UNCHANGED dropped, st_size' \in Nat,
           \/ /\ pc' = "armed" /\ kind' = "FILE_REQUEST"
              /\ m_file_address' = Len(mapped') /\ st_size' = f
           \/ m_file_address' = -1 /\ f = 0
           \/ /\ ~(pc' = "armed" /\ kind' = "FILE_REQUEST")
              /\ f = 0 /\ m_file_address' = m_file_address
    PROVE  MapInv'
<1>0. /\ mapped \in Seq(Nat) /\ dropped \subseteq DOMAIN mapped
      /\ m_file_address \in Int /\ ~SendingFile /\ ~Sending
  BY DEF MapInv, MapTypes, SendingFile, Sending
<1>1. /\ mapped' \in Seq(Nat) /\ mapped' # <<>>
      /\ Len(mapped) \in Nat /\ Len(mapped') = Len(mapped) + 1
      /\ DOMAIN mapped = 1 .. Len(mapped)
      /\ DOMAIN mapped' = 1 .. Len(mapped) + 1
      /\ mapped'[Len(mapped) + 1] = f
      /\ \A i \in 1 .. Len(mapped) : mapped'[i] = mapped[i]
  BY <1>0, NewMapping
<1>2. dropped' \subseteq 1 .. Len(mapped) /\ Len(mapped') \notin dropped'
  BY <1>0, <1>1
<1>3. MapTypes'
  BY <1>0, <1>1, <1>2 DEF MapTypes
<1>4. LastMapped'
  BY <1>1, <1>2 DEF LastMapped, Sending, SendingFile
<1>5. PointsAtLeftover'
  BY <1>0, <1>1 DEF MapInv, PointsAtLeftover, Sending, SendingFile
<1>6. OthersUnmapped'
  <2> SUFFICES ASSUME NEW i \in DOMAIN mapped' \ dropped
               PROVE  mapped'[i] = 0 \/ (SendingFile' /\ i = Len(mapped'))
    BY DEF OthersUnmapped
  <2>1. CASE i \in 1 .. Len(mapped)
    BY <1>0, <1>1, <2>1 DEF MapInv, OthersUnmapped
  <2>2. CASE i = Len(mapped) + 1
    BY <1>1, <2>2 DEF Sending, SendingFile
  <2> QED
    BY <1>1, <2>1, <2>2
<1> QED
  BY <1>3, <1>4, <1>5, <1>6 DEF MapInv

\* unmap, when the reply is over.
LEMMA MapUnmap ==
    ASSUME MapInv, pc = "write", unmap, pc' \in {"idle", "closed"} PROVE MapInv'
<1>0. /\ mapped \in Seq(Nat) /\ dropped \subseteq DOMAIN mapped
      /\ m_file_address \in Int /\ st_size \in Nat /\ Sending
      /\ DOMAIN mapped = 1 .. Len(mapped) /\ Len(mapped) \in Nat
  BY LenProperties DEF MapInv, MapTypes, Sending
<1>n. Len(mapped) > 0
  <2>1. mapped # <<>>
    BY <1>0 DEF MapInv, LastMapped
  <2> QED
    BY <1>0, <2>1, EmptySeq
<1>1. /\ mapped' \in Seq(Nat) /\ Len(mapped') = Len(mapped)
      /\ DOMAIN mapped' = DOMAIN mapped
      /\ \A i \in DOMAIN mapped : i # m_file_address => mapped'[i] = mapped[i]
      /\ SendingFile => m_file_address = -1 \/ mapped'[m_file_address] = 0
  <2>1. CASE m_file_address > 0
    <3>0. SendingFile => /\ m_file_address = Len(mapped)
                         /\ mapped[Len(mapped)] = st_size
      <4>1. m_file_address # -1
        BY <1>0, <2>1
      <4> QED
        BY <4>1 DEF MapInv, LastMapped
    <3>1. m_file_address \in DOMAIN mapped
      <4>1. CASE SendingFile
        BY <1>0, <1>n, <3>0, <4>1
      <4>2. CASE ~SendingFile
        BY <1>0, <2>1, <4>2 DEF MapInv, PointsAtLeftover
      <4> QED
        BY <4>1, <4>2
    <3> DEFINE left == IF st_size < mapped[m_file_address]
                       THEN mapped[m_file_address] - st_size ELSE 0
    <3>2. mapped' = [mapped EXCEPT ![m_file_address] = left]
      BY <2>1 DEF unmap
    <3>3. left \in Nat
      BY <1>0, <3>1, ElementOfSeq
    <3>4. SendingFile => left = 0
      BY <1>0, <3>0
    <3> HIDE DEF left
    <3>5. mapped' \in Seq(Nat) /\ Len(mapped') = Len(mapped)
      BY <1>0, <3>1, <3>2, <3>3, ExceptSeq
    <3> QED
      BY <1>0, <3>1, <3>2, <3>4, <3>5
  <2>2. CASE ~(m_file_address > 0)
    <3>1. SendingFile => m_file_address = -1
      BY <1>0, <1>n, <2>2 DEF MapInv, LastMapped
    <3> QED
      BY <1>0, <2>2, <3>1 DEF unmap
  <2> QED
    BY <2>1, <2>2
<1>2. MapTypes'
  BY <1>0, <1>1 DEF MapTypes, unmap
<1>3. LastMapped' /\ PointsAtLeftover'
  BY DEF LastMapped, PointsAtLeftover, Sending, SendingFile, unmap
<1>4. OthersUnmapped'
  <2> SUFFICES ASSUME NEW i \in DOMAIN mapped \ dropped PROVE mapped'[i] = 0
    BY <1>1 DEF OthersUnmapped, unmap
  <2>1. CASE SendingFile /\ i = m_file_address
    BY <1>0, <1>1, <2>1
  <2>2. CASE SendingFile /\ i # m_file_address
    <3>1. mapped[i] = 0
      BY <2>2 DEF MapInv, OthersUnmapped, LastMapped
    <3> QED
      BY <1>1, <2>2, <3>1
  <2>3. CASE ~SendingFile
    <3>1. i # m_file_address
      BY <1>0, <2>3 DEF MapInv, PointsAtLeftover
    <3> QED
      BY <1>1, <2>3, <3>1 DEF MapInv, OthersUnmapped
  <2> QED
    BY <2>1, <2>2, <2>3
<1> QED
  BY <1>2, <1>3, <1>4 DEF MapInv

\* The invariant holds at the start.
LEMMA MapInitially == ASSUME Init PROVE MapInv
<1>1. mapped \in Seq(Nat)
  BY DEF Init
<1>2. dropped = {} /\ DOMAIN mapped = {} /\ m_file_address = 0 /\ ~Sending
  BY DEF Init, Sending
<1> QED
  BY <1>1, <1>2 DEF Init, MapInv, MapTypes, LastMapped, PointsAtLeftover,
                    OthersUnmapped, SendingFile

\* Every step keeps it.
LEMMA MapInductive == ASSUME MapInv, [Next]_vars PROVE MapInv'
<1> USE HttpWriteAssumption DEF fileVars, sendVars
<1>t. /\ mapped \in Seq(Nat) /\ dropped \subseteq DOMAIN mapped
      /\ st_size \in Nat /\ m_file_address \in Int
  BY DEF MapInv, MapTypes
<1>1. ASSUME NEW h \in Headers, NEW f \in Files, ReplyFile(h, f) PROVE MapInv'
  <2>1. /\ f \in Nat /\ pc = "idle" /\ pc' = "armed" /\ kind' = "FILE_REQUEST"
        /\ UNCHANGED dropped /\ st_size' = f
        /\ \/ mapped' = Append(mapped, f) /\ m_file_address' = Len(mapped')
           \/ mapped' = Append(mapped, 0) /\ m_file_address' = -1
    BY <1>1 DEF ReplyFile, Request
  <2>2. CASE mapped' = Append(mapped, f) /\ m_file_address' = Len(mapped')
    BY <2>1, <2>2, MapReply
  <2>3. CASE mapped' = Append(mapped, 0) /\ m_file_address' = -1
    <3>1. 0 \in Nat
      OBVIOUS
    <3> QED
      BY <2>1, <2>3, <3>1, MapReply
  <2> QED
    BY <2>1, <2>2, <2>3
<1>2. ASSUME NEW h \in Headers, NEW f \in Files, ReplyError(h, f) PROVE MapInv'
  <2>1. /\ pc = "idle" /\ mapped' = Append(mapped, 0)
        /\ pc' = "armed" /\ kind' # "FILE_REQUEST" /\ UNCHANGED dropped
        /\ m_file_address' = m_file_address /\ st_size' \in Nat
    BY <1>2, <1>t DEF ReplyError, Request
  <2>2. 0 \in Nat
    OBVIOUS
  <2> QED
    BY <2>1, <2>2, MapReply
<1>3. ASSUME NEW h \in Headers, ReplyNothing(h) PROVE MapInv'
  <2>1. /\ pc = "idle" /\ mapped' = Append(mapped, 0)
        /\ pc' = "closed" /\ UNCHANGED dropped
        /\ m_file_address' \in {m_file_address, -1} /\ st_size' \in Nat
    BY <1>3, <1>t DEF ReplyNothing, Request
  <2>2. 0 \in Nat /\ pc' # "armed"
    BY <2>1
  <2> QED
    BY <2>1, <2>2, MapReply
<1>4. ASSUME Epollout \/ WriteBlocks \/ \E n \in 0..Len(Pending) : writev(n)
      PROVE  MapInv'
  <2>1. /\ UNCHANGED <<kind, mapped, dropped, st_size, m_file_address>>
        /\ pc \in {"armed", "write"} /\ pc' \in {"armed", "write"}
    BY <1>4 DEF Epollout, WriteBlocks, writev, Sends
  <2>2. SendingFile' = SendingFile /\ Sending' = Sending
    BY <2>1 DEF Sending, SendingFile
  <2> QED
    BY <2>1, <2>2 DEF MapInv, MapTypes, LastMapped, PointsAtLeftover, OthersUnmapped
<1>5. ASSUME WriteFails \/ \E n \in 0..Len(Pending) : WriteDone(n) PROVE MapInv'
  <2>1. pc = "write" /\ unmap /\ pc' \in {"idle", "closed"}
    BY <1>5 DEF WriteFails, WriteDone, Sends
  <2> QED
    BY <2>1, MapUnmap
<1>6. ASSUME Hangup PROVE MapInv'
  <2>1. /\ pc = "armed" /\ pc' = "closed" /\ dropped' = dropped \cup {Len(mapped)}
        /\ UNCHANGED <<kind, mapped, st_size, m_file_address>>
    BY <1>6 DEF Hangup
  <2>2. Len(mapped) \in DOMAIN mapped
    <3>1. mapped # <<>>
      BY <2>1 DEF MapInv, LastMapped, Sending
    <3> QED
      BY <1>t, <3>1, EmptySeq, LenProperties
  <2>3. ~Sending' /\ ~SendingFile'
    BY <2>1 DEF Sending, SendingFile
  <2> QED
    BY <1>t, <2>1, <2>2, <2>3 DEF MapInv, MapTypes, LastMapped,
                                  PointsAtLeftover, OthersUnmapped
<1>7. ASSUME NextConnection PROVE MapInv'
  <2>1. /\ pc = "closed" /\ pc' = "idle"
        /\ UNCHANGED <<mapped, dropped, st_size, m_file_address>>
    BY <1>7 DEF NextConnection
  <2>2. ~Sending /\ ~Sending' /\ ~SendingFile /\ ~SendingFile'
    BY <2>1 DEF Sending, SendingFile
  <2> QED
    BY <2>1, <2>2 DEF MapInv, MapTypes, LastMapped, PointsAtLeftover, OthersUnmapped
<1>8. ASSUME UNCHANGED vars PROVE MapInv'
  BY <1>8 DEF vars, MapInv, MapTypes, LastMapped, PointsAtLeftover,
              OthersUnmapped, Sending, SendingFile
<1> QED
  BY <1>1, <1>2, <1>3, <1>4, <1>5, <1>6, <1>7, <1>8 DEF Next

\* So it always holds.
LEMMA MapInvariant == Spec => []MapInv
BY MapInitially, MapInductive, PTL DEF Spec

\* unmap and do_request: while write may send from it, the file is mapped, whole,
\* unless its mmap failed; when the reply is over it is unmapped, whatever earlier
\* connections left in m_file_address, unless main closed the connection while the
\* reply waited.
THEOREM MappingsReleased == Spec => []MappingLife
<1>1. MapInv => MappingLife
  <2> SUFFICES ASSUME MapInv PROVE MappingLife
    OBVIOUS
  <2>1. MappedWhileSending
    BY EmptySeq, LenProperties DEF MapInv, MapTypes, LastMapped, Sending,
       SendingFile, MappedWhileSending
  <2>2. NoMappingLeft
    BY DEF MapInv, OthersUnmapped, Sending, SendingFile, NoMappingLeft
  <2> QED
    BY <2>1, <2>2 DEF MappingLife
<1> QED
  BY <1>1, MapInvariant, PTL

-----------------------------------------------------------------------------
(* What is sent.                                                           *)

\* The reply with a header of h bytes and a file in mapping m: its byte i, and
\* the n bytes of it that follow the first a.
Address == Int \X Int
Byte(h, m, i) == IF i <= h THEN <<0, i - 1>> ELSE <<m, i - h - 1>>
Part(h, m, a, n) == [i \in 1 .. n |-> Byte(h, m, a + i)]

\* What is sent first and then; the first k bytes of s.
Joined(s, t) == s \o t
First(s, k) == SubSeq(s, 1, k)

\* A part is a sequence of bytes.
LEMMA PartIs ==
    ASSUME NEW h \in Nat, NEW m \in Int, NEW a \in Nat, NEW n \in Nat
    PROVE  /\ Part(h, m, a, n) \in Seq(Address)
           /\ Len(Part(h, m, a, n)) = n
<1>1. \A i \in 1 .. n : Byte(h, m, a + i) \in Address
  BY DEF Byte, Address
<1>2. Part(h, m, a, n) \in Seq(Address)
  BY <1>1, IsASeq DEF Part
<1>3. DOMAIN Part(h, m, a, n) = 1 .. n
  BY DEF Part
<1>4. Len(Part(h, m, a, n)) = n
  <2> DEFINE s == Part(h, m, a, n)
  <2> HIDE DEF s
  <2>1. s \in Seq(Address) /\ DOMAIN s = 1 .. n
    BY <1>2, <1>3 DEF s
  <2>2. Len(s) \in Nat /\ DOMAIN s = 1 .. Len(s)
    BY <2>1, LenProperties
  <2>3. Len(s) = n
    BY <2>1, <2>2
  <2> QED
    BY <2>3 DEF s
<1> QED
  BY <1>2, <1>4

\* Adjacent parts join.
LEMMA PartJoin ==
    ASSUME NEW h \in Nat, NEW m \in Int, NEW a \in Nat, NEW n \in Nat, NEW k \in Nat,
           NEW b, b = a + n, NEW l, l = n + k
    PROVE  Joined(Part(h, m, a, n), Part(h, m, b, k)) = Part(h, m, a, l)
<1> DEFINE s == Part(h, m, a, n)
           t == Part(h, m, a + n, k)
           u == Part(h, m, a, n + k)
<1>0. a + n \in Nat /\ n + k \in Nat
  OBVIOUS
<1>1. s \in Seq(Address) /\ Len(s) = n
  BY PartIs
<1>1e. \A i \in 1 .. n : s[i] = Byte(h, m, a + i)
  BY DEF Part
<1>2. t \in Seq(Address) /\ Len(t) = k
  BY <1>0, PartIs
<1>2e. \A i \in 1 .. k : t[i] = Byte(h, m, a + n + i)
  BY DEF Part
<1>3. u \in Seq(Address) /\ Len(u) = n + k
  BY <1>0, PartIs
<1>3e. \A i \in 1 .. n + k : u[i] = Byte(h, m, a + i)
  BY DEF Part
<1> HIDE DEF s, t, u
<1>4. /\ s \o t \in Seq(Address) /\ Len(s \o t) = n + k
      /\ \A i \in 1 .. n + k : (s \o t)[i] = IF i <= n THEN s[i] ELSE t[i - n]
  BY <1>1, <1>2, ConcatProperties
<1>5. \A i \in 1 .. n + k : (s \o t)[i] = u[i]
  <2> SUFFICES ASSUME NEW i \in 1 .. n + k PROVE (s \o t)[i] = u[i]
    OBVIOUS
  <2>1. CASE i <= n
    <3>1. i \in 1 .. n
      BY <2>1
    <3> QED
      BY <1>1e, <1>3e, <1>4, <2>1, <3>1
  <2>2. CASE ~(i <= n)
    <3>1. i - n \in 1 .. k /\ a + n + (i - n) = a + i
      BY <2>2
    <3>2. t[i - n] = Byte(h, m, a + i)
      BY <1>2e, <3>1
    <3> QED
      BY <1>3e, <1>4, <2>2, <3>2
  <2> QED
    BY <2>1, <2>2
<1>6. s \o t = u
  BY <1>3, <1>4, <1>5, SeqEqual
<1> QED
  BY <1>6 DEF s, t, u, Joined

\* The first k bytes of a part.
LEMMA PartFirst ==
    ASSUME NEW h \in Nat, NEW m \in Int, NEW a \in Nat, NEW n \in Nat,
           NEW k \in Nat, k <= n
    PROVE  First(Part(h, m, a, n), k) = Part(h, m, a, k)
<1> DEFINE s == Part(h, m, a, n)
           t == Part(h, m, a, k)
<1>1. s \in Seq(Address) /\ Len(s) = n
  BY PartIs
<1>1e. \A i \in 1 .. n : s[i] = Byte(h, m, a + i)
  BY DEF Part
<1>2. t \in Seq(Address) /\ Len(t) = k
  BY PartIs
<1>2e. \A i \in 1 .. k : t[i] = Byte(h, m, a + i)
  BY DEF Part
<1> HIDE DEF s, t
<1>3. \A i \in 1 .. k : s[i] \in Address /\ s[i] = t[i]
  BY <1>1, <1>1e, <1>2e, ElementOfSeq
<1>4. /\ SubSeq(s, 1, k) \in Seq(Address) /\ Len(SubSeq(s, 1, k)) = k
      /\ \A i \in 1 .. k : SubSeq(s, 1, k)[i] = s[i]
  BY <1>3, SubSeqProperties
<1>5. SubSeq(s, 1, k) = t
  BY <1>2, <1>3, <1>4, SeqEqual
<1> QED
  BY <1>5 DEF s, t, First

\* The bytes of the iovecs are parts of the reply: the header's ...
LEMMA HeaderBytes ==
    ASSUME NEW h \in Nat, NEW m \in Int, NEW a \in Nat, NEW n \in Nat, a + n <= h
    PROVE  Bytes(iovec(0, a, n)) = Part(h, m, a, n)
<1>1. Bytes(iovec(0, a, n)) = [i \in 1 .. n |-> <<0, a + i - 1>>]
  BY DEF Bytes, iovec
<1>2. \A i \in 1 .. n : Byte(h, m, a + i) = <<0, a + i - 1>>
  BY DEF Byte
<1> QED
  BY <1>1, <1>2 DEF Part

\* ... and the file's.
LEMMA FileBytes ==
    ASSUME NEW h \in Nat, NEW m \in Int, NEW a \in Nat, NEW n \in Nat, h <= a
    PROVE  Bytes(iovec(m, a - h, n)) = Part(h, m, a, n)
<1>1. Bytes(iovec(m, a - h, n)) = [i \in 1 .. n |-> <<m, a - h + i - 1>>]
  BY DEF Bytes, iovec
<1>2. \A i \in 1 .. n : Byte(h, m, a + i) = <<m, a - h + i - 1>>
  BY DEF Byte
<1> QED
  BY <1>1, <1>2 DEF Part

\* An iovec with no bytes left.
LEMMA NoBytes == ASSUME NEW v, v.len = 0 PROVE Bytes(v) = <<>>
BY DEF Bytes

\* The length of the reply.
Size == m_write_idx + (IF kind = "FILE_REQUEST" THEN st_size ELSE 0)

\* The types of what write computes with.
SendTypes ==
    /\ m_write_idx \in Nat /\ bytes_have_send \in Nat /\ bytes_to_send \in Int
    /\ splits \in Nat
    /\ m_iv \in [0..1 -> [place : Int, base : Int, len : Int]]

\* write has something to do, and bytes_to_send is what is left.
ReplyCounted ==
    Sending => /\ m_write_idx > 0 /\ bytes_to_send > 0
               /\ bytes_have_send + bytes_to_send = Size
               /\ m_iv_count = IF kind = "FILE_REQUEST" THEN 2 ELSE 1

\* bytes_have_send is 0 when a request comes, and is in the header only after a
\* writev that ended there.
StartsAtZero == pc = "idle" => bytes_have_send = 0
SplitsCounted ==
    Sending /\ bytes_have_send > 0 /\ bytes_have_send < m_write_idx => splits > 0

\* The iovecs hold what is left of the header and of the file.
IovecsRight ==
    Sending /\ ~HeaderCutTwice =>
        /\ bytes_have_send < m_write_idx =>
              /\ m_iv[0] = iovec(0, bytes_have_send, m_write_idx - bytes_have_send)
              /\ kind = "FILE_REQUEST" => m_iv[1] = iovec(m_file_address, 0, st_size)
        /\ bytes_have_send >= m_write_idx =>
              /\ m_iv[0].len = 0
              /\ m_iv[1] = iovec(m_file_address, bytes_have_send - m_write_idx,
                                 bytes_to_send)

\* What is sent is the beginning of the reply.
PrefixSent ==
    Sending /\ ~HeaderCutTwice =>
        sent = Part(m_write_idx, m_file_address, 0, bytes_have_send)

\* The inductive invariant for what is sent.
SendInv ==
    /\ SendTypes /\ ReplyCounted /\ StartsAtZero /\ SplitsCounted
    /\ IovecsRight /\ PrefixSent

\* The numbers the lemmas below compute with.
LEMMA Numbers ==
    ASSUME MapInv, SendInv
    PROVE  /\ m_write_idx \in Nat /\ st_size \in Nat
           /\ bytes_have_send \in Nat /\ bytes_to_send \in Int
           /\ splits \in Nat /\ m_file_address \in Int /\ Size \in Nat
BY DEF MapInv, MapTypes, SendInv, SendTypes, Size

\* Even when the header was cut twice the iovecs hold some sequence of bytes.
LEMMA BytesSeq ==
    ASSUME NEW v \in [place : Int, base : Int, len : Int]
    PROVE  Bytes(v) \in Seq(Address)
<1>1. v.place \in Int /\ v.base \in Int /\ v.len \in Int
  OBVIOUS
<1>2. CASE v.len \in Nat
  <2>1. \A i \in 1 .. v.len : <<v.place, v.base + i - 1>> \in Address
    BY <1>1 DEF Address
  <2> QED
    BY <1>2, <2>1, IsASeq DEF Bytes
<1>3. CASE v.len \notin Nat
  <2>1. 1 .. v.len = {}
    BY <1>1, <1>3
  <2>2. Bytes(v) = <<>>
    BY <2>1 DEF Bytes
  <2> QED
    BY <2>2, EmptySeq
<1> QED
  BY <1>2, <1>3

LEMMA PendingSeq == ASSUME SendTypes PROVE Len(Pending) \in Nat
<1>1. m_iv[0] \in [place : Int, base : Int, len : Int]
      /\ m_iv[1] \in [place : Int, base : Int, len : Int]
  BY DEF SendTypes
<1>2. Bytes(m_iv[0]) \in Seq(Address) /\ Bytes(m_iv[1]) \in Seq(Address)
  BY <1>1, BytesSeq
<1>3. Bytes(m_iv[0]) \o Bytes(m_iv[1]) \in Seq(Address)
  BY <1>2, ConcatProperties
<1>4. Pending \in Seq(Address)
  BY <1>2, <1>3 DEF Pending
<1> QED
  BY <1>4, LenProperties

\* The reply process_write made.
LEMMA ReplyIs ==
    ASSUME MapInv, SendInv PROVE Reply = Part(m_write_idx, m_file_address, 0, Size)
<1> DEFINE h == m_write_idx
           m == m_file_address
<1>0. h \in Nat /\ m \in Int /\ st_size \in Nat
  BY Numbers
<1>1. Bytes(iovec(0, 0, h)) = Part(h, m, 0, h)
  BY <1>0, HeaderBytes
<1> HIDE DEF h, m
<1>2. CASE kind = "FILE_REQUEST"
  <2>1. Bytes(iovec(m, 0, st_size)) = Part(h, m, h, st_size)
    <3>1. h - h = 0 /\ h <= h
      BY <1>0
    <3> QED
      BY <1>0, <3>1, FileBytes
  <2>2. Joined(Part(h, m, 0, h), Part(h, m, h, st_size)) = Part(h, m, 0, h + st_size)
    <3>1. 0 + h = h /\ 0 \in Nat
      BY <1>0
    <3> QED
      BY <1>0, <3>1, PartJoin
  <2> QED
    BY <1>1, <1>2, <2>1, <2>2 DEF Reply, Size, h, m, Joined
<1>3. CASE kind # "FILE_REQUEST"
  <2>1. Part(h, m, 0, h) \in Seq(Address)
    BY <1>0, PartIs
  <2>2. Part(h, m, 0, h) \o <<>> = Part(h, m, 0, h)
    BY <2>1, ConcatEmptySeq
  <2>3. Size = h
    BY <1>0, <1>3 DEF Size, h
  <2> QED
    BY <1>1, <1>3, <2>2, <2>3 DEF Reply, h, m
<1> QED
  BY <1>2, <1>3

\* The iovecs hold the rest of it.
LEMMA PendingIs ==
    ASSUME MapInv, SendInv, Sending, ~HeaderCutTwice
    PROVE  /\ Pending = Part(m_write_idx, m_file_address, bytes_have_send, bytes_to_send)
           /\ Len(Pending) = bytes_to_send /\ bytes_to_send \in Nat \ {0}
           /\ Pending # <<>>
<1> DEFINE h == m_write_idx
           m == m_file_address
           n == bytes_have_send
           k == bytes_to_send
<1>0. /\ h \in Nat /\ m \in Int /\ st_size \in Nat /\ n \in Nat /\ k \in Nat \ {0}
      /\ n + k = Size
  BY Numbers DEF SendInv, ReplyCounted
<1>i. /\ n < h => /\ m_iv[0] = iovec(0, n, h - n)
                  /\ kind = "FILE_REQUEST" => m_iv[1] = iovec(m, 0, st_size)
      /\ n >= h => m_iv[0].len = 0 /\ m_iv[1] = iovec(m, n - h, k)
      /\ m_iv_count = IF kind = "FILE_REQUEST" THEN 2 ELSE 1
  BY DEF SendInv, IovecsRight, ReplyCounted
<1>s. Size = IF kind = "FILE_REQUEST" THEN h + st_size ELSE h
  BY <1>0 DEF Size
<1> HIDE DEF h, m, n, k
<1>1. Pending = Part(h, m, n, k)
  <2>1. CASE n < h /\ kind = "FILE_REQUEST"
    <3>0. h - n \in Nat /\ n + (h - n) = h /\ k = (h - n) + st_size /\ h - h = 0
      BY <1>0, <1>s, <2>1
    <3>1. Bytes(m_iv[0]) = Part(h, m, n, h - n)
      BY <1>0, <1>i, <2>1, <3>0, HeaderBytes
    <3>2. Bytes(m_iv[1]) = Part(h, m, h, st_size)
      BY <1>0, <1>i, <2>1, <3>0, FileBytes
    <3>3. Joined(Part(h, m, n, h - n), Part(h, m, h, st_size)) = Part(h, m, n, k)
      BY <1>0, <3>0, PartJoin
    <3> QED
      BY <1>i, <2>1, <3>1, <3>2, <3>3 DEF Pending, Joined
  <2>2. CASE n < h /\ kind # "FILE_REQUEST"
    <3>0. k = h - n /\ n + k <= h
      BY <1>0, <1>s, <2>2
    <3>1. Bytes(m_iv[0]) = Part(h, m, n, k)
      BY <1>0, <1>i, <2>2, <3>0, HeaderBytes
    <3> QED
      BY <1>i, <2>2, <3>1 DEF Pending
  <2>3. CASE n >= h
    <3>0. kind = "FILE_REQUEST"
      BY <1>0, <1>s, <2>3
    <3>1. Bytes(m_iv[0]) = <<>>
      BY <1>i, <2>3, NoBytes
    <3>2. Bytes(m_iv[1]) = Part(h, m, n, k)
      BY <1>0, <1>i, <2>3, FileBytes
    <3>3. Part(h, m, n, k) \in Seq(Address)
      BY <1>0, PartIs
    <3>4. <<>> \o Part(h, m, n, k) = Part(h, m, n, k)
      BY <3>3, ConcatEmptySeq
    <3> QED
      BY <1>i, <3>0, <3>1, <3>2, <3>4 DEF Pending
  <2> QED
    BY <1>0, <2>1, <2>2, <2>3
<1>2. Part(h, m, n, k) \in Seq(Address) /\ Len(Part(h, m, n, k)) = k
  <2>1. h \in Nat /\ m \in Int /\ n \in Nat /\ k \in Nat
    BY <1>0
  <2> QED
    BY ONLY <2>1, PartIs
<1>3. Part(h, m, n, k) # <<>>
  BY <1>0, <1>2, EmptySeq
<1> QED
  BY <1>0, <1>1, <1>2, <1>3 DEF h, m, n, k

\* After n more bytes a longer beginning of the reply is sent.
LEMMA SentMore ==
    ASSUME MapInv, SendInv, Sending, ~HeaderCutTwice, NEW n \in 0 .. bytes_to_send
    PROVE  sent \o SubSeq(Pending, 1, n)
              = Part(m_write_idx, m_file_address, 0, bytes_have_send + n)
<1> DEFINE h == m_write_idx
           m == m_file_address
           a == bytes_have_send
           k == bytes_to_send
<1>0. h \in Nat /\ m \in Int /\ a \in Nat /\ k \in Nat /\ n \in Nat /\ n <= k
  BY Numbers, PendingIs
<1>1. Pending = Part(h, m, a, k) /\ sent = Part(h, m, 0, a)
  BY PendingIs DEF SendInv, PrefixSent
<1> HIDE DEF h, m, a, k
<1>2. SubSeq(Pending, 1, n) = Part(h, m, a, n)
  <2>1. First(Part(h, m, a, k), n) = Part(h, m, a, n)
    BY <1>0, PartFirst
  <2> QED
    BY <1>1, <2>1 DEF First
<1>3. Joined(Part(h, m, 0, a), Part(h, m, a, n)) = Part(h, m, 0, a + n)
  <2>1. 0 + a = a /\ 0 \in Nat
    BY <1>0
  <2> QED
    BY <1>0, <2>1, PartJoin
<1> QED
  BY <1>1, <1>2, <1>3 DEF h, m, a, Joined

\* The iovecs keep their types.
LEMMA AdvanceTypes ==
    ASSUME SendTypes, m_file_address \in Int, NEW have \in Int, NEW todo \in Int
    PROVE  Advance(have, todo) \in [0..1 -> [place : Int, base : Int, len : Int]]
BY DEF SendTypes, Advance, iovec

\* Once the header is sent the second iovec is the rest of the file.
LEMMA AdvanceFile ==
    ASSUME SendTypes, NEW have, NEW todo, have >= m_iv[0].len
    PROVE  /\ Advance(have, todo)[0].len = 0
           /\ Advance(have, todo)[1] = iovec(m_file_address, have - m_write_idx, todo)
BY DEF SendTypes, Advance

\* Request and process_write start a reply from its first byte.
LEMMA SendReply ==
    ASSUME MapInv, MapInv', SendInv, pc = "idle", pc' = "armed",
           NEW h \in Nat \ {0}, m_write_idx' = h, sent' = <<>>, splits' = 0,
           UNCHANGED bytes_have_send, bytes_to_send' = Size',
           m_iv' \in [0..1 -> [place : Int, base : Int, len : Int]],
           m_iv'[0] = iovec(0, 0, h),
           kind' = "FILE_REQUEST" => m_iv'[1] = iovec(m_file_address', 0, st_size'),
           m_iv_count' = IF kind' = "FILE_REQUEST" THEN 2 ELSE 1
    PROVE  SendInv'
<1>0. /\ bytes_have_send' = 0 /\ m_file_address' \in Int /\ st_size' \in Nat
      /\ Size' \in Nat /\ Size' >= h
  <2>1. bytes_have_send' = 0
    BY DEF SendInv, StartsAtZero
  <2>2. m_file_address' \in Int /\ st_size' \in Nat
    BY DEF MapInv, MapTypes
  <2>3. Size' = h \/ Size' = h + st_size'
    BY DEF Size
  <2> QED
    BY <2>1, <2>2, <2>3
<1>1. SendTypes'
  BY <1>0 DEF SendTypes
<1>2. ReplyCounted'
  <2>0. bytes_to_send' \in Nat /\ bytes_to_send' >= h
    BY <1>0, Zenon
  <2>1. \A x \in Nat : x >= h => x > 0 /\ 0 + x = x
    OBVIOUS
  <2>2. bytes_to_send' > 0 /\ 0 + bytes_to_send' = bytes_to_send'
    BY <2>0, <2>1, Zenon
  <2>3. bytes_have_send' + bytes_to_send' = Size'
    BY <1>0, <2>2, Zenon
  <2> QED
    BY <2>2, <2>3 DEF ReplyCounted
<1>s. StartsAtZero' /\ SplitsCounted'
  BY <1>0 DEF StartsAtZero, SplitsCounted
<1>3. IovecsRight'
  BY <1>0 DEF IovecsRight
<1>4. PrefixSent'
  <2>1. Part(h, m_file_address', 0, 0) = <<>>
    BY DEF Part
  <2> QED
    BY <1>0, <2>1 DEF PrefixSent
<1> QED
  BY <1>1, <1>2, <1>s, <1>3, <1>4 DEF SendInv

\* writev in the loop.
LEMMA SendMore ==
    ASSUME MapInv, SendInv, NEW n \in 0 .. Len(Pending), writev(n)
    PROVE  SendInv'
<1> DEFINE h == m_write_idx
           m == m_file_address
           a == bytes_have_send
           k == bytes_to_send
<1>p. /\ Sending /\ Sending' /\ pc' = "write" /\ pc = "write"
      /\ UNCHANGED <<kind, m_iv_count, m_write_idx, mapped, st_size, m_file_address>>
  BY DEF writev, Sends, Counts, Sending, fileVars
<1>0. /\ h \in Nat \ {0} /\ m \in Int /\ a \in Nat /\ k \in Nat /\ n \in Nat
      /\ n < k /\ splits \in Nat /\ a + k = Size /\ Size' = Size
      /\ st_size \in Nat
  <2>1. n \in Nat
    BY PendingSeq DEF SendInv
  <2>2. n < k /\ k \in Int
    BY <2>1, Numbers DEF writev
  <2>3. Size' = Size
    BY <1>p DEF Size
  <2>4. h > 0 /\ a + k = Size
    BY <1>p DEF SendInv, ReplyCounted
  <2> QED
    BY <2>1, <2>2, <2>3, <2>4, Numbers
<1>1. /\ bytes_have_send' = a + n /\ bytes_to_send' = k - n
      /\ splits' = IF n > 0 /\ a + n < h THEN splits + 1 ELSE splits
  BY DEF writev, Sends, Counts
<1>c. ASSUME ~HeaderCutTwice'
      PROVE  /\ splits' <= 1 /\ ~HeaderCutTwice
             /\ Len(Pending) = k /\ Pending # <<>> /\ n > 0
  <2>1. splits' <= 1 /\ ~HeaderCutTwice
    BY <1>c, <1>0, <1>1 DEF HeaderCutTwice
  <2>2. Len(Pending) = k /\ Pending # <<>>
    BY <1>p, <2>1, PendingIs
  <2>3. n # 0
    BY <2>2 DEF writev, Sends
  <2> QED
    BY <1>0, <2>1, <2>2, <2>3
<1>2. SendTypes'
  <2>1. m_iv' \in [0..1 -> [place : Int, base : Int, len : Int]]
    <3>1. a + n \in Int /\ k - n \in Int /\ m_file_address \in Int
      BY <1>0, Numbers
    <3>2. m_iv' = Advance(a + n, k - n)
      BY DEF writev, Sends
    <3> QED
      BY <3>1, <3>2, AdvanceTypes DEF SendInv
  <2> QED
    BY <1>p, <1>0, <1>1, <2>1 DEF SendTypes
<1>3. ReplyCounted'
  <2>1. m_iv_count = IF kind = "FILE_REQUEST" THEN 2 ELSE 1
    BY <1>p DEF SendInv, ReplyCounted
  <2> QED
    BY <1>p, <1>0, <1>1, <2>1 DEF ReplyCounted
<1>4. StartsAtZero'
  BY <1>p DEF StartsAtZero
<1>5. SplitsCounted'
  BY <1>p, <1>0, <1>1 DEF SendInv, SplitsCounted
<1>6. IovecsRight'
  <2> SUFFICES ASSUME ~HeaderCutTwice' PROVE IovecsRight'
    BY DEF IovecsRight
  <2>c. splits' <= 1 /\ ~HeaderCutTwice /\ n > 0
    BY <1>c
  <2>0. /\ a < h => /\ m_iv[0] = iovec(0, a, h - a)
                    /\ kind = "FILE_REQUEST" => m_iv[1] = iovec(m, 0, st_size)
        /\ a >= h => m_iv[0].len = 0
        /\ m_iv \in [0..1 -> [place : Int, base : Int, len : Int]]
    BY <1>p, <2>c DEF SendInv, IovecsRight, SendTypes
  <2>1. m_iv' = Advance(a + n, k - n)
    BY DEF writev, Sends
  <2>2. a < h => m_iv[0].len = h - a
    BY <2>0 DEF iovec
  <2>3. CASE a + n < h
    <3>1. a = 0
      <4>1. a > 0 => splits > 0
        BY <1>p, <1>0, <2>3 DEF SendInv, SplitsCounted
      <4> QED
        BY <1>0, <1>1, <2>c, <2>3, <4>1
    <3>2. a < h /\ m_iv[0].len = h /\ ~(a + n >= m_iv[0].len)
      BY <1>0, <2>2, <2>3, <3>1
    <3>3. m_iv' = [m_iv EXCEPT ![0] = iovec(0, a + n, @.len - (a + n))]
      BY <2>1, <3>2 DEF Advance
    <3>4. m_iv'[0] = iovec(0, a + n, h - (a + n)) /\ m_iv'[1] = m_iv[1]
      BY <2>0, <3>2, <3>3
    <3>5. kind = "FILE_REQUEST" => m_iv'[1] = iovec(m, 0, st_size)
      BY <2>0, <3>2, <3>4
    <3>6. ~(a + n >= h)
      BY <1>0, <2>3
    <3> QED
      BY <1>p, <1>1, <2>3, <3>4, <3>5, <3>6 DEF IovecsRight
  <2>4. CASE a + n >= h
    <3>1. a + n >= m_iv[0].len
      BY <1>0, <2>0, <2>2, <2>4
    <3>3. m_iv'[0].len = 0 /\ m_iv'[1] = iovec(m_file_address, (a + n) - h, k - n)
      BY <2>1, <3>1, AdvanceFile DEF SendInv
    <3>6. ~(a + n < h)
      BY <1>0, <2>4
    <3> QED
      BY <1>p, <1>1, <3>3, <3>6 DEF IovecsRight
  <2> QED
    BY <1>0, <2>3, <2>4
<1>7. PrefixSent'
  <2> SUFFICES ASSUME ~HeaderCutTwice' PROVE PrefixSent'
    BY DEF PrefixSent
  <2>c. ~HeaderCutTwice /\ n \in 0 .. k
    BY <1>0, <1>c
  <2>1. sent' = sent \o SubSeq(Pending, 1, n)
    BY DEF writev, Sends
  <2>2. sent' = Part(h, m, 0, a + n)
    BY <1>p, <2>c, <2>1, SentMore
  <2> QED
    BY <1>p, <1>1, <2>2 DEF PrefixSent
<1> QED
  BY <1>2, <1>3, <1>4, <1>5, <1>6, <1>7 DEF SendInv

\* A step after which no reply is being sent.
LEMMA SendOver ==
    ASSUME SendTypes', ~Sending', pc' = "idle" => bytes_have_send' = 0
    PROVE  SendInv'
BY DEF SendInv, ReplyCounted, StartsAtZero, SplitsCounted, IovecsRight, PrefixSent

\* The invariant holds at the start.
LEMMA SendInitially == ASSUME Init PROVE SendInv
<1>1. SendTypes /\ ~Sending /\ bytes_have_send = 0
  BY DEF Init, SendTypes, Sending
<1> QED
  BY <1>1 DEF SendInv, ReplyCounted, StartsAtZero, SplitsCounted, IovecsRight,
              PrefixSent

\* Every step keeps it.
LEMMA SendInductive ==
    ASSUME MapInv, MapInv', SendInv, [Next]_vars PROVE SendInv'
<1> USE HttpWriteAssumption DEF fileVars, sendVars
<1>t. SendTypes
  BY DEF SendInv
<1>1. ASSUME NEW h \in Headers, NEW f \in Files, ReplyFile(h, f) PROVE SendInv'
  <2>1. /\ h \in Nat \ {0} /\ f \in Nat /\ pc = "idle" /\ pc' = "armed"
        /\ m_write_idx' = h /\ sent' = <<>> /\ splits' = 0
        /\ UNCHANGED bytes_have_send /\ kind' = "FILE_REQUEST" /\ st_size' = f
        /\ m_iv_count' = 2 /\ bytes_to_send' = h + f
        /\ m_iv' = [m_iv EXCEPT ![0] = iovec(0, 0, h),
                                ![1] = iovec(m_file_address', 0, f)]
    BY <1>1 DEF ReplyFile, Request
  <2>2. m_file_address' \in Int
    BY DEF MapInv, MapTypes
  <2>3. /\ m_iv' \in [0..1 -> [place : Int, base : Int, len : Int]]
        /\ m_iv'[0] = iovec(0, 0, h) /\ m_iv'[1] = iovec(m_file_address', 0, f)
    BY <1>t, <2>1, <2>2 DEF SendTypes, iovec
  <2>4. bytes_to_send' = Size'
    BY <2>1 DEF Size
  <2> QED
    BY <2>1, <2>3, <2>4, SendReply
<1>2. ASSUME NEW h \in Headers, NEW f \in Files, ReplyError(h, f) PROVE SendInv'
  <2>1. /\ h \in Nat \ {0} /\ pc = "idle" /\ pc' = "armed"
        /\ m_write_idx' = h /\ sent' = <<>> /\ splits' = 0
        /\ UNCHANGED bytes_have_send /\ kind' # "FILE_REQUEST"
        /\ m_iv_count' = 1 /\ bytes_to_send' = h
        /\ m_iv' = [m_iv EXCEPT ![0] = iovec(0, 0, h)]
    BY <1>2 DEF ReplyError, Request
  <2>2. /\ m_iv' \in [0..1 -> [place : Int, base : Int, len : Int]]
        /\ m_iv'[0] = iovec(0, 0, h)
    BY <1>t, <2>1 DEF SendTypes, iovec
  <2>3. bytes_to_send' = Size'
    BY <2>1 DEF Size
  <2> QED
    BY <2>1, <2>2, <2>3, SendReply
<1>3. ASSUME NEW h \in Headers, ReplyNothing(h) PROVE SendInv'
  <2>1. /\ pc' = "closed" /\ splits' = 0 /\ m_write_idx' \in {0, h} /\ h \in Nat
        /\ UNCHANGED <<m_iv, bytes_to_send, bytes_have_send>>
    BY <1>3 DEF ReplyNothing, Request
  <2>2. SendTypes' /\ ~Sending'
    BY <1>t, <2>1 DEF SendTypes, Sending
  <2> QED
    BY <2>1, <2>2, SendOver
<1>4. ASSUME Epollout \/ WriteBlocks PROVE SendInv'
  <2>1. /\ UNCHANGED <<kind, st_size, m_file_address, m_write_idx, m_iv, m_iv_count,
                       bytes_to_send, bytes_have_send, sent, splits>>
        /\ pc \in {"armed", "write"} /\ pc' \in {"armed", "write"}
    BY <1>4 DEF Epollout, WriteBlocks
  <2>2. Sending /\ Sending' /\ Size' = Size /\ pc' # "idle"
    BY <2>1 DEF Sending, Size
  <2> QED
    BY <2>1, <2>2 DEF SendInv, SendTypes, ReplyCounted, StartsAtZero,
                      SplitsCounted, IovecsRight, PrefixSent, HeaderCutTwice
<1>5. ASSUME NEW n \in 0..Len(Pending), writev(n) PROVE SendInv'
  BY <1>5, SendMore
<1>6. ASSUME NEW n \in 0..Len(Pending), WriteDone(n) PROVE SendInv'
  <2>1. Sending
    BY <1>6 DEF WriteDone, Sends, Sending
  <2>2. n \in Nat
    BY <1>t, PendingSeq
  <2>3. /\ m_write_idx \in Nat /\ bytes_have_send \in Nat /\ bytes_to_send \in Int
        /\ splits \in Nat /\ m_file_address \in Int
    BY Numbers
  <2>4. m_iv' \in [0..1 -> [place : Int, base : Int, len : Int]]
    <3>1. bytes_have_send + n \in Int /\ bytes_to_send - n \in Int
      BY <2>2, <2>3
    <3>2. m_iv' = Advance(bytes_have_send + n, bytes_to_send - n)
      BY <1>6 DEF WriteDone, Sends
    <3> QED
      BY <1>t, <2>3, <3>1, <3>2, AdvanceTypes
  <2>5. splits' \in Nat
    BY <1>6, <2>3 DEF WriteDone, Sends
  <2>6. /\ m_write_idx' \in Nat /\ bytes_have_send' \in Nat /\ bytes_to_send' \in Int
        /\ pc' = "idle" => bytes_have_send' = 0
        /\ pc' \in {"idle", "closed"}
    BY <1>6, <2>2, <2>3 DEF WriteDone, init, Counts
  <2>7. SendTypes' /\ ~Sending'
    BY <2>4, <2>5, <2>6 DEF SendTypes, Sending
  <2> QED
    BY <2>6, <2>7, SendOver
<1>7. ASSUME WriteFails \/ Hangup PROVE SendInv'
  <2>1. /\ pc' = "closed"
        /\ UNCHANGED <<m_write_idx, m_iv, bytes_to_send, bytes_have_send, splits>>
    BY <1>7 DEF WriteFails, Hangup
  <2>2. SendTypes' /\ ~Sending'
    BY <1>t, <2>1 DEF SendTypes, Sending
  <2> QED
    BY <2>1, <2>2, SendOver
<1>8. ASSUME NextConnection PROVE SendInv'
  <2>1. /\ pc' = "idle" /\ splits' = 0 /\ m_write_idx' = 0 /\ bytes_to_send' = 0
        /\ bytes_have_send' = 0 /\ UNCHANGED m_iv
    BY <1>8 DEF NextConnection, init
  <2>2. SendTypes' /\ ~Sending'
    BY <1>t, <2>1 DEF SendTypes, Sending
  <2> QED
    BY <2>1, <2>2, SendOver
<1>9. ASSUME UNCHANGED vars PROVE SendInv'
  BY <1>9 DEF vars, SendInv, SendTypes, ReplyCounted, StartsAtZero,
              SplitsCounted, IovecsRight, PrefixSent, HeaderCutTwice, Sending, Size
<1> QED
  BY <1>1, <1>2, <1>3, <1>4, <1>5, <1>6, <1>7, <1>8, <1>9 DEF Next

\* So it always holds.
LEMMA SendInvariant == Spec => []SendInv
BY MapInvariant, SendInitially, SendInductive, PTL DEF Spec

\* write and process_write: for headers and files of any length cut up in any way,
\* what is sent and what the iovecs hold are together the reply, and write never
\* calls writev with nothing to send, from the first byte up to the second writev
\* that ends in the header, if there is one.
THEOREM RepliesIntact == Spec => []SendsReply
<1>1. MapInv /\ SendInv => SendsReply
  <2> SUFFICES ASSUME MapInv, SendInv PROVE SendsReply
    OBVIOUS
  <2>1. ASSUME Sending, ~HeaderCutTwice PROVE sent \o Pending = Reply /\ Pending # <<>>
    <3> DEFINE h == m_write_idx
               m == m_file_address
               a == bytes_have_send
               k == bytes_to_send
    <3>0. h \in Nat /\ m \in Int /\ a \in Nat /\ k \in Nat /\ a + k = Size
      BY <2>1, Numbers, PendingIs DEF SendInv, ReplyCounted
    <3>1. Pending = Part(h, m, a, k) /\ sent = Part(h, m, 0, a) /\ Pending # <<>>
      BY <2>1, PendingIs DEF SendInv, PrefixSent
    <3>2. Reply = Part(h, m, 0, Size)
      BY ReplyIs
    <3> HIDE DEF h, m, a, k
    <3>3. Joined(Part(h, m, 0, a), Part(h, m, a, k)) = Part(h, m, 0, Size)
      <4>1. 0 + a = a /\ 0 \in Nat
        BY <3>0
      <4> QED
        BY <3>0, <4>1, PartJoin
    <3> QED
      BY <3>1, <3>2, <3>3 DEF Joined
  <2> QED
    BY <2>1 DEF SendsReply, Sending
<1> QED
  BY <1>1, MapInvariant, SendInvariant, PTL

\* write gives the connection back to EPOLLIN, for the client's next request,
\* only when every byte of the reply is sent, unless its header was cut twice.
THEOREM RepliesSentInFull == Spec => SentInFull
<1>1. ASSUME MapInv, SendInv, [Next]_vars
      PROVE  [pc = "write" /\ pc' = "idle" /\ ~HeaderCutTwice' => sent' = Reply]_vars
  <2> SUFFICES ASSUME Next, pc = "write", pc' = "idle", ~HeaderCutTwice'
               PROVE  sent' = Reply
    BY <1>1
  <2>1. PICK n \in 0..Len(Pending) : WriteDone(n)
    BY DEF Next, ReplyFile, ReplyError, ReplyNothing, Request, Epollout, writev,
           WriteBlocks, WriteFails, Hangup, NextConnection
  <2>2. Sending /\ ~HeaderCutTwice
    <3>1. splits' \in {splits, splits + 1} /\ splits \in Nat
      BY <1>1, <2>1, Numbers DEF WriteDone, Sends
    <3> QED
      BY <3>1 DEF Sending, HeaderCutTwice
  <2>3. Len(Pending) = bytes_to_send /\ bytes_to_send \in Nat
    BY <1>1, <2>2, PendingIs
  <2>4. bytes_have_send + bytes_to_send = Size
    BY <1>1, <2>2 DEF SendInv, ReplyCounted
  <2>5. n = bytes_to_send
    BY <2>1, <2>3 DEF WriteDone
  <2>6. sent' = sent \o SubSeq(Pending, 1, n)
    BY <2>1 DEF WriteDone, Sends
  <2>7. n \in 0 .. bytes_to_send
    BY <2>3, <2>5
  <2>8. sent' = Part(m_write_idx, m_file_address, 0, bytes_have_send + n)
    BY <1>1, <2>2, <2>6, <2>7, SentMore
  <2> QED
    BY <1>1, <2>4, <2>5, <2>8, ReplyIs
<1> QED
  BY <1>1, MapInvariant, SendInvariant, PTL DEF Spec, SentInFull
=============================================================================
