--------------------------- MODULE VNCProxyProofs ---------------------------
(***************************************************************************)
(* Proofs about VNCProxy for any domains, bytes and streams, however they  *)
(* are cut into chunks: a viewer is connected to one console, which        *)
(* receives what the viewer sent after its line, and the proxy implements  *)
(* VNCTunnel.                                                              *)
(***************************************************************************)
EXTENDS VNCProxy, SequenceTheorems, WellFoundedInduction, TLAPS

Constants == ProxyAssumption /\ EagerAssumption

-----------------------------------------------------------------------------
(* Lines *)

\* A set of numbers has a least one: < is well-founded.
LEMMA Least ==
  ASSUME NEW S, S \subseteq Nat, S # {} PROVE \E x \in S : \A y \in S : x <= y
  <1> DEFINE R == {p \in Nat \X Nat : p[1] < p[2]}
  <1>1. IsWellFoundedOn(R, Nat)
    BY NatLessThanWellFounded DEF OpToRel
  <1>2. \A x, y \in Nat : y < x => <<y, x>> \in R
    OBVIOUS
  <1> HIDE DEF R
  <1>3. PICK x \in S : \A y \in S : ~(<<y, x>> \in R)
    BY <1>1, WFMin, Zenon
  <1>4. ASSUME NEW y \in S PROVE x <= y
    <2>1. x \in Nat /\ y \in Nat /\ ~(<<y, x>> \in R)
      BY <1>3
    <2>2. ~(y < x)
      BY <1>2, <2>1
    <2> QED BY <2>1, <2>2
  <1> QED BY <1>4

\* Find is the place of the first newline, or 0.
LEMMA FindNone ==
  ASSUME NEW s, \A i \in DOMAIN s : s[i] # NL PROVE Find(s) = 0
  BY DEF Find

LEMMA FindFirst ==
  ASSUME NEW S, NEW s \in Seq(S), NEW k \in DOMAIN s, s[k] = NL
  PROVE Find(s) \in DOMAIN s /\ s[Find(s)] = NL /\ \A j \in 1..(Find(s) - 1) : s[j] # NL
  <1> DEFINE T == {i \in DOMAIN s : s[i] = NL}
  <1>0. DOMAIN s = 1..Len(s) /\ Len(s) \in Nat
    OBVIOUS
  <1>1. T \subseteq Nat /\ T # {}
    BY <1>0
  <1>2. PICK i \in T : \A j \in T : i <= j
    <2> HIDE DEF T
    <2> QED BY <1>1, Least, Zenon
  <1>3. \A j \in 1..(i - 1) : s[j] # NL
    <2>1. ASSUME NEW j \in 1..(i - 1), s[j] = NL PROVE FALSE
      <3>1. j \in DOMAIN s /\ j < i
        BY <1>0
      <3>2. j \in T /\ i \in Nat /\ j \in Nat
        BY <1>0, <2>1, <3>1
      <3> QED BY <1>2, <3>1, <3>2
    <2> QED BY <2>1
  <1>4. \E x \in DOMAIN s : s[x] = NL /\ \A j \in 1..(x - 1) : s[j] # NL
    BY <1>3
  <1>5. Find(s) = CHOOSE x \in DOMAIN s : s[x] = NL /\ \A j \in 1..(x - 1) : s[j] # NL
    BY <1>4 DEF Find
  <1> QED BY <1>4, <1>5

LEMMA FindIs ==
  ASSUME NEW S, NEW s \in Seq(S), NEW i \in DOMAIN s, s[i] = NL, \A j \in 1..(i - 1) : s[j] # NL
  PROVE Find(s) = i
  <1> DEFINE e == Find(s)
  <1>1. e \in DOMAIN s /\ s[e] = NL /\ \A j \in 1..(e - 1) : s[j] # NL
    BY FindFirst
  <1> HIDE DEF e
  <1>2. e \in Nat \ {0} /\ i \in Nat \ {0}
    BY <1>1
  <1>3. ~(e < i)
    <2>1. e < i => e \in 1..(i - 1)
      BY <1>2
    <2> QED BY <1>1, <2>1
  <1>4. ~(i < e)
    <2>1. i < e => i \in 1..(e - 1)
      BY <1>2
    <2> QED BY <1>1, <2>1
  <1>5. e = i
    BY <1>2, <1>3, <1>4
  <1> QED BY <1>5 DEF e

\* Where the first line of a stream ends, whatever of it has arrived.
LEMMA FindInPrefix ==
  ASSUME NEW S, NEW s \in Seq(S), NEW m \in 0..Len(s), Find(SubSeq(s, 1, m)) # 0
  PROVE Find(s) = Find(SubSeq(s, 1, m)) /\ Find(s) \in 1..m
  <1> DEFINE p == SubSeq(s, 1, m)
             e == Find(p)
  <1>1. p \in Seq(S) /\ Len(p) = m /\ DOMAIN p = 1..m /\ \A i \in 1..m : p[i] = s[i]
    BY SubSeqProperties
  <1> HIDE DEF p
  <1>2. PICK k \in DOMAIN p : p[k] = NL
    BY FindNone, Zenon DEF p
  <1>3. e \in DOMAIN p /\ p[e] = NL /\ \A j \in 1..(e - 1) : p[j] # NL
    BY <1>1, <1>2, FindFirst
  <1> HIDE DEF e
  <1>4. e \in 1..m /\ e \in DOMAIN s /\ s[e] = NL
    BY <1>1, <1>3
  <1>5. \A j \in 1..(e - 1) : s[j] # NL
    BY <1>1, <1>3, <1>4
  <1>6. Find(s) = e
    BY <1>4, <1>5, FindIs
  <1> QED BY <1>4, <1>6 DEF e, p

-----------------------------------------------------------------------------
(* The invariant *)

\* What has arrived after the line.
Rest(m) == SubSeq(stream, LineEnd + 1, m)

\* Before connectTCP everything that has arrived is buffered, and it is no line.
ListenInv ==
  /\ client = NoConn /\ down = <<>>
  /\ viewer = "open" => data = SubSeq(stream, 1, n) /\ Find(data) <= 1

\* connectTCP was called once, for the line.  Until the connection is made, what follows the line is buffered
\* and holds no other; then it has been written to the console.
LinkInv ==
  /\ Len(conns) = 1 /\ LineEnd \in 2..n /\ <<conns[1].dom>> = SubSeq(stream, 1, LineEnd - 1)
  /\ client = NoConn => conns[1].st # "up" /\ down = <<>> /\ data = Rest(n) /\ \A i \in DOMAIN data : data[i] # NL
  /\ client # NoConn => conns[1].st # "connecting" /\ (conns[1].st = "up" => conns[1].got = Rest(n))
  /\ viewer = "open" => conns[1].st # "over"

IInv == TypeOK /\ (conns = <<>> => ListenInv) /\ (conns # <<>> => LinkInv)

\* The types of what the steps use.
LEMMA Types ==
  ASSUME Constants, IInv
  PROVE /\ stream \in Streams /\ stream \in Seq(Bytes) /\ Len(stream) \in Nat /\ n \in 0..Len(stream)
        /\ NoConn \notin Nat /\ NoConn \notin Domains
        /\ (conns # <<>> => conns \in Seq(Conn) /\ DOMAIN conns = {1} /\ conns[1] \in Conn /\ client \in {1, NoConn})
  <1>1. TypeOK /\ stream \in Streams /\ n \in 0..Len(stream)
    BY DEF IInv, TypeOK
  <1>2. stream \in Seq(Bytes) /\ NoConn \notin Nat /\ NoConn \notin Domains
    BY <1>1 DEF Constants, ProxyAssumption
  <1>3. Len(stream) \in Nat
    BY <1>2
  <1>4. ASSUME conns # <<>>
        PROVE conns \in Seq(Conn) /\ DOMAIN conns = {1} /\ conns[1] \in Conn /\ client \in {1, NoConn}
    <2>1. conns \in Seq(Conn) /\ Len(conns) = 1 /\ client \in (1..Len(conns)) \cup {NoConn}
      BY <1>1, <1>4 DEF IInv, LinkInv, TypeOK
    <2> QED BY <2>1
  <1> QED BY <1>1, <1>2, <1>3, <1>4

\* A chunk continues what has arrived.
LEMMA Chunks ==
  ASSUME NEW s \in Seq(Bytes), NEW m \in 0..Len(s), NEW k \in Nat, m + k <= Len(s), NEW e \in 0..m
  PROVE /\ SubSeq(s, e + 1, m) \o SubSeq(s, m + 1, m + k) = SubSeq(s, e + 1, m + k)
        /\ SubSeq(s, m + 1, m + k) \in Seq(Bytes) /\ SubSeq(s, e + 1, m + k) \in Seq(Bytes)
  <1>1. Len(s) \in Nat /\ m \in Nat /\ e \in Nat /\ m <= Len(s) /\ e <= m
    OBVIOUS
  <1>2. e + 1 \in 1..(Len(s) + 1) /\ m \in ((e + 1) - 1)..Len(s) /\ m + k \in m..Len(s)
    BY <1>1
  <1>3. SubSeq(s, e + 1, m) \o SubSeq(s, m + 1, m + k) = SubSeq(s, e + 1, m + k)
    BY <1>2, ConcatAdjacentSubSeq
  <1>4. e + 1 \in 1..(Len(s) + 1) /\ m + 1 \in 1..(Len(s) + 1) /\ m + k \in 0..Len(s)
    BY <1>1
  <1>5. SubSeq(s, m + 1, m + k) \in Seq(Bytes) /\ SubSeq(s, e + 1, m + k) \in Seq(Bytes)
    BY <1>4, SubSeqProperties
  <1> QED BY <1>3, <1>5

\* The part of a prefix behind a place, and up to it.
LEMMA TailOfPrefix ==
  ASSUME NEW s \in Seq(Bytes), NEW m \in 0..Len(s), NEW e \in 0..m
  PROVE SubSeq(SubSeq(s, 1, m), e + 1, m) = SubSeq(s, e + 1, m)
  <1> DEFINE p == SubSeq(s, 1, m)
             q == SubSeq(p, e + 1, m)
             r == SubSeq(s, e + 1, m)
  <1>0. Len(s) \in Nat /\ m \in Nat /\ e \in Nat /\ m <= Len(s) /\ \A j \in 1..m : s[j] \in Bytes
    OBVIOUS
  <1>1. \A j \in 1..m : p[j] = s[j]
    BY <1>0, SubSeqProperties
  <1> HIDE DEF p
  <1>2. q \in Seq(Bytes) /\ Len(q) = m - e /\ \A i \in 1..(m - e) : q[i] = p[e + i]
    BY <1>0, <1>1, SubSeqProperties
  <1>3. r \in Seq(Bytes) /\ Len(r) = m - e /\ \A i \in 1..(m - e) : r[i] = s[e + i]
    BY <1>0, SubSeqProperties
  <1> HIDE DEF q, r
  <1>4. \A i \in 1..Len(q) : q[i] = r[i]
    BY <1>0, <1>1, <1>2, <1>3
  <1>5. q = r
    BY <1>2, <1>3, <1>4, SeqEqual
  <1> QED BY <1>5 DEF p, q, r

LEMMA PrefixOfPrefix ==
  ASSUME NEW s \in Seq(Bytes), NEW m \in 0..Len(s), NEW e \in 0..m
  PROVE SubSeq(SubSeq(s, 1, m), 1, e) = SubSeq(s, 1, e)
  <1> DEFINE p == SubSeq(s, 1, m)
             q == SubSeq(p, 1, e)
             r == SubSeq(s, 1, e)
  <1>0. Len(s) \in Nat /\ m \in Nat /\ e \in Nat /\ m <= Len(s) /\ \A j \in 1..m : s[j] \in Bytes
    OBVIOUS
  <1>1. \A j \in 1..m : p[j] = s[j]
    BY <1>0, SubSeqProperties
  <1> HIDE DEF p
  <1>2. q \in Seq(Bytes) /\ Len(q) = e /\ \A i \in 1..e : q[i] = p[i]
    BY <1>0, <1>1, SubSeqProperties
  <1>3. r \in Seq(Bytes) /\ Len(r) = e /\ \A i \in 1..e : r[i] = s[i]
    BY <1>0, SubSeqProperties
  <1> HIDE DEF q, r
  <1>4. \A i \in 1..Len(q) : q[i] = r[i]
    BY <1>0, <1>1, <1>2, <1>3
  <1>5. q = r
    BY <1>2, <1>3, <1>4, SeqEqual
  <1> QED BY <1>5 DEF p, q, r

\* A viewer that does not wait sends no newline after the line.
LEMMA NoSecondLine ==
  ASSUME Constants, NEW s \in Eager, NEW m \in 0..Len(s), Find(s) \in 1..m,
         NEW i \in DOMAIN SubSeq(s, Find(s) + 1, m)
  PROVE SubSeq(s, Find(s) + 1, m)[i] # NL
  <1> DEFINE e == Find(s)
  <1>1. s \in Seq(Bytes) /\ \A p, q \in DOMAIN s : s[p] = NL /\ s[q] = NL => p = q
    BY DEF Constants, ProxyAssumption, EagerAssumption
  <1>2. Len(s) \in Nat /\ DOMAIN s = 1..Len(s) /\ e \in 1..m /\ m \in 0..Len(s)
    BY <1>1
  <1>3. s[e] = NL /\ e \in DOMAIN s
    <2>1. e # 0
      BY <1>2
    <2>2. PICK k \in DOMAIN s : s[k] = NL
      BY <2>1, FindNone
    <2> QED BY <1>1, <2>2, FindFirst
  <1> HIDE DEF e
  <1>5. /\ Len(SubSeq(s, e + 1, m)) = IF e + 1 <= m THEN m - (e + 1) + 1 ELSE 0
        /\ \A j \in 1..(m - (e + 1) + 1) : SubSeq(s, e + 1, m)[j] = s[(e + 1) + j - 1]
        /\ SubSeq(s, e + 1, m) \in Seq(Bytes)
    <2>1. \A j \in (e + 1)..m : s[j] \in Bytes
      BY <1>1, <1>2
    <2> QED BY <1>2, <2>1, SubSeqProperties
  <1>6. i \in 1..(m - (e + 1) + 1)
    <2>1. i \in 1..Len(SubSeq(s, e + 1, m))
      BY <1>5 DEF e
    <2> QED BY <1>2, <1>5, <2>1
  <1>7. SubSeq(s, e + 1, m)[i] = s[(e + 1) + i - 1] /\ (e + 1) + i - 1 \in DOMAIN s /\ (e + 1) + i - 1 # e
    BY <1>2, <1>5, <1>6
  <1> QED BY <1>1, <1>3, <1>7 DEF e

-----------------------------------------------------------------------------
(* What a chunk does *)

\* Nothing is dialled yet.
LineIncomplete == conns' = <<>> /\ viewer' = viewer /\ data' = SubSeq(stream, 1, n') /\ Find(data') <= 1
LineRefused == conns' = <<>> /\ viewer' = "closed" /\ data' \in Seq(Bytes)
LineDialled(d) ==
  /\ conns' = <<[dom |-> d, st |-> "connecting", got |-> <<>>]>> /\ viewer' = viewer
  /\ <<d>> = SubSeq(stream, 1, LineEnd - 1) /\ LineEnd \in 2..n'
  /\ data' = Rest(n') /\ \A i \in DOMAIN data' : data'[i] # NL

LEMMA ListenOutcome ==
  ASSUME Constants, IInv, conns = <<>>, NEW k \in 1..Len(stream), ViewerSends(k)
  PROVE n' \in 0..Len(stream) /\ (LineIncomplete \/ LineRefused \/ \E d \in Domains : LineDialled(d))
  <1> DEFINE s == SubSeq(stream, 1, n + k)
             e == Find(s)
  <1>0. /\ stream \in Streams /\ stream \in Seq(Bytes) /\ Len(stream) \in Nat /\ n \in 0..Len(stream)
    BY Types
  <1>1. /\ viewer = "open" /\ n + k <= Len(stream) /\ n' = n + k /\ client = NoConn /\ down = <<>>
        /\ stream \in Eager \/ LineEnd = 0 \/ n + k <= LineEnd
        /\ data = SubSeq(stream, 1, n) /\ serverDataReceived(SubSeq(stream, n + 1, n + k))
    BY DEF ViewerSends, IInv, ListenInv
  <1>2. k \in Nat /\ n' \in 0..Len(stream) /\ n + k \in 0..Len(stream)
    BY <1>0, <1>1
  <1>3. data \o SubSeq(stream, n + 1, n + k) = s /\ s \in Seq(Bytes)
    BY <1>0, <1>1, <1>2, Chunks, 0 + 1 = 1
  <1>4. IF e > 1 THEN Dial(s, e) ELSE data' = s /\ UNCHANGED <<viewer, conns>>
    BY <1>1, <1>3, Zenon DEF serverDataReceived
  <1>5. Len(s) = n + k
    BY <1>0, <1>2
  <1>a. s = SubSeq(stream, 1, n + k)
    OBVIOUS
  <1> HIDE DEF s
  <1>6. e \in Nat
    <2>1. CASE \A i \in DOMAIN s : s[i] # NL
      BY <2>1, FindNone
    <2>2. CASE \E i \in DOMAIN s : s[i] = NL
      <3>1. e \in DOMAIN s
        BY <1>3, <2>2, FindFirst, Zenon
      <3> QED BY <1>3, <3>1
    <2> QED BY <2>1, <2>2
  <1>7. CASE ~(e > 1)
    <2>1. LineIncomplete
      <3>1. data' = s /\ viewer' = viewer /\ conns' = <<>> /\ e <= 1
        BY <1>4, <1>6, <1>7
      <3> QED BY <1>1, <1>a, <3>1 DEF LineIncomplete
    <2> QED BY <1>2, <2>1
  <1>8. CASE e > 1
    <2>1. LineEnd = e /\ e \in 2..(n + k)
      <3>1. e # 0
        BY <1>6, <1>8
      <3>2. LineEnd = e /\ e \in 1..(n + k)
        BY <1>0, <1>2, <1>a, <3>1, FindInPrefix DEF LineEnd
      <3> QED BY <1>2, <1>8, <3>2
    <2>2. SubSeq(s, e + 1, Len(s)) = Rest(n')
      <3>1. SubSeq(s, e + 1, n + k) = SubSeq(stream, e + 1, n + k)
        <4>1. e \in 0..(n + k)
          BY <1>2, <2>1
        <4> HIDE DEF e
        <4> QED BY <1>0, <1>2, <1>a, <4>1, TailOfPrefix
      <3> QED BY <1>1, <1>5, <2>1, <3>1 DEF Rest
    <2>3. SubSeq(s, 1, e - 1) = SubSeq(stream, 1, LineEnd - 1)
      <3>1. e - 1 \in 0..(n + k)
        BY <1>2, <2>1
      <3> HIDE DEF e
      <3> QED BY <1>0, <1>2, <1>a, <2>1, <3>1, PrefixOfPrefix
    <2>4. \A i \in DOMAIN Rest(n') : Rest(n')[i] # NL
      <3>1. CASE stream \in Eager
        <4>1. Find(stream) \in 1..(n + k)
          BY <1>2, <2>1 DEF LineEnd
        <4> QED BY <1>1, <1>2, <3>1, <4>1, NoSecondLine DEF Rest, LineEnd
      <3>2. CASE stream \notin Eager
        <4>1. n + k = LineEnd
          BY <1>1, <1>2, <2>1, <3>2
        <4>2. Rest(n') = <<>>
          BY <1>0, <1>1, <1>2, <4>1 DEF Rest
        <4> QED BY <4>2
      <3> QED BY <3>1, <3>2
    <2>5. Dial(s, e)
      BY <1>4, <1>8
    <2> HIDE DEF s, e
    <2>6. CASE viewer' = "closed" /\ data' = s /\ UNCHANGED conns
      BY <1>2, <1>3, <2>6 DEF LineRefused
    <2>7. CASE viewer' = "closed" /\ data' = SubSeq(s, e + 1, Len(s)) /\ UNCHANGED conns
      <3>1. Rest(n') \in Seq(Bytes)
        <4>1. \A j \in (LineEnd + 1)..(n + k) : stream[j] \in Bytes
          BY <1>0, <1>2, <2>1
        <4>2. LineEnd + 1 \in Int /\ n + k \in Int
          BY <1>2, <2>1
        <4> QED BY <1>1, <4>1, <4>2, SubSeqProperties DEF Rest
      <3> QED BY <1>2, <2>2, <2>7, <3>1, Zenon DEF LineRefused
    <2>8. CASE \E d \in Domains :
                 /\ SubSeq(s, 1, e - 1) = <<d>>
                 /\ conns' = Append(conns, [dom |-> d, st |-> "connecting", got |-> <<>>])
                 /\ data' = SubSeq(s, e + 1, Len(s)) /\ UNCHANGED viewer
      <3>1. PICK d \in Domains :
              /\ SubSeq(s, 1, e - 1) = <<d>>
              /\ conns' = Append(conns, [dom |-> d, st |-> "connecting", got |-> <<>>])
              /\ data' = SubSeq(s, e + 1, Len(s)) /\ UNCHANGED viewer
        BY <2>8
      <3>2. conns' = <<[dom |-> d, st |-> "connecting", got |-> <<>>]>>
        BY <3>1
      <3>3. LineEnd \in 2..n'
        BY <1>1, <2>1
      <3>4. LineDialled(d)
        BY <2>2, <2>3, <2>4, <3>1, <3>2, <3>3, Zenon DEF LineDialled
      <3> QED BY <1>2, <3>4
    <2> QED BY <2>5, <2>6, <2>7, <2>8 DEF Dial
  <1> QED BY <1>6, <1>7, <1>8

\* The domain is dialled.
Buffered ==
  client = NoConn /\ UNCHANGED <<conns, viewer>> /\ data' = Rest(n') /\ \A i \in DOMAIN data' : data'[i] # NL
PassedOn ==
  client = 1 /\ UNCHANGED <<viewer, data>> /\ conns[1].st = "up" /\ conns' = [conns EXCEPT ![1].got = Rest(n')]

LEMMA LinkOutcome ==
  ASSUME Constants, IInv, conns # <<>>, NEW k \in 1..Len(stream), ViewerSends(k)
  PROVE n' \in 0..Len(stream) /\ n <= n' /\ Rest(n') \in Seq(Bytes) /\ (Buffered \/ PassedOn)
  <1> DEFINE chunk == SubSeq(stream, n + 1, n + k)
  <1>0. /\ stream \in Streams /\ stream \in Seq(Bytes) /\ Len(stream) \in Nat /\ n \in 0..Len(stream)
        /\ NoConn \notin Nat /\ client \in {1, NoConn} /\ DOMAIN conns = {1} /\ conns[1] \in Conn /\ conns \in Seq(Conn)
    BY Types
  <1>1. /\ viewer = "open" /\ n + k <= Len(stream) /\ n' = n + k /\ LinkInv
        /\ stream \in Eager \/ down # <<>> \/ LineEnd = 0 \/ n + k <= LineEnd
        /\ serverDataReceived(chunk)
    BY DEF ViewerSends, IInv
  <1>2. k \in Nat /\ k > 0 /\ n' \in 0..Len(stream) /\ n + k \in 0..Len(stream) /\ n <= n' /\ LineEnd \in 2..n /\ LineEnd \in 0..n
    BY <1>0, <1>1 DEF LinkInv
  <1>3. Rest(n) \o chunk = Rest(n') /\ Rest(n') \in Seq(Bytes)
    BY <1>0, <1>1, <1>2, Chunks DEF Rest
  <1> HIDE DEF chunk
  <1>4. CASE client = NoConn
    <2>1. data = Rest(n) /\ down = <<>>
      BY <1>1, <1>4 DEF LinkInv
    <2>2. stream \in Eager
      BY <1>0, <1>1, <1>2, <2>1
    <2>3. \A i \in DOMAIN Rest(n') : Rest(n')[i] # NL
      <3>1. Find(stream) \in 1..(n + k)
        BY <1>0, <1>2 DEF LineEnd
      <3> QED BY <1>1, <1>2, <2>2, <3>1, NoSecondLine DEF Rest, LineEnd
    <2>4. Find(Rest(n')) = 0
      BY <2>3, FindNone
    <2> DEFINE s == data \o chunk
    <2>5. IF Find(s) > 1 THEN Dial(s, Find(s)) ELSE data' = s /\ UNCHANGED <<viewer, conns>>
      BY <1>1, <1>4, Zenon DEF serverDataReceived
    <2>a. s = Rest(n')
      BY <1>3, <2>1
    <2> HIDE DEF s
    <2>6. data' = Rest(n') /\ UNCHANGED <<viewer, conns>>
      BY <2>4, <2>5, <2>a
    <2> QED BY <1>2, <1>3, <1>4, <2>3, <2>6 DEF Buffered
  <1>5. CASE client # NoConn
    <2>1. client = 1 /\ conns[1].st = "up" /\ conns[1].got = Rest(n)
      BY <1>0, <1>1, <1>5 DEF LinkInv, Conn
    <2>2. conns' = Write(1, chunk) /\ UNCHANGED <<viewer, data>>
      BY <1>1, <1>5, <2>1 DEF serverDataReceived
    <2>3. conns' = [conns EXCEPT ![1].got = Rest(n')]
      BY <1>3, <2>1, <2>2 DEF Write
    <2> QED BY <1>2, <1>3, <2>1, <2>2, <2>3 DEF PassedOn
  <1> QED BY <1>4, <1>5

-----------------------------------------------------------------------------
(* Every step keeps the invariant *)

LEMMA InitIInv ==
  ASSUME Constants, Init PROVE IInv
  <1>1. /\ stream \in Streams /\ n = 0 /\ viewer = "open" /\ data = <<>> /\ client = NoConn /\ conns = <<>> /\ down = <<>>
    BY DEF Init
  <1>2. stream \in Seq(Bytes)
    BY <1>1 DEF Constants, ProxyAssumption
  <1>3. TypeOK
    BY <1>1, <1>2 DEF TypeOK
  <1>4. data = SubSeq(stream, 1, n)
    BY <1>1, <1>2
  <1>5. Find(data) = 0
    <2>1. \A i \in DOMAIN data : data[i] # NL
      BY <1>1
    <2> QED BY <2>1, FindNone
  <1> QED BY <1>1, <1>3, <1>4, <1>5 DEF IInv, ListenInv

LEMMA ListenSendsIInv ==
  ASSUME Constants, IInv, conns = <<>>, NEW k \in 1..Len(stream), ViewerSends(k) PROVE IInv'
  <1>0. /\ TypeOK /\ client = NoConn /\ down = <<>> /\ UNCHANGED <<stream, client, down>>
        /\ stream \in Seq(Bytes) /\ Len(stream) \in Nat
    BY Types DEF IInv, ListenInv, ViewerSends
  <1>1. n' \in 0..Len(stream) /\ (LineIncomplete \/ LineRefused \/ \E d \in Domains : LineDialled(d))
    BY ListenOutcome
  <1>2. CASE LineIncomplete
    <2>1. SubSeq(stream, 1, n') \in Seq(Bytes)
      BY <1>0, <1>1
    <2>2. TypeOK'
      BY <1>0, <1>1, <1>2, <2>1 DEF TypeOK, LineIncomplete
    <2> QED BY <1>0, <1>2, <2>2 DEF IInv, ListenInv, LineIncomplete
  <1>3. CASE LineRefused
    <2>1. TypeOK'
      BY <1>0, <1>1, <1>3 DEF TypeOK, LineRefused
    <2> QED BY <1>0, <1>3, <2>1 DEF IInv, ListenInv, LineRefused
  <1>4. ASSUME NEW d \in Domains, LineDialled(d) PROVE IInv'
    <2> DEFINE c == [dom |-> d, st |-> "connecting", got |-> <<>>]
    <2>1. /\ conns' = <<c>> /\ viewer' = viewer /\ <<d>> = SubSeq(stream, 1, LineEnd - 1) /\ LineEnd \in 2..n'
          /\ data' = Rest(n') /\ \A i \in DOMAIN data' : data'[i] # NL
      BY <1>4 DEF LineDialled
    <2>2. c \in Conn /\ c.dom = d /\ c.st = "connecting"
      BY DEF Conn
    <2> HIDE DEF c
    <2>3. conns' \in Seq(Conn) /\ Len(conns') = 1 /\ conns'[1] = c /\ conns' # <<>>
      BY <2>1, <2>2
    <2>4. Rest(n') \in Seq(Bytes)
      <3>1. \A j \in (LineEnd + 1)..n' : stream[j] \in Bytes
        BY <1>0, <1>1, <2>1
      <3>2. LineEnd + 1 \in Int /\ n' \in Int
        BY <1>1, <2>1
      <3> QED BY <3>1, <3>2, SubSeqProperties DEF Rest
    <2>5. TypeOK'
      BY <1>0, <1>1, <2>1, <2>3, <2>4 DEF TypeOK
    <2>6. LineEnd' = LineEnd /\ Rest(n)' = Rest(n')
      BY <1>0 DEF LineEnd, Rest
    <2>7. LinkInv'
      BY <1>0, <2>1, <2>2, <2>3, <2>6 DEF LinkInv
    <2> QED BY <2>3, <2>5, <2>7 DEF IInv
  <1> QED BY <1>1, <1>2, <1>3, <1>4

LEMMA LinkSendsIInv ==
  ASSUME Constants, IInv, conns # <<>>, NEW k \in 1..Len(stream), ViewerSends(k) PROVE IInv'
  <1>0. /\ TypeOK /\ LinkInv /\ UNCHANGED <<stream, client, down>>
        /\ stream \in Seq(Bytes) /\ Len(stream) \in Nat /\ n \in 0..Len(stream)
        /\ conns \in Seq(Conn) /\ DOMAIN conns = {1} /\ conns[1] \in Conn /\ Len(conns) = 1 /\ NoConn # 1
    <2>1. TypeOK /\ LinkInv /\ Len(conns) = 1 /\ UNCHANGED <<stream, client, down>>
      BY Zenon DEF IInv, LinkInv, ViewerSends
    <2>2. NoConn # 1
      BY Types
    <2> QED BY <2>1, <2>2, Types
  <1>1. n' \in 0..Len(stream) /\ n <= n' /\ Rest(n') \in Seq(Bytes) /\ (Buffered \/ PassedOn)
    BY LinkOutcome
  <1>2. LineEnd' = LineEnd /\ Rest(n)' = Rest(n') /\ LineEnd \in 2..n'
    BY <1>0, <1>1 DEF LineEnd, Rest, LinkInv
  <1>3. CASE Buffered
    <2>1. TypeOK'
      BY <1>0, <1>1, <1>3 DEF TypeOK, Buffered
    <2>2. LinkInv'
      BY <1>0, <1>2, <1>3 DEF LinkInv, Buffered
    <2> QED BY <1>3, <2>1, <2>2 DEF IInv, Buffered
  <1>4. CASE PassedOn
    <2>1. client = 1 /\ UNCHANGED <<viewer, data>> /\ conns' = [conns EXCEPT ![1] = [conns[1] EXCEPT !.got = Rest(n')]]
          /\ conns[1].st = "up"
      BY <1>4 DEF PassedOn
    <2>2. [conns[1] EXCEPT !.got = Rest(n')] \in Conn
      BY <1>0, <1>1 DEF Conn
    <2>3. conns' \in Seq(Conn) /\ Len(conns') = 1 /\ conns'[1] = [conns[1] EXCEPT !.got = Rest(n')] /\ conns' # <<>>
      BY <1>0, <2>1, <2>2
    <2>4. conns'[1].dom = conns[1].dom /\ conns'[1].st = "up" /\ conns'[1].got = Rest(n')
      BY <1>0, <2>1, <2>3 DEF Conn
    <2>5. TypeOK'
      BY <1>0, <1>1, <2>1, <2>3 DEF TypeOK
    <2>6. LinkInv'
      BY <1>0, <1>2, <2>1, <2>3, <2>4, Zenon DEF LinkInv
    <2> QED BY <2>3, <2>5, <2>6 DEF IInv
  <1> QED BY <1>1, <1>3, <1>4

LEMMA LeavesIInv ==
  ASSUME Constants, IInv, ViewerLeaves PROVE IInv'
  <1>1. viewer' = "closed" /\ UNCHANGED <<stream, n, data, client, conns, down>>
    BY DEF ViewerLeaves
  <1>2. TypeOK'
    BY <1>1 DEF IInv, TypeOK
  <1>3. LineEnd' = LineEnd /\ Rest(n)' = Rest(n)
    BY <1>1 DEF LineEnd, Rest
  <1>4. conns = <<>> => ListenInv'
    BY <1>1 DEF IInv, ListenInv
  <1>5. conns # <<>> => LinkInv'
    BY <1>1, <1>3 DEF IInv, LinkInv
  <1> QED BY <1>1, <1>2, <1>4, <1>5 DEF IInv

\* The connections of a viewer are one, or none.
LEMMA OneConn ==
  ASSUME Constants, IInv, NEW c \in 1..Len(conns)
  PROVE /\ c = 1 /\ LinkInv /\ TypeOK /\ conns # <<>> /\ conns \in Seq(Conn) /\ DOMAIN conns = {1} /\ Len(conns) = 1
        /\ conns[1] \in Conn /\ client \in {1, NoConn} /\ NoConn # 1
  <1>1. conns # <<>>
    BY DEF IInv, TypeOK
  <1>2. LinkInv /\ TypeOK /\ Len(conns) = 1
    BY <1>1 DEF IInv, LinkInv
  <1>3. NoConn # 1
    BY Types
  <1> QED BY <1>1, <1>2, <1>3, Types

LEMMA MadeIInv ==
  ASSUME Constants, IInv, NEW c \in 1..Len(conns), clientConnectionMade(c) PROVE IInv'
  <1>0. /\ c = 1 /\ LinkInv /\ TypeOK /\ conns # <<>> /\ conns \in Seq(Conn) /\ DOMAIN conns = {1} /\ Len(conns) = 1
        /\ conns[1] \in Conn /\ client \in {1, NoConn} /\ NoConn # 1
    BY OneConn
  <1>1. /\ conns[1].st = "connecting" /\ client' = 1 /\ UNCHANGED <<stream, n, viewer, data, down>>
        /\ conns' = [conns EXCEPT ![1].st = "up", ![1].got = data]
    BY <1>0 DEF clientConnectionMade
  <1>2. data \in Seq(Bytes) /\ data = Rest(n)
    BY <1>0, <1>1 DEF TypeOK, LinkInv
  <1> DEFINE u == [conns[1] EXCEPT !.st = "up"]
             d == [u EXCEPT !.got = data]
  <1>3. conns' = [conns EXCEPT ![1] = d]
    <2>1. conns' = [[conns EXCEPT ![1] = u] EXCEPT ![1] = d]
      BY <1>0, <1>1
    <2> HIDE DEF u, d
    <2> QED BY <1>0, <2>1, Zenon
  <1>a. u \in Conn /\ u.dom = conns[1].dom /\ u.st = "up"
    BY <1>0 DEF Conn
  <1> HIDE DEF u
  <1>4. d \in Conn /\ d.dom = conns[1].dom /\ d.st = "up" /\ d.got = data
    BY <1>2, <1>a DEF Conn
  <1> HIDE DEF d
  <1>5. conns' \in Seq(Conn) /\ Len(conns') = 1 /\ conns'[1] = d /\ conns' # <<>>
    BY <1>0, <1>3, <1>4
  <1>6. LineEnd' = LineEnd /\ Rest(n)' = Rest(n)
    BY <1>1 DEF LineEnd, Rest
  <1>7. TypeOK'
    BY <1>0, <1>1, <1>5 DEF TypeOK
  <1>8. LinkInv'
    BY <1>0, <1>1, <1>2, <1>4, <1>5, <1>6, Zenon DEF LinkInv
  <1> QED BY <1>5, <1>7, <1>8 DEF IInv

LEMMA OverIInv ==
  ASSUME Constants, IInv, NEW c \in 1..Len(conns), clientConnectionOver(c) PROVE IInv'
  <1>0. /\ c = 1 /\ LinkInv /\ TypeOK /\ conns # <<>> /\ conns \in Seq(Conn) /\ DOMAIN conns = {1} /\ Len(conns) = 1
        /\ conns[1] \in Conn /\ client \in {1, NoConn} /\ NoConn # 1
    BY OneConn
  <1> DEFINE d == [conns[1] EXCEPT !.st = "over"]
  <1>1. viewer' = "closed" /\ conns' = [conns EXCEPT ![1] = d] /\ UNCHANGED <<stream, n, data, client, down>>
    BY <1>0 DEF clientConnectionOver
  <1>2. d \in Conn /\ d.dom = conns[1].dom /\ d.st = "over"
    BY <1>0 DEF Conn
  <1> HIDE DEF d
  <1>3. conns' \in Seq(Conn) /\ Len(conns') = 1 /\ conns'[1] = d /\ conns' # <<>>
    BY <1>0, <1>1, <1>2
  <1>4. LineEnd' = LineEnd /\ Rest(n)' = Rest(n)
    BY <1>1 DEF LineEnd, Rest
  <1>5. TypeOK'
    BY <1>0, <1>1, <1>3 DEF TypeOK
  <1>6. LinkInv'
    BY <1>0, <1>1, <1>2, <1>3, <1>4 DEF LinkInv
  <1> QED BY <1>3, <1>5, <1>6 DEF IInv

LEMMA DownIInv ==
  ASSUME Constants, IInv, NEW c \in 1..Len(conns), clientDataReceived(c) PROVE IInv'
  <1>0. /\ c = 1 /\ LinkInv /\ TypeOK /\ conns # <<>> /\ Len(conns) = 1 /\ client \in {1, NoConn}
    BY OneConn
  <1>1. conns[1].st = "up" /\ UNCHANGED <<stream, n, viewer, data, client, conns>> /\ down' \in {down, Append(down, 1)}
    BY <1>0 DEF clientDataReceived
  <1>2. client # NoConn
    BY <1>0, <1>1 DEF LinkInv
  <1>3. down' \in Seq(1..Len(conns))
    BY <1>0, <1>1 DEF TypeOK
  <1>4. TypeOK'
    BY <1>0, <1>1, <1>3 DEF TypeOK
  <1>5. LineEnd' = LineEnd /\ Rest(n)' = Rest(n)
    BY <1>1 DEF LineEnd, Rest
  <1>6. LinkInv'
    BY <1>0, <1>1, <1>2, <1>5 DEF LinkInv
  <1> QED BY <1>0, <1>1, <1>4, <1>6 DEF IInv

LEMMA StepIInv ==
  ASSUME Constants, IInv, [Next]_vars PROVE IInv'
  <1>1. ASSUME NEW k \in 1..Len(stream), ViewerSends(k) PROVE IInv'
    BY <1>1, ListenSendsIInv, LinkSendsIInv
  <1>2. CASE ViewerLeaves
    BY <1>2, LeavesIInv
  <1>3. ASSUME NEW c \in 1..Len(conns), Answered(c) PROVE IInv'
    BY <1>3, MadeIInv, OverIInv DEF Answered
  <1>4. ASSUME NEW c \in 1..Len(conns), clientDataReceived(c) PROVE IInv'
    BY <1>4, DownIInv
  <1>5. CASE UNCHANGED vars
    <2>1. UNCHANGED <<stream, n, viewer, data, client, conns, down>>
      BY <1>5 DEF vars
    <2>2. LineEnd' = LineEnd /\ Rest(n)' = Rest(n)
      BY <2>1 DEF LineEnd, Rest
    <2>3. TypeOK' /\ (conns = <<>> => ListenInv') /\ (conns # <<>> => LinkInv')
      BY <2>1, <2>2, Zenon DEF IInv, TypeOK, ListenInv, LinkInv
    <2> QED BY <2>1, <2>3 DEF IInv
  <1> QED BY <1>1, <1>2, <1>3, <1>4, <1>5, Zenon DEF Next

LEMMA IInvConsole ==
  ASSUME Constants, IInv PROVE ConsoleIsRight
  <1>1. CASE conns = <<>>
    BY <1>1 DEF IInv, ConsoleIsRight, OneConsole, Conserved
  <1>2. CASE conns # <<>>
    <2>1. DOMAIN conns = {1} /\ LinkInv /\ TypeOK /\ Len(conns) = 1
      BY <1>2, Types, Zenon DEF IInv, LinkInv
    <2>2. conns[1].st = "up" => conns[1].got = SubSeq(stream, LineEnd + 1, n)
      BY <2>1 DEF LinkInv, Rest
    <2> QED BY <2>1, <2>2 DEF ConsoleIsRight, OneConsole, Conserved, LinkInv
  <1> QED BY <1>1, <1>2

\* However the viewer's bytes are cut into chunks, dataReceived calls connectTCP at most once, for the domain that
\* the first line names, and the console that answers has received exactly the bytes after the line, those that
\* came before vncClient was called included (VNCServerProtocol.dataReceived, vncClient).
THEOREM ConsoleStaysRight ==
  ASSUME Constants PROVE Spec => []ConsoleIsRight
  <1>1. Init => IInv
    BY InitIInv
  <1>2. IInv /\ [Next]_vars => IInv'
    BY StepIInv
  <1>3. IInv => ConsoleIsRight
    BY IInvConsole
  <1> QED BY <1>1, <1>2, <1>3, PTL DEF Spec

-----------------------------------------------------------------------------
(* The proxy implements the tunnel *)

LEMMA PrefixOfChunks ==
  ASSUME NEW s \in Seq(Bytes), NEW t \in Seq(Bytes) PROVE Tunnel!IsPrefixOf(s, s \o t)
  <1>1. Len(s) \in Nat /\ Len(t) \in Nat /\ Len(s \o t) = Len(s) + Len(t) /\ s \o t \in Seq(Bytes)
    OBVIOUS
  <1>2. SubSeq(s \o t, 1, Len(s)) = s
    OBVIOUS
  <1> QED BY <1>1, <1>2 DEF Tunnel!IsPrefixOf

\* What the viewer has been promised, as VNCTunnel sees it.
Accepted == IF conns = <<>> THEN <<>> ELSE SubSeq(stream, LineEnd + 1, n)
Delivered == IF client = NoConn THEN <<>> ELSE conns[client].got
Console == IF client = NoConn THEN NoConn ELSE conns[client].dom

\* A chunk is a step of the tunnel.
LEMMA SendsTunnel ==
  ASSUME Constants, IInv, NEW k \in 1..Len(stream), ViewerSends(k)
  PROVE \/ /\ viewer = "open" /\ UNCHANGED <<Console, viewer>>
           /\ Tunnel!IsPrefixOf(Accepted, Accepted') /\ Accepted' \in Seq(Bytes)
           /\ Delivered' \in {Delivered, Accepted'} /\ (Delivered' # Delivered => Console # NoConn)
        \/ viewer' = "closed" /\ UNCHANGED <<Accepted, Delivered, Console>>
  <1>0. viewer = "open" /\ UNCHANGED <<stream, client, down>> /\ n' = n + k /\ n + k <= Len(stream)
    BY DEF ViewerSends
  <1>1. CASE conns = <<>>
    <2>1. client = NoConn /\ client' = NoConn /\ Accepted = <<>>
      BY <1>0, <1>1 DEF IInv, ListenInv, Accepted
    <2>2. Delivered = <<>> /\ Delivered' = <<>> /\ Console = NoConn /\ Console' = NoConn
      BY <2>1 DEF Delivered, Console
    <2>3. IInv' /\ n' \in 0..Len(stream) /\ (LineIncomplete \/ LineRefused \/ \E d \in Domains : LineDialled(d))
      BY <1>1, ListenOutcome, ListenSendsIInv
    <2>4. CASE LineIncomplete
      <3>1. Accepted' = <<>> /\ viewer' = viewer
        BY <2>4 DEF LineIncomplete, Accepted
      <3>2. Tunnel!IsPrefixOf(<<>>, <<>>)
        BY DEF Tunnel!IsPrefixOf
      <3> QED BY <1>0, <2>1, <2>2, <3>1, <3>2
    <2>5. CASE LineRefused
      <3>1. Accepted' = <<>> /\ viewer' = "closed"
        BY <2>5 DEF LineRefused, Accepted
      <3> QED BY <2>1, <2>2, <3>1
    <2>6. ASSUME NEW d \in Domains, LineDialled(d)
          PROVE viewer' = viewer /\ Accepted' \in Seq(Bytes) /\ Tunnel!IsPrefixOf(<<>>, Accepted')
      <3>1. viewer' = viewer /\ conns' # <<>> /\ data' = Rest(n')
        BY <2>6 DEF LineDialled
      <3>2. Accepted' = data'
        BY <1>0, <3>1, Zenon DEF Accepted, Rest, LineEnd
      <3>3. data' \in Seq(Bytes)
        BY <2>3 DEF IInv, TypeOK
      <3>4. Tunnel!IsPrefixOf(<<>>, data')
        BY <3>3 DEF Tunnel!IsPrefixOf
      <3> QED BY <3>1, <3>2, <3>3, <3>4
    <2> QED BY <1>0, <2>1, <2>2, <2>3, <2>4, <2>5, <2>6
  <1>2. CASE conns # <<>>
    <2>0. /\ stream \in Seq(Bytes) /\ Len(stream) \in Nat /\ n \in 0..Len(stream) /\ LinkInv
          /\ conns \in Seq(Conn) /\ DOMAIN conns = {1} /\ conns[1] \in Conn /\ NoConn \notin Domains /\ NoConn \notin Nat
      BY <1>2, Types DEF IInv
    <2>1. n' \in 0..Len(stream) /\ n <= n' /\ Rest(n') \in Seq(Bytes) /\ (Buffered \/ PassedOn)
      BY <1>2, LinkOutcome
    <2>2. Accepted = Rest(n)
      BY <1>2, Zenon DEF Accepted, Rest
    <2>3. Tunnel!IsPrefixOf(Rest(n), Rest(n'))
      <3> DEFINE chunk == SubSeq(stream, n + 1, n + k)
      <3>1. k \in Nat /\ LineEnd \in 0..n
        BY <2>0 DEF LinkInv
      <3>2. Rest(n) \o chunk = Rest(n') /\ chunk \in Seq(Bytes)
        BY <1>0, <2>0, <3>1, Chunks DEF Rest
      <3>3. Rest(n) \in Seq(Bytes)
        <4>1. \A j \in (LineEnd + 1)..n : stream[j] \in Bytes
          BY <2>0, <3>1
        <4>2. LineEnd + 1 \in Int /\ n \in Int
          BY <2>0, <3>1
        <4> QED BY <4>1, <4>2, SubSeqProperties DEF Rest
      <3> HIDE DEF chunk
      <3> QED BY <3>2, <3>3, PrefixOfChunks, Zenon
    <2>4. CASE Buffered
      <3>1. conns' = conns /\ viewer' = viewer /\ client = NoConn
        BY <2>4 DEF Buffered
      <3>2. Accepted' = Rest(n') /\ Delivered' = Delivered /\ Console' = Console
        BY <1>0, <1>2, <3>1, Zenon DEF Accepted, Delivered, Console, Rest, LineEnd
      <3> QED BY <1>0, <2>1, <2>2, <2>3, <3>1, <3>2
    <2>5. CASE PassedOn
      <3>1. client = 1 /\ viewer' = viewer /\ conns' = [conns EXCEPT ![1] = [conns[1] EXCEPT !.got = Rest(n')]]
        BY <2>5 DEF PassedOn
      <3>2. conns' # <<>> /\ conns'[1].got = Rest(n') /\ conns'[1].dom = conns[1].dom /\ conns[1].dom \in Domains
        BY <2>0, <3>1 DEF Conn
      <3>3. Accepted' = Rest(n')
        BY <1>0, <3>2, Zenon DEF Accepted, Rest, LineEnd
      <3>4. client' = 1 /\ client = 1 /\ 1 # NoConn
        BY <1>0, <2>0, <3>1
      <3>5. Delivered' = Rest(n') /\ Console' = Console /\ Console # NoConn
        BY <2>0, <3>2, <3>4 DEF Delivered, Console
      <3> QED BY <1>0, <2>1, <2>2, <2>3, <3>1, <3>3, <3>5
    <2> QED BY <2>1, <2>4, <2>5
  <1> QED BY <1>1, <1>2

\* Every step of the proxy is a step of the tunnel, or none.
LEMMA StepTunnel ==
  ASSUME Constants, IInv, [Next]_vars PROVE [Tunnel!TunnelNext]_(Tunnel!tunnelVars)
  <1> DEFINE Same == UNCHANGED <<Accepted, Delivered, Console, viewer>>
             Takes == /\ viewer = "open" /\ UNCHANGED <<Console, viewer>>
                      /\ Tunnel!IsPrefixOf(Accepted, Accepted') /\ Accepted' \in Seq(Bytes)
                      /\ Delivered' \in {Delivered, Accepted'} /\ (Delivered' # Delivered => Console # NoConn)
             Digs == /\ Console = NoConn /\ Console' \in Domains
                     /\ Delivered' = Accepted /\ UNCHANGED <<Accepted, viewer>>
             Closes == viewer' = "closed" /\ UNCHANGED <<Accepted, Delivered, Console>>
  <1>0. Takes \/ Digs \/ Closes \/ Same => [Tunnel!TunnelNext]_(Tunnel!tunnelVars)
    BY DEF Tunnel!TunnelNext, Tunnel!Take, Tunnel!Dig, Tunnel!Close, Tunnel!tunnelVars, Accepted, Delivered, Console
  <1>1. ASSUME NEW k \in 1..Len(stream), ViewerSends(k) PROVE Takes \/ Closes
    BY <1>1, SendsTunnel
  <1>2. CASE ViewerLeaves
    <2>1. viewer' = "closed" /\ UNCHANGED <<stream, n, data, client, conns, down>>
      BY <1>2 DEF ViewerLeaves
    <2>2. Closes
      BY <2>1 DEF Accepted, Delivered, Console, LineEnd
    <2> QED BY <1>0, <2>2
  <1>3. ASSUME NEW c \in 1..Len(conns), clientConnectionMade(c) PROVE Digs
    <2>0. /\ c = 1 /\ LinkInv /\ TypeOK /\ conns # <<>> /\ conns \in Seq(Conn) /\ DOMAIN conns = {1} /\ Len(conns) = 1
          /\ conns[1] \in Conn /\ client \in {1, NoConn} /\ NoConn # 1
      BY OneConn
    <2>1. /\ conns[1].st = "connecting" /\ client' = 1 /\ UNCHANGED <<stream, n, viewer, data, down>>
          /\ conns' = [conns EXCEPT ![1].st = "up", ![1].got = data]
      BY <1>3, <2>0 DEF clientConnectionMade
    <2>2. client = NoConn /\ data = Rest(n)
      BY <2>0, <2>1 DEF LinkInv
    <2>3. conns' # <<>> /\ conns'[1].got = data /\ conns'[1].dom = conns[1].dom /\ conns[1].dom \in Domains
      BY <2>0, <2>1 DEF Conn
    <2>4. Accepted = data /\ Accepted' = Accepted
      BY <2>0, <2>1, <2>2, <2>3, Zenon DEF Accepted, Rest, LineEnd
    <2> QED BY <2>0, <2>1, <2>2, <2>3, <2>4 DEF Delivered, Console
  <1>4. ASSUME NEW c \in 1..Len(conns), clientConnectionOver(c) PROVE Closes
    <2>0. /\ c = 1 /\ conns # <<>> /\ conns \in Seq(Conn) /\ DOMAIN conns = {1} /\ conns[1] \in Conn /\ client \in {1, NoConn}
      BY OneConn
    <2>1. viewer' = "closed" /\ conns' = [conns EXCEPT ![1] = [conns[1] EXCEPT !.st = "over"]] /\ UNCHANGED <<stream, n, data, client, down>>
      BY <1>4, <2>0 DEF clientConnectionOver
    <2>2. conns' # <<>> /\ conns'[1].got = conns[1].got /\ conns'[1].dom = conns[1].dom
      BY <2>0, <2>1 DEF Conn
    <2> QED BY <2>0, <2>1, <2>2, Zenon DEF Accepted, Delivered, Console, LineEnd
  <1>5. ASSUME NEW c \in 1..Len(conns), clientDataReceived(c) PROVE Same
    BY <1>5 DEF clientDataReceived, Accepted, Delivered, Console, LineEnd
  <1>6. CASE UNCHANGED vars
    <2>1. Same
      BY <1>6 DEF vars, Accepted, Delivered, Console, LineEnd
    <2> QED BY <1>0, <2>1
  <1> HIDE DEF Same, Takes, Digs, Closes
  <1>7. ASSUME NEW c \in 1..Len(conns), Answered(c) PROVE Digs \/ Closes
    BY <1>3, <1>4, <1>7 DEF Answered
  <1> QED BY <1>0, <1>1, <1>2, <1>5, <1>6, <1>7, Zenon DEF Next

\* The proxy implements the tunnel: the viewer is led to one console, chosen once, and what reaches it is what the
\* viewer sent after its line, in order, until either side is gone (VNCServerProtocol, VNCClientProtocol).
THEOREM ProxyImplementsTunnel ==
  ASSUME Constants PROVE Spec => ImplementsTunnel
  <1>1. Init => IInv
    BY InitIInv
  <1>2. IInv /\ [Next]_vars => IInv'
    BY StepIInv
  <1>3. Init => Tunnel!TunnelInit
    BY DEF Init, Tunnel!TunnelInit
  <1>4. IInv /\ [Next]_vars => [Tunnel!TunnelNext]_(Tunnel!tunnelVars)
    BY StepTunnel
  <1> QED BY <1>1, <1>2, <1>3, <1>4, PTL DEF Spec, ImplementsTunnel, Tunnel!TunnelSpec

=============================================================================
