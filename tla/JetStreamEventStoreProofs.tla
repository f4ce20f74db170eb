---------------------- MODULE JetStreamEventStoreProofs ----------------------
(***************************************************************************)
(* Theorems about the JetStream store, for every number of clients and     *)
(* subjects, every size of the change sets (also those whose indices start *)
(* again at 0) and every length of the stream, with late messages and lost *)
(* acknowledgements.                                                       *)
(***************************************************************************)
EXTENDS JetStreamEventStore, InductionLemmas, FiniteSetTheorems

USE StreamAssumption

-----------------------------------------------------------------------------
(***************************************************************************)
(* Revisions.                                                              *)
(***************************************************************************)
(* Products grow with their first factor. *)
LEMMA ProductGrows ==
  ASSUME NEW m \in Nat, NEW n \in Nat, m <= n, NEW w \in Nat
  PROVE  m * w <= n * w
  <1>. PICK d \in Nat : n = m + d
    <2>. n - m \in Nat /\ n = m + (n - m)
      OBVIOUS
    <2>. QED
      OBVIOUS
  <1>1. (m + d) * w = m * w + d * w /\ d * w \in Nat /\ m * w \in Nat
    OBVIOUS
  <1>. QED
    BY <1>1

(* The revisions of a message lie between its number and the next, so that *)
(* the number is read back.                                                *)
LEMMA RevisionFacts ==
  ASSUME NEW k \in Nat, NEW i \in Nat
  PROVE  /\ EncodeRevision(k, i) \in Nat
         /\ k * IndexWidth <= EncodeRevision(k, i) /\ EncodeRevision(k, i) < (k + 1) * IndexWidth
         /\ DecodeSequenceNumber(EncodeRevision(k, i)) = k
  <1>. DEFINE w == IndexWidth
              r == k * w + (i % w)
              q == r \div w
  <1>1. w \in Nat \ {0} /\ i % w \in Nat /\ i % w < w
    OBVIOUS
  <1>2. k * w \in Nat /\ (k + 1) * w = k * w + w
    BY <1>1
  <1>3. r \in Nat /\ k * w <= r /\ r < (k + 1) * w
    BY <1>1, <1>2
  <1>4. q = k
    <2>. HIDE DEF r, w
    <2>1. q \in Nat /\ q * w <= r /\ r < (q + 1) * w
      BY <1>1, <1>3
    <2>. HIDE DEF q
    <2>2. ASSUME q < k PROVE FALSE
      <3>1. (q + 1) * w <= k * w
        BY <1>1, <2>1, <2>2, ProductGrows
      <3>. QED
        BY <1>1, <1>2, <1>3, <2>1, <3>1
    <2>3. ASSUME k < q PROVE FALSE
      <3>1. (k + 1) * w <= q * w
        BY <1>1, <2>1, <2>3, ProductGrows
      <3>. QED
        BY <1>1, <1>2, <1>3, <2>1, <3>1
    <2>. QED
      BY <2>1, <2>2, <2>3
  <1>. QED
    BY <1>3, <1>4 DEF EncodeRevision, DecodeSequenceNumber

(* The initial revision is read as a subject without messages. *)
LEMMA InitialIsZero == DecodeSequenceNumber(InitialRevision) = 0
  BY DEF DecodeSequenceNumber, InitialRevision

(* The messages within the bound have revisions. *)
LEMMA RevisionType ==
  ASSUME NEW k \in 1 .. MaxMessages, NEW i \in Nat
  PROVE  EncodeRevision(k, i) \in Revision
  <1>1. /\ EncodeRevision(k, i) \in Nat
        /\ k * IndexWidth <= EncodeRevision(k, i) /\ EncodeRevision(k, i) < (k + 1) * IndexWidth
    BY RevisionFacts
  <1>2. 1 * IndexWidth <= k * IndexWidth /\ (k + 1) * IndexWidth <= (MaxMessages + 1) * IndexWidth
    BY ProductGrows
  <1>3. 1 * IndexWidth = IndexWidth /\ k * IndexWidth \in Nat /\ (k + 1) * IndexWidth \in Nat
        /\ (MaxMessages + 1) * IndexWidth \in Nat
    OBVIOUS
  <1>. QED
    BY <1>1, <1>2, <1>3 DEF Revision

-----------------------------------------------------------------------------
(***************************************************************************)
(* The messages s of a stream, and the events of an aggregate in them.     *)
(***************************************************************************)
Count == Batches \cup {0}

Message == [subject : Aggregate, count : Count]

Numbers(s, a) == { n \in 1 .. Len(s) : s[n].subject = a }

Latest(s, a) == Max({0} \cup Numbers(s, a))

Piece(s, a, i) ==
  IF s[i].subject = a THEN [k \in 1 .. s[i].count |-> EncodeRevision(i, k - 1)] ELSE <<>>

Events(s, a, n) == FlattenSeq([i \in 1 .. n |-> Piece(s, a, i)])

(* The revision of an aggregate with these events. *)
LastRevision(events) == IF events = <<>> THEN InitialRevision ELSE events[Len(events)]

(* They are those of the module. *)
LEMMA SameEvents ==
  \A a : /\ MessagesOf(a) = Numbers(stream, a)
         /\ LastOf(a) = Latest(stream, a)
         /\ \A n : EventsUpTo(a, n) = Events(stream, a, n)
  BY DEF MessagesOf, Numbers, LastOf, Latest, EventsUpTo, Events, Piece, EventsOf

(* The types of the messages. *)
LEMMA CountFacts ==
  ASSUME NEW s \in Seq(Message), NEW i \in 1 .. Len(s)
  PROVE  s[i] \in Message /\ s[i].subject \in Aggregate /\ s[i].count \in Nat
  <1>1. s[i] \in Message
    OBVIOUS
  <1>2. \A n \in Count : n \in Nat
    BY DEF Count
  <1>. QED
    BY <1>1, <1>2 DEF Message

(* The latest message is one of the aggregate's, and none is later. *)
LEMMA LatestFacts ==
  ASSUME NEW s \in Seq(Message), NEW a
  PROVE  /\ Latest(s, a) \in {0} \cup Numbers(s, a)
         /\ Latest(s, a) \in 0 .. Len(s)
         /\ \A n \in Numbers(s, a) : n <= Latest(s, a)
  <1>. DEFINE l == Len(s)
              N == {0} \cup Numbers(s, a)
              T == { l - n : n \in N }
  <1>1. l \in Nat
    OBVIOUS
  <1>2. \A n \in N : n \in 0 .. l
    BY <1>1 DEF Numbers
  <1>. HIDE DEF l
  <1>3. T \subseteq Nat /\ T # {}
    BY <1>1, <1>2
  <1>4. PICK t \in T : \A u \in T : t <= u
    BY <1>3, LeastElement
  <1>5. PICK x \in N : t = l - x
    BY <1>4
  <1>6. \A y \in N : x >= y
    <2>. SUFFICES ASSUME NEW y \in N PROVE x >= y
      OBVIOUS
    <2>1. l - x <= l - y
      BY <1>4, <1>5
    <2>. QED
      BY <1>1, <1>2, <2>1
  <1>7. Max(N) \in N /\ \A y \in N : Max(N) >= y
    <2>. HIDE DEF N
    <2>. QED
      BY <1>6 DEF Max
  <1>8. Latest(s, a) = Max(N)
    BY DEF Latest
  <1>9. \A n \in N : n \in Int
    BY <1>1, <1>2
  <1>. QED
    BY <1>2, <1>7, <1>8, <1>9 DEF l

(* The events of one message. *)
LEMMA PieceType ==
  ASSUME NEW s \in Seq(Message), NEW a, NEW i \in 1 .. Len(s)
  PROVE  /\ Piece(s, a, i) \in Seq(Nat)
         /\ s[i].subject # a => Piece(s, a, i) = <<>>
         /\ s[i].subject = a /\ s[i].count = 0 => Piece(s, a, i) = <<>>
         /\ s[i].subject = a /\ s[i].count # 0 =>
              /\ Len(Piece(s, a, i)) = s[i].count
              /\ Piece(s, a, i)[s[i].count] = EncodeRevision(i, s[i].count - 1)
  <1>. DEFINE c == s[i].count
              p == [k \in 1 .. c |-> EncodeRevision(i, k - 1)]
  <1>1. c \in Nat /\ i \in Nat
    BY CountFacts
  <1>. HIDE DEF c
  <1>2. ASSUME NEW k \in 1 .. c PROVE EncodeRevision(i, k - 1) \in Nat
    <2>1. k - 1 \in Nat
      BY <1>1
    <2>. QED
      BY <1>1, <2>1, RevisionFacts
  <1>3. p \in Seq(Nat) /\ Len(p) = c /\ (c # 0 => p[c] = EncodeRevision(i, c - 1)) /\ (c = 0 => p = <<>>)
    BY <1>1, <1>2
  <1>4. <<>> \in Seq(Nat)
    OBVIOUS
  <1>5. Piece(s, a, i) = IF s[i].subject = a THEN p ELSE <<>>
    BY DEF Piece, c
  <1>. HIDE DEF p
  <1>. QED
    BY <1>3, <1>4, <1>5 DEF c

(* The events up to a number, one message after the other. *)
LEMMA EventsFacts ==
  ASSUME NEW s \in Seq(Message), NEW a
  PROVE  /\ Events(s, a, 0) = <<>>
         /\ \A n \in 0 .. Len(s) : Events(s, a, n) \in Seq(Nat)
         /\ \A n \in 1 .. Len(s) : Events(s, a, n) = Events(s, a, n - 1) \o Piece(s, a, n)
  <1>. DEFINE l == Len(s)
              P(n) == [i \in 1 .. n |-> Piece(s, a, i)]
  <1>1. l \in Nat
    OBVIOUS
  <1>2. \A i \in 1 .. l : Piece(s, a, i) \in Seq(Nat)
    BY PieceType
  <1>. HIDE DEF l
  <1>3. \A n \in 0 .. l : P(n) \in Seq(Seq(Nat))
    BY <1>1, <1>2
  <1>4. \A n \in 1 .. l : P(n) = Append(P(n - 1), Piece(s, a, n))
    <2>. SUFFICES ASSUME NEW n \in 1 .. l PROVE P(n) = Append(P(n - 1), Piece(s, a, n))
      OBVIOUS
    <2>1. n - 1 \in 0 .. l /\ P(n - 1) \in Seq(Seq(Nat)) /\ Len(P(n - 1)) = n - 1
      BY <1>1, <1>3
    <2>. QED
      BY <1>1, <2>1
  <1>5. P(0) = <<>>
    OBVIOUS
  <1>. HIDE DEF P
  <1>6. \A n : Events(s, a, n) = FlattenSeq(P(n))
    BY DEF Events, P
  <1>7. Events(s, a, 0) = <<>>
    BY <1>5, <1>6, FlattenEmpty
  <1>8. \A n \in 0 .. l : Events(s, a, n) \in Seq(Nat)
    BY <1>3, <1>6, FlattenType
  <1>9. ASSUME NEW n \in 1 .. l PROVE Events(s, a, n) = Events(s, a, n - 1) \o Piece(s, a, n)
    <2>1. n - 1 \in 0 .. l
      BY <1>1
    <2>2. P(n - 1) \in Seq(Seq(Nat)) /\ Piece(s, a, n) \in Seq(Nat)
      BY <1>2, <1>3, <2>1
    <2>3. FlattenSeq(Append(P(n - 1), Piece(s, a, n))) = FlattenSeq(P(n - 1)) \o Piece(s, a, n)
      BY <2>2, FlattenAppend
    <2>4. P(n) = Append(P(n - 1), Piece(s, a, n))
      BY <1>4
    <2>. QED
      BY <1>6, <2>3, <2>4
  <1>. QED
    BY <1>7, <1>8, <1>9 DEF l

(* Messages appended later change nothing about the events before them. *)
LEMMA EventsOfPrefix ==
  ASSUME NEW s, NEW t, NEW a, NEW n \in Nat, \A i \in 1 .. n : t[i] = s[i]
  PROVE  Events(t, a, n) = Events(s, a, n)
  <1>1. \A i \in 1 .. n : Piece(t, a, i) = Piece(s, a, i)
    BY DEF Piece
  <1>2. [i \in 1 .. n |-> Piece(t, a, i)] = [i \in 1 .. n |-> Piece(s, a, i)]
    BY <1>1
  <1>. QED
    BY <1>2 DEF Events

(* Where no message is the aggregate's, no events are added. *)
LEMMA EventsOfGap ==
  ASSUME NEW s \in Seq(Message), NEW a, NEW m \in 0 .. Len(s), NEW n \in 0 .. Len(s), m <= n,
         \A i \in Numbers(s, a) : ~(m < i /\ i <= n)
  PROVE  Events(s, a, n) = Events(s, a, m)
  <1>. DEFINE l == Len(s)
              S == { d \in Nat : m + d <= n => Events(s, a, m + d) = Events(s, a, m) }
  <1>1. l \in Nat /\ m \in 0 .. l /\ n \in 0 .. l
    OBVIOUS
  <1>. HIDE DEF l
  <1>2. 0 \in S
    BY <1>1
  <1>3. ASSUME NEW d \in Nat, d \in S PROVE d + 1 \in S
    <2>. SUFFICES ASSUME m + (d + 1) <= n PROVE Events(s, a, m + (d + 1)) = Events(s, a, m)
      OBVIOUS
    <2>. DEFINE k == m + (d + 1)
    <2>1. k \in 1 .. l /\ k - 1 = m + d /\ m < k /\ k <= n /\ m + d <= n /\ m + d \in 0 .. l
      BY <1>1
    <2>2. Events(s, a, m + d) = Events(s, a, m)
      BY <1>3, <2>1
    <2>. HIDE DEF k
    <2>3. s[k].subject # a
      BY <2>1 DEF Numbers, l
    <2>4. Piece(s, a, k) = <<>>
      BY <2>1, <2>3, PieceType DEF l
    <2>5. Events(s, a, k) = Events(s, a, k - 1) \o <<>>
      BY <2>1, <2>4, EventsFacts DEF l
    <2>6. Events(s, a, m + d) \in Seq(Nat)
      BY <2>1, EventsFacts DEF l
    <2>7. Events(s, a, k) = Events(s, a, m + d)
      BY <2>1, <2>5, <2>6
    <2>. QED
      BY <2>2, <2>7 DEF k
  <1>4. Nat \subseteq S
    <2>. HIDE DEF S
    <2>. QED
      BY <1>2, <1>3, Induction
  <1>5. n - m \in Nat /\ m + (n - m) = n
    BY <1>1
  <1>6. n - m \in S
    BY <1>4, <1>5
  <1>. QED
    BY <1>1, <1>5, <1>6

(* The last revision is that of what came last. *)
LEMMA LastOfConcat ==
  ASSUME NEW e \in Seq(Nat), NEW p \in Seq(Nat), Len(p) # 0
  PROVE  LastRevision(e \o p) = p[Len(p)]
  <1>1. Len(e) \in Nat /\ Len(p) \in Nat /\ Len(e \o p) = Len(e) + Len(p)
    OBVIOUS
  <1>2. (e \o p)[Len(e) + Len(p)] = p[Len(p)]
    BY <1>1
  <1>3. e \o p # <<>>
    <2>1. Len(e \o p) # 0 /\ Len(<<>>) = 0
      BY <1>1
    <2>. QED
      BY <2>1
  <1>. QED
    BY <1>1, <1>2, <1>3 DEF LastRevision

(* Events come from a message, whose number the last revision carries. *)
LEMMA LastEvent ==
  ASSUME NEW s \in Seq(Message), NEW a, NEW n \in 0 .. Len(s), Events(s, a, n) # <<>>
  PROVE  LET last == LastRevision(Events(s, a, n)) IN
         \E k \in Numbers(s, a) :
           k <= n /\ s[k].count # 0 /\ last = EncodeRevision(k, s[k].count - 1)
  <1>. DEFINE l == Len(s)
              Good(m) == \E k \in Numbers(s, a) :
                /\ k <= m /\ s[k].count # 0
                /\ LastRevision(Events(s, a, m)) = EncodeRevision(k, s[k].count - 1)
              S == { m \in Nat : m <= l /\ Events(s, a, m) # <<>> => Good(m) }
  <1>1. l \in Nat /\ n \in 0 .. l
    OBVIOUS
  <1>. HIDE DEF l
  <1>2. 0 \in S
    BY EventsFacts
  <1>3. ASSUME NEW d \in Nat, d \in S PROVE d + 1 \in S
    <2>. DEFINE k == d + 1
    <2>. SUFFICES ASSUME k <= l, Events(s, a, k) # <<>> PROVE Good(k)
      OBVIOUS
    <2>1. k \in 1 .. l /\ k - 1 = d /\ d \in 0 .. l /\ d <= l
      BY <1>1
    <2>2. d <= l /\ Events(s, a, d) # <<>> => Good(d)
      BY <1>3
    <2>. HIDE DEF k
    <2>3. /\ Events(s, a, k) = Events(s, a, d) \o Piece(s, a, k)
          /\ Events(s, a, d) \in Seq(Nat) /\ Piece(s, a, k) \in Seq(Nat)
          /\ Events(s, a, k) \in Seq(Nat)
      <3>1. \A i \in 1 .. l : Events(s, a, i) = Events(s, a, i - 1) \o Piece(s, a, i)
        BY EventsFacts DEF l
      <3>2. Events(s, a, k) = Events(s, a, d) \o Piece(s, a, k)
        BY <2>1, <3>1
      <3>3. k \in 0 .. l
        BY <2>1
      <3>. QED
        BY <2>1, <3>2, <3>3, EventsFacts, PieceType DEF l
    <2>4. CASE Piece(s, a, k) = <<>>
      <3>1. Events(s, a, k) = Events(s, a, d)
        BY <2>3, <2>4
      <3>2. PICK j \in Numbers(s, a) :
              /\ j <= d /\ s[j].count # 0
              /\ LastRevision(Events(s, a, d)) = EncodeRevision(j, s[j].count - 1)
        BY <2>1, <2>2, <3>1
      <3>3. j \in Int /\ j <= k
        BY <2>1, <3>2 DEF Numbers
      <3>. QED
        BY <3>1, <3>2, <3>3
    <2>5. CASE Piece(s, a, k) # <<>>
      <3>. DEFINE c == s[k].count
                  p == Piece(s, a, k)
                  e == Events(s, a, d)
      <3>1. s[k].subject = a /\ c # 0 /\ c \in Nat /\ Len(p) = c /\ p[c] = EncodeRevision(k, c - 1)
        BY <2>1, <2>5, PieceType, CountFacts DEF l
      <3>2. k \in Numbers(s, a)
        BY <2>1, <3>1 DEF Numbers, l
      <3>3. e \in Seq(Nat) /\ p \in Seq(Nat) /\ Events(s, a, k) = e \o p
        BY <2>3
      <3>. HIDE DEF e, p, c
      <3>5. LastRevision(e \o p) = p[c]
        BY <3>1, <3>3, LastOfConcat
      <3>. QED
        BY <2>1, <3>1, <3>2, <3>3, <3>5 DEF c
    <2>. QED
      BY <2>4, <2>5
  <1>4. Nat \subseteq S
    <2>. HIDE DEF S
    <2>. QED
      BY <1>2, <1>3, Induction
  <1>5. n \in Nat /\ n <= l
    BY <1>1
  <1>6. n \in S
    BY <1>4, <1>5
  <1>. QED
    BY <1>5, <1>6

(***************************************************************************)
(* The heart of the matter: the events up to message n are all there are   *)
(* if the server finds the number their last revision carries.             *)
(***************************************************************************)
LEMMA AcceptedIsCurrent ==
  ASSUME NEW s \in Seq(Message), NEW a, NEW n \in 0 .. Len(s),
         Latest(s, a) = DecodeSequenceNumber(LastRevision(Events(s, a, n)))
  PROVE  Events(s, a, n) = Events(s, a, Len(s))
  <1>. DEFINE l == Len(s)
  <1>1. l \in Nat /\ n \in 0 .. l /\ 0 \in 0 .. l /\ l \in 0 .. l
    OBVIOUS
  <1>2. \A i \in Numbers(s, a) : i <= Latest(s, a) /\ i \in 1 .. l
    BY LatestFacts DEF Numbers
  <1>. HIDE DEF l
  <1>3. CASE Events(s, a, n) = <<>>
    <2>1. Latest(s, a) = 0
      BY <1>3, InitialIsZero DEF LastRevision
    <2>2. \A i \in Numbers(s, a) : ~(0 < i /\ i <= l)
      BY <1>2, <2>1
    <2>3. Events(s, a, l) = Events(s, a, 0)
      BY <1>1, <2>2, EventsOfGap DEF l
    <2>. QED
      BY <1>3, <2>3, EventsFacts DEF l
  <1>4. CASE Events(s, a, n) # <<>>
    <2>1. PICK k \in Numbers(s, a) :
            k <= n /\ s[k].count # 0 /\ LastRevision(Events(s, a, n)) = EncodeRevision(k, s[k].count - 1)
      BY <1>4, LastEvent
    <2>2. k \in 1 .. l /\ s[k].count - 1 \in Nat
      BY <1>2, <2>1, CountFacts DEF l
    <2>3. Latest(s, a) = k
      <3>. DEFINE j == s[k].count - 1
      <3>1. k \in Nat /\ j \in Nat
        BY <1>1, <2>2
      <3>. HIDE DEF j
      <3>2. DecodeSequenceNumber(EncodeRevision(k, j)) = k
        BY <3>1, RevisionFacts
      <3>. QED
        BY <2>1, <3>2 DEF j
    <2>4. \A i \in Numbers(s, a) : ~(n < i /\ i <= l)
      BY <1>1, <1>2, <2>1, <2>2, <2>3
    <2>. QED
      BY <1>1, <2>4, EventsOfGap DEF l
  <1>. QED
    BY <1>3, <1>4 DEF l

(* The other way round, only an empty latest message is in between. *)
LEMMA CurrentIsAccepted ==
  ASSUME NEW s \in Seq(Message), NEW a, Numbers(s, a) # {} => s[Latest(s, a)].count # 0
  PROVE  Latest(s, a) = DecodeSequenceNumber(LastRevision(Events(s, a, Len(s))))
  <1>. DEFINE l == Len(s)
              k == Latest(s, a)
  <1>1. l \in Nat /\ 0 \in 0 .. l /\ l \in 0 .. l
    OBVIOUS
  <1>2. /\ \A i \in Numbers(s, a) : i <= k /\ i \in 1 .. l
        /\ k \in {0} \cup Numbers(s, a)
    BY LatestFacts DEF Numbers
  <1>. HIDE DEF l, k
  <1>3. CASE Numbers(s, a) = {}
    <2>1. Events(s, a, l) = Events(s, a, 0)
      BY <1>1, <1>3, EventsOfGap DEF l
    <2>2. LastRevision(Events(s, a, l)) = InitialRevision
      BY <2>1, EventsFacts DEF LastRevision
    <2>. QED
      BY <1>2, <1>3, <2>2, InitialIsZero DEF l, k
  <1>4. CASE Numbers(s, a) # {}
    <2>1. k \in Numbers(s, a) /\ k \in 1 .. l /\ s[k].count # 0 /\ s[k].subject = a
      BY <1>1, <1>2, <1>4 DEF k, Numbers
    <2>2. s[k].count \in Nat
      BY <2>1, CountFacts DEF l
    <2>3. Events(s, a, l) = Events(s, a, k)
      <3>1. \A i \in Numbers(s, a) : ~(k < i /\ i <= l)
        BY <1>1, <1>2, <2>1
      <3>2. k \in 0 .. l /\ k <= l
        BY <1>1, <2>1
      <3>. QED
        BY <1>1, <3>1, <3>2, EventsOfGap DEF l
    <2>4. /\ Events(s, a, k) = Events(s, a, k - 1) \o Piece(s, a, k)
          /\ Events(s, a, k - 1) \in Seq(Nat)
      <3>1. k - 1 \in 0 .. l
        BY <1>1, <2>1
      <3>. QED
        BY <2>1, <3>1, EventsFacts DEF l
    <2>. DEFINE e == Events(s, a, k - 1)
                p == Piece(s, a, k)
                c == s[k].count
    <2>5. e \in Seq(Nat) /\ p \in Seq(Nat) /\ Len(p) = c /\ p[c] = EncodeRevision(k, c - 1)
          /\ c \in Nat /\ c # 0
      BY <2>1, <2>2, <2>4, PieceType DEF l
    <2>. HIDE DEF e, p, c
    <2>7. LastRevision(e \o p) = EncodeRevision(k, c - 1)
      BY <2>5, LastOfConcat
    <2>8. k \in Nat /\ c - 1 \in Nat
      BY <1>1, <2>1, <2>5
    <2>9. DecodeSequenceNumber(LastRevision(e \o p)) = k
      BY <2>7, <2>8, RevisionFacts
    <2>. QED
      BY <2>3, <2>4, <2>9 DEF e, p, l, k
  <1>. QED
    BY <1>3, <1>4

-----------------------------------------------------------------------------
(***************************************************************************)
(* The types of the variables.                                             *)
(***************************************************************************)
Expected == Revision \cup {NoRevision, InitialRevision}

Call ==
  [ step : {"idle", "send", "latest", "consume"}, expected : Expected, count : Count,
    latest : Nat, next : Nat, events : Seq(Nat) ]

Loaded == [revision : Expected, events : Seq(Nat), since : Nat]

Request ==
  [client : Client, subject : Aggregate, expected : Expected, count : Count, basis : Loaded]

LogEntry == [revision : Revision, expected : Expected]

TypeOK ==
  /\ stream \in Seq(Message)
  /\ inflight \subseteq Request
  /\ call \in [Client -> Call]
  /\ loaded \in [Client -> Loaded]
  /\ outcome \in [Client -> {"none", "published", "conflict", "error"}]
  /\ log \in [Aggregate -> Seq(LogEntry)]

(***************************************************************************)
(* The inductive invariant.                                                *)
(***************************************************************************)
(* There is room for the messages on their way. *)
BoundInv ==
  /\ IsFiniteSet(Sending) /\ IsFiniteSet(inflight)
  /\ Len(stream) + Cardinality(Sending) + Cardinality(inflight) <= MaxMessages

(* What a load returned, now or when a message was sent: the events up to  *)
(* the message that was the latest when the load began.                    *)
Faithful(load, s, a) ==
  \/ load = NotLoaded
  \/ /\ load.since <= Len(s)
     /\ load.events = Events(s, a, load.since)
     /\ load.revision = LastRevision(load.events)

LoadedInv == \A c \in Client : Faithful(loaded[c], stream, AggregateOf[c])

(* A consumer has met every message up to the one it met last and is not   *)
(* past the latest.                                                        *)
Reading(locals, s, a) ==
  /\ locals.step = "latest" => locals.next = 0 /\ locals.events = <<>>
  /\ locals.step = "consume" =>
       /\ locals.latest \in Numbers(s, a) /\ locals.next < locals.latest
       /\ locals.events = Events(s, a, locals.next)

ReadInv == \A c \in Client : Reading(call[c], stream, AggregateOf[c])

(* The revision that is passed on is none, the initial or the one loaded. *)
Passed(expected, load) == expected \in {NoRevision, InitialRevision, load.revision}

SendInv ==
  /\ \A c \in Client : call[c].step = "send" => Passed(call[c].expected, loaded[c])
  /\ \A m \in inflight : Passed(m.expected, m.basis) /\ Faithful(m.basis, stream, m.subject)

(* The history: the log is at the revision of the last event. *)
LogInv ==
  \A a \in Aggregate :
    /\ Contract!RevisionOf(log[a]) = LastRevision(Events(stream, a, Len(stream)))
    /\ \A i \in 1 .. Len(log[a]) : log[a][i].revision < (Len(stream) + 1) * IndexWidth

StreamInv == TypeOK /\ BoundInv /\ LoadedInv /\ ReadInv /\ SendInv /\ LogInv

(* Numbers and revisions are integers. *)
LEMMA NumberFacts ==
  /\ NoRevision = -1 /\ InitialRevision = 0
  /\ NoRevision \in Expected /\ InitialRevision \in Expected
  /\ \A r \in Revision : r \in Nat
  /\ \A r \in Expected : r \in Int /\ (r # NoRevision => r \in Nat)
  /\ 0 \in Count /\ \A n \in Count : n \in Nat
  <1>1. \A w, r \in Nat : \A m \in Int : r \in w .. m => r \in Nat
    OBVIOUS
  <1>2. \A r \in Revision : r \in Nat
    <2>1. (MaxMessages + 1) * IndexWidth - 1 \in Int /\ IndexWidth \in Nat
      OBVIOUS
    <2>. DEFINE m == (MaxMessages + 1) * IndexWidth - 1
    <2>. HIDE DEF m
    <2>2. Revision = IndexWidth .. m
      BY DEF Revision, m
    <2>. QED
      BY <2>1, <2>2 DEF m
  <1>. QED
    BY <1>2 DEF NoRevision, InitialRevision, Expected, Count

(* The types of the parts the proofs use. *)
LEMMA TypeFacts ==
  ASSUME TypeOK
  PROVE  /\ stream \in Seq(Message) /\ Len(stream) \in Nat
         /\ \A a \in Aggregate : log[a] \in Seq(LogEntry)
         /\ \A c \in Client : AggregateOf[c] \in Aggregate
         /\ \A c \in Client : /\ call[c] \in Call /\ call[c].events \in Seq(Nat)
                              /\ call[c].next \in Nat /\ call[c].latest \in Nat
                              /\ call[c].expected \in Expected /\ call[c].count \in Count
         /\ \A c \in Client : /\ loaded[c] \in Loaded /\ loaded[c].events \in Seq(Nat)
                              /\ loaded[c].since \in Nat /\ loaded[c].revision \in Expected
         /\ \A m \in inflight : m \in Request
  BY DEF TypeOK, Call, Loaded

(* The types of the parts of a load. *)
LEMMA LoadedFacts ==
  ASSUME NEW load \in Loaded
  PROVE  load.events \in Seq(Nat) /\ load.since \in Nat /\ load.revision \in Expected
  BY DEF Loaded

(* Those of a message on its way. *)
LEMMA RequestFacts ==
  ASSUME NEW m \in Request
  PROVE  /\ m.subject \in Aggregate /\ m.expected \in Expected /\ m.count \in Count /\ m.count \in Nat
         /\ m.basis \in Loaded
  <1>1. m.subject \in Aggregate /\ m.expected \in Expected /\ m.count \in Count /\ m.basis \in Loaded
    BY DEF Request
  <1>. QED
    BY <1>1, NumberFacts

(* An idle call, and nothing loaded. *)
LEMMA IdleType ==
  /\ Idle \in Call /\ Idle.step = "idle" /\ Idle.expected = NoRevision /\ Idle.next = 0
  /\ Idle.events = <<>>
  /\ NotLoaded \in Loaded /\ NotLoaded.revision = NoRevision
  BY NumberFacts DEF Idle, Call, NotLoaded, Loaded

(* The invariant holds initially. *)
LEMMA InitStream == Init => StreamInv
  <1>1. SUFFICES ASSUME Init PROVE StreamInv
    OBVIOUS
  <1>2. TypeOK
    <2>1. <<>> \in Seq(LogEntry) /\ <<>> \in Seq(Message)
      OBVIOUS
    <2>. QED
      BY <1>1, <2>1, IdleType DEF Init, TypeOK
  <1>3. BoundInv
    <2>1. Sending = {} /\ inflight = {} /\ Len(stream) = 0
      BY <1>1, IdleType DEF Init, Sending, At
    <2>. QED
      BY <2>1, FS_EmptySet DEF BoundInv
  <1>4. LoadedInv /\ ReadInv /\ SendInv
    BY <1>1, IdleType DEF Init, LoadedInv, ReadInv, SendInv, Faithful, Reading
  <1>5. LogInv
    <2>1. Contract!RevisionOf(<<>>) = InitialRevision
      BY DEF Contract!RevisionOf, Contract!InitialRevision, InitialRevision
    <2>2. stream = <<>> /\ \A a \in Aggregate : log[a] = <<>>
      BY <1>1 DEF Init
    <2>3. \A a : LastRevision(Events(<<>>, a, 0)) = InitialRevision
      <3>1. <<>> \in Seq(Message)
        OBVIOUS
      <3>. QED
        BY <3>1, EventsFacts DEF LastRevision
    <2>4. Len(<<>>) = 0
      OBVIOUS
    <2>. SUFFICES ASSUME NEW a \in Aggregate
                  PROVE  /\ Contract!RevisionOf(log[a]) = LastRevision(Events(stream, a, Len(stream)))
                         /\ \A i \in 1 .. Len(log[a]) : log[a][i].revision < (Len(stream) + 1) * IndexWidth
      BY DEF LogInv
    <2>5. Contract!RevisionOf(log[a]) = LastRevision(Events(stream, a, Len(stream)))
      BY <2>1, <2>2, <2>3, <2>4
    <2>6. 1 .. Len(log[a]) = {}
      BY <2>2, <2>4
    <2>. QED
      BY <2>5, <2>6
  <1>. QED
    BY <1>2, <1>3, <1>4, <1>5 DEF StreamInv

(***************************************************************************)
(* The parts of the invariant a stream keeps when a message is added.      *)
(***************************************************************************)
(* The events of the messages before it are those they were. *)
LEMMA EventsKept ==
  ASSUME NEW s \in Seq(Message), NEW m \in Message, NEW a, NEW n \in 0 .. Len(s)
  PROVE  Events(Append(s, m), a, n) = Events(s, a, n)
  <1>. DEFINE t == Append(s, m)
  <1>1. n \in Nat /\ \A i \in 1 .. n : t[i] = s[i]
    OBVIOUS
  <1>. HIDE DEF t
  <1>2. Events(t, a, n) = Events(s, a, n)
    BY <1>1, EventsOfPrefix
  <1>. QED
    BY <1>2 DEF t

(* A faithful load stays faithful. *)
LEMMA FaithfulKept ==
  ASSUME NEW s \in Seq(Message), NEW m \in Message, NEW a, NEW load \in Loaded, Faithful(load, s, a)
  PROVE  Faithful(load, Append(s, m), a)
  <1>. DEFINE t == Append(s, m)
  <1>1. Len(s) \in Nat /\ Len(t) = Len(s) + 1 /\ load.since \in Nat
    BY LoadedFacts
  <1>. HIDE DEF t
  <1>2. CASE load = NotLoaded
    BY <1>2 DEF Faithful
  <1>3. CASE load # NotLoaded
    <2>1. load.since <= Len(s) /\ load.events = Events(s, a, load.since)
          /\ load.revision = LastRevision(load.events)
      BY <1>3 DEF Faithful
    <2>2. load.since \in 0 .. Len(s) /\ load.since <= Len(t)
      BY <1>1, <2>1
    <2>3. Events(t, a, load.since) = Events(s, a, load.since)
      BY <2>2, EventsKept DEF t
    <2>. QED
      BY <2>1, <2>2, <2>3 DEF Faithful, t
  <1>. QED
    BY <1>2, <1>3 DEF t

(* A consumer stays where it is. *)
LEMMA ReadingKept ==
  ASSUME NEW s \in Seq(Message), NEW m \in Message, NEW a, NEW locals \in Call, Reading(locals, s, a)
  PROVE  Reading(locals, Append(s, m), a)
  <1>. DEFINE t == Append(s, m)
  <1>1. /\ Len(s) \in Nat /\ Len(t) = Len(s) + 1 /\ \A i \in 1 .. Len(s) : t[i] = s[i]
        /\ locals.next \in Nat
    BY DEF Call
  <1>. HIDE DEF t
  <1>2. ASSUME locals.step = "consume"
        PROVE  /\ locals.latest \in Numbers(t, a) /\ locals.next < locals.latest
               /\ locals.events = Events(t, a, locals.next)
    <2>1. /\ locals.latest \in Numbers(s, a) /\ locals.next < locals.latest
          /\ locals.events = Events(s, a, locals.next)
      BY <1>2 DEF Reading
    <2>2. locals.latest \in 1 .. Len(s) /\ s[locals.latest].subject = a
      BY <2>1 DEF Numbers
    <2>3. locals.latest \in Numbers(t, a) /\ locals.next \in 0 .. Len(s)
      BY <1>1, <2>1, <2>2 DEF Numbers
    <2>4. Events(t, a, locals.next) = Events(s, a, locals.next)
      BY <2>3, EventsKept DEF t
    <2>. QED
      BY <2>1, <2>3, <2>4
  <1>. QED
    BY <1>2 DEF Reading, t

(* Idle clients read nothing. *)
LEMMA IdleReading == \A s, a : Reading(Idle, s, a)
  BY IdleType DEF Reading

-----------------------------------------------------------------------------
(***************************************************************************)
(* A message that is stored.                                               *)
(***************************************************************************)
(* A revision the server accepts is the one the aggregate is at; if it was *)
(* loaded, so were all events.                                             *)
LEMMA ExpectedIsCurrent ==
  ASSUME NEW s \in Seq(Message), NEW a, NEW load \in Loaded, Faithful(load, s, a),
         NEW expected \in Expected, Passed(expected, load), expected # NoRevision,
         Latest(s, a) = DecodeSequenceNumber(expected)
  PROVE  /\ expected = LastRevision(Events(s, a, Len(s)))
         /\ expected = load.revision => load.events = Events(s, a, Len(s))
  <1>1. Len(s) \in Nat /\ 0 \in 0 .. Len(s) /\ load.since \in Nat
    BY LoadedFacts
  <1>2. CASE expected = load.revision
    <2>1. load # NotLoaded
      BY <1>2, IdleType
    <2>2. load.since <= Len(s) /\ load.events = Events(s, a, load.since)
          /\ load.revision = LastRevision(load.events)
      BY <2>1 DEF Faithful
    <2>3. load.since \in 0 .. Len(s)
      BY <1>1, <2>2
    <2>4. Events(s, a, load.since) = Events(s, a, Len(s))
      BY <1>2, <2>2, <2>3, AcceptedIsCurrent
    <2>. QED
      BY <1>2, <2>2, <2>4
  <1>3. CASE expected = InitialRevision /\ expected # load.revision
    <2>1. LastRevision(Events(s, a, 0)) = expected
      BY <1>3, EventsFacts DEF LastRevision
    <2>2. Events(s, a, 0) = Events(s, a, Len(s))
      BY <1>1, <2>1, AcceptedIsCurrent
    <2>. QED
      BY <1>3, <2>1, <2>2
  <1>. QED
    BY <1>2, <1>3 DEF Passed

(* The events of a message that is added come last. *)
LEMMA EventsAppended ==
  ASSUME NEW s \in Seq(Message), NEW m \in Message, NEW a
  PROVE  LET t == Append(s, m)
             k == Len(s) + 1
             all == Events(t, a, k) IN
         /\ m.subject # a \/ m.count = 0 => all = Events(s, a, Len(s))
         /\ m.subject = a /\ m.count # 0 => LastRevision(all) = EncodeRevision(k, m.count - 1)
  <1>. DEFINE t == Append(s, m)
              k == Len(s) + 1
              e == Events(s, a, Len(s))
              p == Piece(t, a, k)
  <1>1. /\ t \in Seq(Message) /\ Len(t) = k /\ t[k] = m /\ k \in 1 .. Len(t) /\ k - 1 = Len(s)
        /\ Len(s) \in 0 .. Len(s)
    OBVIOUS
  <1>2. Events(t, a, Len(s)) = e /\ e \in Seq(Nat)
    BY <1>1, EventsKept, EventsFacts
  <1>. HIDE DEF t, k, e
  <1>3. Events(t, a, k) = e \o p
    <2>1. Events(t, a, k) = Events(t, a, k - 1) \o Piece(t, a, k)
      BY <1>1, EventsFacts
    <2>. QED
      BY <1>1, <1>2, <2>1
  <1>4. /\ p \in Seq(Nat)
        /\ m.subject # a \/ m.count = 0 => p = <<>>
        /\ m.subject = a /\ m.count # 0 => Len(p) = m.count /\ p[m.count] = EncodeRevision(k, m.count - 1)
    BY <1>1, PieceType
  <1>. HIDE DEF p
  <1>5. m.subject # a \/ m.count = 0 => Events(t, a, k) = e
    BY <1>2, <1>3, <1>4
  <1>6. ASSUME m.subject = a, m.count # 0 PROVE LastRevision(Events(t, a, k)) = EncodeRevision(k, m.count - 1)
    BY <1>2, <1>3, <1>4, <1>6, LastOfConcat
  <1>. QED
    BY <1>5, <1>6 DEF t, k, e

(* The revisions of the history are numbers. *)
LEMMA LogFacts ==
  ASSUME NEW entries \in Seq(LogEntry)
  PROVE  \A i \in 1 .. Len(entries) : entries[i].revision \in Nat
  <1>. SUFFICES ASSUME NEW i \in 1 .. Len(entries) PROVE entries[i].revision \in Nat
    OBVIOUS
  <1>1. entries[i] \in LogEntry
    OBVIOUS
  <1>2. entries[i].revision \in Revision
    BY <1>1 DEF LogEntry
  <1>. QED
    BY <1>2, NumberFacts

(* A message moves the stream and the log on, and is a step of the event   *)
(* log, whose revisions are new and whose expectations are met.            *)
LEMMA StoreStream ==
  ASSUME StreamInv, NEW m \in Request, Passed(m.expected, m.basis),
         Faithful(m.basis, stream, m.subject), Len(stream) < MaxMessages, Store(m)
  PROVE  /\ \E message \in Message : stream' = Append(stream, message)
         /\ log' \in [Aggregate -> Seq(LogEntry)]
         /\ LogInv'
         /\ [Contract!Next]_log
  <1>. DEFINE a == m.subject
              message == [subject |-> m.subject, count |-> m.count]
              k == Len(stream) + 1
              revision == EncodeRevision(k, m.count - 1)
              entry == [revision |-> revision, expected |-> m.expected]
  <1>. TypeOK
    BY DEF StreamInv
  <1>1. /\ a \in Aggregate /\ m.count \in Nat /\ m.expected \in Expected /\ m.basis \in Loaded
        /\ message \in Message /\ message.subject = a /\ message.count = m.count
    BY RequestFacts DEF Message
  <1>2. /\ stream' = Append(stream, message)
        /\ m.count = 0 => log' = log
        /\ m.count # 0 => log' = [log EXCEPT ![a] = Append(log[a], entry)]
        /\ IsExpected(m)
    BY <1>1 DEF Store, TypeOK
  <1>3. /\ stream \in Seq(Message) /\ Len(stream) \in Nat /\ k \in 1 .. MaxMessages
        /\ Len(stream') = k
    BY <1>1, <1>2, TypeFacts
  <1>4. k * IndexWidth \in Nat /\ (k + 1) * IndexWidth \in Nat /\ k * IndexWidth <= (k + 1) * IndexWidth
    <2>1. k \in Nat /\ k + 1 \in Nat /\ k <= k + 1 /\ IndexWidth \in Nat
      BY <1>3
    <2>. QED
      BY <2>1, ProductGrows
  <1>. HIDE DEF message
  <1>5. ASSUME NEW b
        PROVE  /\ b # a \/ m.count = 0 => Events(stream', b, k) = Events(stream, b, Len(stream))
               /\ b = a /\ m.count # 0 => LastRevision(Events(stream', b, k)) = revision
    BY <1>1, <1>2, <1>3, EventsAppended
  <1>. HIDE DEF k, a
  <1>6. ASSUME NEW b \in Aggregate, b # a \/ m.count = 0
        PROVE  /\ log'[b] = log[b]
               /\ Contract!RevisionOf(log'[b]) = LastRevision(Events(stream', b, k))
               /\ \A i \in 1 .. Len(log'[b]) : log'[b][i].revision < (k + 1) * IndexWidth
    <2>1. log'[b] = log[b]
      BY <1>1, <1>2, <1>6 DEF TypeOK
    <2>2. /\ Contract!RevisionOf(log[b]) = LastRevision(Events(stream, b, Len(stream)))
          /\ \A i \in 1 .. Len(log[b]) : log[b][i].revision < k * IndexWidth
      BY DEF StreamInv, LogInv, k
    <2>3. \A i \in 1 .. Len(log[b]) : log[b][i].revision \in Nat
      BY <1>6, TypeFacts, LogFacts
    <2>. QED
      BY <1>4, <1>5, <1>6, <2>1, <2>2, <2>3
  <1>7. CASE m.count = 0
    <2>1. log' = log
      BY <1>2, <1>7
    <2>2. LogInv'
      BY <1>3, <1>6, <1>7 DEF LogInv
    <2>. QED
      BY <1>1, <1>2, <2>1, <2>2 DEF TypeOK
  <1>8. CASE m.count # 0
    <2>1. /\ revision \in Revision /\ revision \in Nat
          /\ k * IndexWidth <= revision /\ revision < (k + 1) * IndexWidth
      <3>. DEFINE j == m.count - 1
      <3>1. j \in Nat /\ k \in Nat
        BY <1>1, <1>3, <1>8
      <3>. HIDE DEF j
      <3>2. /\ EncodeRevision(k, j) \in Revision /\ EncodeRevision(k, j) \in Nat
            /\ k * IndexWidth <= EncodeRevision(k, j) /\ EncodeRevision(k, j) < (k + 1) * IndexWidth
        BY <1>3, <3>1, RevisionFacts, RevisionType
      <3>. QED
        BY <3>2 DEF j
    <2>. HIDE DEF revision
    <2>2. entry \in LogEntry /\ entry.revision = revision /\ entry.expected = m.expected
      BY <1>1, <2>1 DEF LogEntry
    <2>. HIDE DEF entry
    <2>3. log' = [log EXCEPT ![a] = Append(log[a], entry)] /\ log[a] \in Seq(LogEntry)
      BY <1>1, <1>2, <1>8, TypeFacts DEF entry, revision
    <2>4. /\ Append(log[a], entry) \in Seq(LogEntry) /\ Len(log[a]) \in Nat
          /\ Len(Append(log[a], entry)) = Len(log[a]) + 1
          /\ Append(log[a], entry)[Len(log[a]) + 1] = entry
          /\ \A i \in 1 .. Len(log[a]) : Append(log[a], entry)[i] = log[a][i]
      BY <2>2, <2>3
    <2>5. log' \in [Aggregate -> Seq(LogEntry)] /\ log'[a] = Append(log[a], entry)
      BY <1>1, <2>3, <2>4 DEF TypeOK
    <2>6. Contract!RevisionOf(log'[a]) = revision
      <3>1. Append(log[a], entry) # <<>>
        <4>1. Len(Append(log[a], entry)) # 0 /\ Len(<<>>) = 0
          BY <2>3, <2>4
        <4>. QED
          BY <4>1
      <3>. QED
        BY <2>2, <2>4, <2>5, <3>1 DEF Contract!RevisionOf
    <2>7. \A i \in 1 .. Len(log[a]) : log[a][i].revision \in Nat /\ log[a][i].revision < k * IndexWidth
      <3>1. \A i \in 1 .. Len(log[a]) : log[a][i].revision < k * IndexWidth
        BY <1>1 DEF StreamInv, LogInv, k
      <3>. QED
        BY <2>3, <3>1, LogFacts
    <2>8. ASSUME NEW i \in 1 .. Len(log'[a]) PROVE log'[a][i].revision < (k + 1) * IndexWidth
      <3>1. CASE i = Len(log[a]) + 1
        BY <2>1, <2>2, <2>4, <2>5, <3>1
      <3>2. CASE i # Len(log[a]) + 1
        <4>1. i \in 1 .. Len(log[a]) /\ log'[a][i] = log[a][i]
          BY <2>4, <2>5, <3>2
        <4>2. log[a][i].revision \in Nat /\ log[a][i].revision < k * IndexWidth
          BY <2>7, <4>1
        <4>. QED
          BY <1>4, <4>1, <4>2 DEF k
      <3>. QED
        BY <3>1, <3>2
    <2>9. LogInv'
      <3>. SUFFICES ASSUME NEW b \in Aggregate
                    PROVE  /\ Contract!RevisionOf(log'[b]) = LastRevision(Events(stream', b, k))
                           /\ \A i \in 1 .. Len(log'[b]) : log'[b][i].revision < (k + 1) * IndexWidth
        BY <1>3 DEF LogInv
      <3>1. CASE b # a
        BY <1>6, <3>1
      <3>2. CASE b = a
        BY <1>5, <1>8, <2>6, <2>8, <3>2
      <3>. QED
        BY <3>1, <3>2
    <2>10. entry.expected \in {Contract!NoRevision, Contract!RevisionOf(log[a])}
      <3>1. CASE m.expected = NoRevision
        BY <2>2, <3>1 DEF NoRevision, Contract!NoRevision
      <3>2. CASE m.expected # NoRevision
        <4>1. Latest(stream, a) = DecodeSequenceNumber(m.expected)
          BY <1>2, <3>2, SameEvents DEF IsExpected, a
        <4>2. m.expected = LastRevision(Events(stream, a, Len(stream)))
          BY <1>1, <1>3, <3>2, <4>1, ExpectedIsCurrent DEF a
        <4>. QED
          BY <1>1, <2>2, <4>2 DEF StreamInv, LogInv
      <3>. QED
        BY <3>1, <3>2
    <2>11. entry.revision \notin Contract!RevisionsOf(log[a])
      <3>. SUFFICES ASSUME NEW i \in 1 .. Len(log[a]), log[a][i].revision = revision PROVE FALSE
        BY <2>2 DEF Contract!RevisionsOf
      <3>1. log[a][i].revision < k * IndexWidth
        BY <2>7
      <3>. QED
        BY <1>4, <2>1, <3>1
    <2>12. Contract!Publish(a, entry)
      BY <2>3, <2>10, <2>11 DEF Contract!Publish
    <2>13. entry \in Contract!Entry
      BY <2>2 DEF LogEntry, Expected, Contract!Entry, NoRevision, InitialRevision,
                  Contract!NoRevision, Contract!InitialRevision
    <2>14. Contract!Next
      BY <1>1, <2>12, <2>13 DEF Contract!Next
    <2>. QED
      BY <1>1, <1>2, <2>5, <2>9, <2>14
  <1>. QED
    BY <1>7, <1>8

-----------------------------------------------------------------------------
(***************************************************************************)
(* The actions.                                                            *)
(***************************************************************************)
(* A call that returns leaves nothing behind. *)
LEMMA ReturnType ==
  ASSUME TypeOK, NEW c \in Client, NEW result \in {"none", "published", "conflict", "error"},
         Return(c, result)
  PROVE  /\ call' \in [Client -> Call]
         /\ outcome' \in [Client -> {"none", "published", "conflict", "error"}]
         /\ call'[c] = Idle /\ \A d \in Client \ {c} : call'[d] = call[d]
         /\ Sending' = Sending \ {c}
  <1>1. /\ call' \in [Client -> Call]
        /\ outcome' \in [Client -> {"none", "published", "conflict", "error"}]
        /\ call'[c] = Idle /\ \A d \in Client \ {c} : call'[d] = call[d]
    BY IdleType DEF Return, TypeOK
  <1>2. Sending' = Sending \ {c}
    BY <1>1, IdleType DEF Sending, At
  <1>. QED
    BY <1>1, <1>2

(* The calls that go on do not take up the room of a message. *)
LEMMA RoomKept ==
  ASSUME BoundInv, TypeOK, Len(stream') = Len(stream), inflight' = inflight, Sending' \subseteq Sending
  PROVE  BoundInv'
  <1>1. /\ IsFiniteSet(Sending') /\ Cardinality(Sending') <= Cardinality(Sending)
        /\ Cardinality(Sending') \in Nat /\ Cardinality(Sending) \in Nat
        /\ Cardinality(inflight) \in Nat
    BY FS_Subset, FS_CardinalityType DEF BoundInv
  <1>. QED
    BY <1>1, TypeFacts DEF BoundInv

(* What clients have loaded, read and sent is kept by a message that is    *)
(* stored, and so are the calls that go on.                                *)
LEMMA ClientsKept ==
  ASSUME StreamInv, UNCHANGED loaded, inflight' \subseteq inflight,
         stream' = stream \/ \E message \in Message : stream' = Append(stream, message),
         \A c \in Client : call'[c] = call[c] \/ call'[c] = Idle
  PROVE  LoadedInv' /\ ReadInv' /\ SendInv'
  <1>. TypeOK
    BY DEF StreamInv
  <1>1. \A load \in Loaded, a \in Aggregate : Faithful(load, stream, a) => Faithful(load, stream', a)
    BY TypeFacts, FaithfulKept
  <1>2. \A locals \in Call, a \in Aggregate : Reading(locals, stream, a) => Reading(locals, stream', a)
    BY TypeFacts, ReadingKept
  <1>3. LoadedInv'
    BY <1>1, TypeFacts DEF StreamInv, LoadedInv
  <1>4. ReadInv'
    <2>. SUFFICES ASSUME NEW c \in Client PROVE Reading(call'[c], stream', AggregateOf[c])
      BY DEF ReadInv
    <2>1. Reading(call[c], stream, AggregateOf[c])
      BY DEF StreamInv, ReadInv
    <2>2. Reading(call[c], stream', AggregateOf[c])
      BY <1>2, <2>1, TypeFacts
    <2>. QED
      BY <2>2, IdleReading
  <1>5. SendInv'
    <2>1. ASSUME NEW c \in Client, call'[c].step = "send" PROVE Passed(call'[c].expected, loaded[c])
      <3>1. call'[c] = call[c]
        BY <2>1, IdleType
      <3>. QED
        BY <2>1, <3>1 DEF StreamInv, SendInv
    <2>2. ASSUME NEW m \in inflight'
          PROVE  Passed(m.expected, m.basis) /\ Faithful(m.basis, stream', m.subject)
      <3>1. m \in inflight /\ m \in Request
        BY TypeFacts
      <3>2. Passed(m.expected, m.basis) /\ Faithful(m.basis, stream, m.subject)
        BY <3>1 DEF StreamInv, SendInv
      <3>. QED
        BY <1>1, <3>1, <3>2, RequestFacts
    <2>. QED
      BY <2>1, <2>2 DEF SendInv
  <1>. QED
    BY <1>3, <1>4, <1>5

(* The history is kept by what leaves the stream alone. *)
LEMMA LogKept == ASSUME StreamInv, UNCHANGED <<stream, log>> PROVE LogInv'
  BY DEF StreamInv, LogInv, Contract!RevisionOf

(* The message a client sends. *)
LEMMA MessageOfType ==
  ASSUME StreamInv, NEW c \in Sending
  PROVE  /\ MessageOf(c) \in Request /\ Passed(MessageOf(c).expected, MessageOf(c).basis)
         /\ Faithful(MessageOf(c).basis, stream, MessageOf(c).subject)
  <1>. TypeOK
    BY DEF StreamInv
  <1>1. c \in Client /\ call[c].step = "send"
    BY DEF Sending, At
  <1>2. MessageOf(c) \in Request
    BY <1>1, TypeFacts DEF MessageOf, Request
  <1>3. Passed(call[c].expected, loaded[c]) /\ Faithful(loaded[c], stream, AggregateOf[c])
    BY <1>1 DEF StreamInv, SendInv, LoadedInv
  <1>. QED
    BY <1>2, <1>3 DEF MessageOf

(* A message on its way has room. *)
LEMMA RoomForMessage ==
  ASSUME StreamInv
  PROVE  /\ Len(stream) \in Nat /\ Cardinality(Sending) \in Nat /\ Cardinality(inflight) \in Nat
         /\ \A c \in Sending : /\ IsFiniteSet(Sending \ {c})
                               /\ Cardinality(Sending \ {c}) = Cardinality(Sending) - 1
                               /\ Len(stream) + 1 + Cardinality(Sending \ {c}) + Cardinality(inflight) <= MaxMessages
                               /\ Len(stream) < MaxMessages
         /\ \A m \in inflight : /\ IsFiniteSet(inflight \ {m})
                                /\ Cardinality(inflight \ {m}) = Cardinality(inflight) - 1
                                /\ Len(stream) + 1 + Cardinality(Sending) + Cardinality(inflight \ {m}) <= MaxMessages
                                /\ Len(stream) < MaxMessages
  <1>. TypeOK
    BY DEF StreamInv
  <1>1. IsFiniteSet(Sending) /\ IsFiniteSet(inflight)
    BY DEF StreamInv, BoundInv
  <1>2. Len(stream) \in Nat /\ Cardinality(Sending) \in Nat /\ Cardinality(inflight) \in Nat
    BY <1>1, TypeFacts, FS_CardinalityType
  <1>3. ASSUME NEW S, IsFiniteSet(S), NEW x \in S
        PROVE  /\ IsFiniteSet(S \ {x}) /\ Cardinality(S \ {x}) = Cardinality(S) - 1
               /\ Cardinality(S \ {x}) \in Nat
    <2>1. IsFiniteSet(S \ {x}) /\ Cardinality(S \ {x}) = Cardinality(S) - 1
      BY <1>3, FS_RemoveElement
    <2>. QED
      BY <2>1, FS_CardinalityType
  <1>4. Len(stream) + Cardinality(Sending) + Cardinality(inflight) <= MaxMessages /\ MaxMessages \in Nat
    BY DEF StreamInv, BoundInv
  <1>5. ASSUME NEW c \in Sending
        PROVE  /\ IsFiniteSet(Sending \ {c})
               /\ Cardinality(Sending \ {c}) = Cardinality(Sending) - 1
               /\ Len(stream) + 1 + Cardinality(Sending \ {c}) + Cardinality(inflight) <= MaxMessages
               /\ Len(stream) < MaxMessages
    <2>1. /\ IsFiniteSet(Sending \ {c}) /\ Cardinality(Sending \ {c}) = Cardinality(Sending) - 1
          /\ Cardinality(Sending \ {c}) \in Nat
      BY <1>1, <1>3
    <2>. QED
      BY <1>2, <1>4, <2>1
  <1>6. ASSUME NEW m \in inflight
        PROVE  /\ IsFiniteSet(inflight \ {m})
               /\ Cardinality(inflight \ {m}) = Cardinality(inflight) - 1
               /\ Len(stream) + 1 + Cardinality(Sending) + Cardinality(inflight \ {m}) <= MaxMessages
               /\ Len(stream) < MaxMessages
    <2>1. /\ IsFiniteSet(inflight \ {m}) /\ Cardinality(inflight \ {m}) = Cardinality(inflight) - 1
          /\ Cardinality(inflight \ {m}) \in Nat
      BY <1>1, <1>3
    <2>. QED
      BY <1>2, <1>4, <2>1
  <1>. QED
    BY <1>2, <1>5, <1>6

(* A call of Publish passes on no revision, the initial or the one loaded. *)
LEMMA StartPublishStream ==
  ASSUME StreamInv, NEW c \in Client, StartPublish(c) PROVE StreamInv'
  <1>. TypeOK
    BY DEF StreamInv
  <1>1. PICK policy \in Policies, n \in Batches :
          /\ Len(stream) + Cardinality(Sending) + Cardinality(inflight) < MaxMessages
          /\ Begin(c, [Idle EXCEPT !.step = "send", !.expected = ExpectedBy(c)[policy], !.count = n])
    BY DEF StartPublish
  <1>. DEFINE expected == ExpectedBy(c)[policy]
              locals == [Idle EXCEPT !.step = "send", !.expected = expected, !.count = n]
  <1>2. UNCHANGED <<stream, inflight, loaded, log>> /\ Begin(c, locals)
    BY <1>1 DEF Begin
  <1>3. expected \in Expected /\ Passed(expected, loaded[c])
    BY TypeFacts, NumberFacts DEF ExpectedBy, Policies, Passed
  <1>. HIDE DEF expected
  <1>4. locals \in Call /\ locals.step = "send" /\ locals.expected = expected
    BY <1>3, IdleType DEF Call, Count
  <1>. HIDE DEF locals
  <1>5. /\ call' \in [Client -> Call] /\ call'[c] = locals /\ \A d \in Client \ {c} : call'[d] = call[d]
        /\ call[c].step = "idle"
    BY <1>2, <1>4 DEF Begin, TypeOK, At
  <1>6. TypeOK'
    BY <1>2, <1>5 DEF Begin, TypeOK
  <1>7. BoundInv'
    <2>1. Sending' = Sending \cup {c} /\ c \notin Sending
      BY <1>4, <1>5 DEF Sending, At
    <2>2. /\ IsFiniteSet(Sending \cup {c})
          /\ Cardinality(Sending \cup {c}) = Cardinality(Sending) + 1
      BY <2>1, FS_AddElement DEF StreamInv, BoundInv
    <2>. QED
      BY <1>1, <1>2, <2>1, <2>2, RoomForMessage DEF StreamInv, BoundInv
  <1>8. LoadedInv' /\ ReadInv'
    <2>1. Reading(locals, stream, AggregateOf[c])
      BY <1>4 DEF Reading
    <2>. QED
      BY <1>2, <1>5, <2>1 DEF StreamInv, LoadedInv, ReadInv
  <1>9. SendInv'
    BY <1>2, <1>3, <1>4, <1>5 DEF StreamInv, SendInv
  <1>. QED
    BY <1>2, <1>6, <1>7, <1>8, <1>9, LogKept DEF StreamInv

(* A message that is stored while its client waits. *)
LEMMA StoredStream ==
  ASSUME StreamInv, NEW c \in Client, Stored(c)
  PROVE  StreamInv' /\ [Contract!Next]_log
  <1>. TypeOK
    BY DEF StreamInv
  <1>1. PICK result \in {"published", "error"} : Return(c, result)
    BY DEF Stored
  <1>2. Store(MessageOf(c)) /\ UNCHANGED <<inflight, loaded>> /\ c \in Sending
    BY DEF Stored, Sending
  <1>3. /\ call' \in [Client -> Call] /\ \A d \in Client : call'[d] = call[d] \/ call'[d] = Idle
        /\ outcome' \in [Client -> {"none", "published", "conflict", "error"}]
        /\ Sending' = Sending \ {c}
    BY <1>1, ReturnType
  <1>4. Len(stream) < MaxMessages
    BY <1>2, RoomForMessage
  <1>5. /\ \E message \in Message : stream' = Append(stream, message)
        /\ log' \in [Aggregate -> Seq(LogEntry)]
        /\ LogInv' /\ [Contract!Next]_log
    BY <1>2, <1>4, MessageOfType, StoreStream
  <1>6. stream' \in Seq(Message) /\ Len(stream') = Len(stream) + 1
    BY <1>5, TypeFacts
  <1>7. LoadedInv' /\ ReadInv' /\ SendInv'
    BY <1>2, <1>3, <1>5, ClientsKept
  <1>8. TypeOK'
    BY <1>2, <1>3, <1>5, <1>6 DEF TypeOK
  <1>9. BoundInv'
    BY <1>2, <1>3, <1>6, RoomForMessage DEF StreamInv, BoundInv
  <1>. QED
    BY <1>5, <1>7, <1>8, <1>9 DEF StreamInv

(* And one that is stored after its client has given up. *)
LEMMA StoredLateStream ==
  ASSUME StreamInv, NEW m \in inflight, StoredLate(m)
  PROVE  StreamInv' /\ [Contract!Next]_log
  <1>. TypeOK
    BY DEF StreamInv
  <1>1. Store(m) /\ UNCHANGED <<call, loaded, outcome>> /\ inflight' = inflight \ {m}
    BY DEF StoredLate
  <1>2. m \in Request /\ Passed(m.expected, m.basis) /\ Faithful(m.basis, stream, m.subject)
    BY TypeFacts DEF StreamInv, SendInv
  <1>3. Len(stream) < MaxMessages
    BY RoomForMessage
  <1>4. /\ \E message \in Message : stream' = Append(stream, message)
        /\ log' \in [Aggregate -> Seq(LogEntry)]
        /\ LogInv' /\ [Contract!Next]_log
    BY <1>1, <1>2, <1>3, StoreStream
  <1>5. stream' \in Seq(Message) /\ Len(stream') = Len(stream) + 1
    BY <1>4, TypeFacts
  <1>6. LoadedInv' /\ ReadInv' /\ SendInv'
    BY <1>1, <1>4, ClientsKept
  <1>7. TypeOK'
    BY <1>1, <1>4, <1>5 DEF TypeOK
  <1>8. BoundInv'
    <2>1. Sending' = Sending
      BY <1>1 DEF Sending, At
    <2>. QED
      BY <1>1, <1>5, <2>1, RoomForMessage DEF StreamInv, BoundInv
  <1>. QED
    BY <1>4, <1>6, <1>7, <1>8 DEF StreamInv

(* Refused and failed requests change nothing but their call. *)
LEMMA FailedStream ==
  ASSUME StreamInv, NEW c \in Client, Refused(c) \/ RequestFails(c) PROVE StreamInv'
  <1>. TypeOK
    BY DEF StreamInv
  <1>1. PICK result \in {"conflict", "error"} : Return(c, result)
    BY DEF Refused, RequestFails
  <1>2. UNCHANGED <<stream, inflight, loaded, log>>
    BY DEF Refused, RequestFails
  <1>3. /\ call' \in [Client -> Call] /\ \A d \in Client : call'[d] = call[d] \/ call'[d] = Idle
        /\ outcome' \in [Client -> {"none", "published", "conflict", "error"}]
        /\ Sending' \subseteq Sending
    BY <1>1, ReturnType
  <1>4. LoadedInv' /\ ReadInv' /\ SendInv'
    BY <1>2, <1>3, ClientsKept
  <1>5. TypeOK' /\ BoundInv'
    BY <1>2, <1>3, RoomKept DEF StreamInv, TypeOK
  <1>. QED
    BY <1>2, <1>4, <1>5, LogKept DEF StreamInv

(* A message its client gives up on keeps what the client had loaded. *)
LEMMA GiveUpStream ==
  ASSUME StreamInv, NEW c \in Client, GiveUp(c) PROVE StreamInv'
  <1>. TypeOK
    BY DEF StreamInv
  <1>1. /\ Return(c, "error") /\ inflight' = inflight \cup {MessageOf(c)}
        /\ UNCHANGED <<stream, loaded, log>> /\ c \in Sending
        /\ MessageOf(c) \notin inflight
    BY DEF GiveUp, Sending, MessageOf
  <1>2. /\ call' \in [Client -> Call] /\ call'[c] = Idle /\ \A d \in Client \ {c} : call'[d] = call[d]
        /\ outcome' \in [Client -> {"none", "published", "conflict", "error"}]
        /\ Sending' = Sending \ {c}
    BY <1>1, ReturnType
  <1>3. TypeOK'
    BY <1>1, <1>2, MessageOfType DEF TypeOK
  <1>4. BoundInv'
    <2>1. IsFiniteSet(inflight') /\ Cardinality(inflight') = Cardinality(inflight) + 1
      BY <1>1, FS_AddElement DEF StreamInv, BoundInv
    <2>2. /\ IsFiniteSet(Sending') /\ Cardinality(Sending') = Cardinality(Sending) - 1
          /\ Len(stream) + 1 + Cardinality(Sending') + Cardinality(inflight) <= MaxMessages
          /\ Len(stream) \in Nat /\ Cardinality(Sending) \in Nat /\ Cardinality(inflight) \in Nat
      BY <1>1, <1>2, RoomForMessage
    <2>3. Len(stream) + Cardinality(Sending') + Cardinality(inflight') <= MaxMessages
      BY <2>1, <2>2
    <2>. QED
      BY <1>1, <2>1, <2>2, <2>3 DEF BoundInv
  <1>5. LoadedInv' /\ ReadInv'
    BY <1>1, <1>2, IdleReading DEF StreamInv, LoadedInv, ReadInv
  <1>6. SendInv'
    <2>1. \A d \in Client : call'[d].step = "send" => Passed(call'[d].expected, loaded[d])
      BY <1>2, IdleType DEF StreamInv, SendInv
    <2>2. \A m \in inflight' : Passed(m.expected, m.basis) /\ Faithful(m.basis, stream, m.subject)
      BY <1>1, MessageOfType DEF StreamInv, SendInv
    <2>. QED
      BY <1>1, <2>1, <2>2 DEF SendInv
  <1>. QED
    BY <1>1, <1>3, <1>4, <1>5, <1>6, LogKept DEF StreamInv

(* A load begins with nothing read. *)
LEMMA StartLoadStream ==
  ASSUME StreamInv, NEW c \in Client, StartLoad(c) PROVE StreamInv'
  <1>. TypeOK
    BY DEF StreamInv
  <1>. DEFINE locals == [Idle EXCEPT !.step = "latest"]
  <1>1. Begin(c, locals) /\ UNCHANGED <<stream, inflight, loaded, log>>
    BY DEF StartLoad, Begin
  <1>2. locals \in Call /\ locals.step = "latest" /\ locals.next = 0 /\ locals.events = <<>>
    BY IdleType DEF Call
  <1>. HIDE DEF locals
  <1>3. call' \in [Client -> Call] /\ call'[c] = locals /\ \A d \in Client \ {c} : call'[d] = call[d]
    BY <1>1, <1>2 DEF Begin, TypeOK
  <1>4. TypeOK'
    BY <1>1, <1>3 DEF Begin, TypeOK
  <1>5. BoundInv'
    <2>1. Sending' \subseteq Sending
      BY <1>2, <1>3 DEF Sending, At
    <2>. QED
      BY <1>1, <2>1, RoomKept DEF StreamInv
  <1>6. LoadedInv' /\ ReadInv'
    <2>1. Reading(locals, stream, AggregateOf[c])
      BY <1>2 DEF Reading
    <2>. QED
      BY <1>1, <1>3, <2>1 DEF StreamInv, LoadedInv, ReadInv
  <1>7. SendInv'
    BY <1>1, <1>2, <1>3 DEF StreamInv, SendInv
  <1>. QED
    BY <1>1, <1>4, <1>5, <1>6, <1>7, LogKept DEF StreamInv

(* A load that returns the events up to the message it asked for. *)
LEMMA ReturnLoadedStream ==
  ASSUME StreamInv, NEW c \in Client, NEW n \in 0 .. Len(stream),
         ReturnLoaded(c, Events(stream, AggregateOf[c], n), n), UNCHANGED <<stream, inflight, log>>,
         call[c].step # "send"
  PROVE  StreamInv'
  <1>. TypeOK
    BY DEF StreamInv
  <1>. DEFINE a == AggregateOf[c]
              events == Events(stream, a, n)
              load == [revision |-> LastRevision(events), events |-> events, since |-> n]
  <1>1. Return(c, "none") /\ loaded' = [loaded EXCEPT ![c] = load]
    BY DEF ReturnLoaded, LastRevision
  <1>2. stream \in Seq(Message) /\ Len(stream) \in Nat /\ n \in Nat /\ events \in Seq(Nat)
    <2>1. stream \in Seq(Message) /\ Len(stream) \in Nat /\ n \in Nat
      BY TypeFacts
    <2>. QED
      BY <2>1, EventsFacts
  <1>. HIDE DEF a
  <1>3. LastRevision(events) \in Expected
    <2>1. CASE events = <<>>
      BY <2>1, NumberFacts DEF LastRevision
    <2>2. CASE events # <<>>
      <3>1. PICK k \in Numbers(stream, a) :
              k <= n /\ stream[k].count # 0 /\ LastRevision(events) = EncodeRevision(k, stream[k].count - 1)
        BY <1>2, <2>2, LastEvent
      <3>2. k \in 1 .. Len(stream) /\ Len(stream) <= MaxMessages
        <4>1. /\ Len(stream) + Cardinality(Sending) + Cardinality(inflight) <= MaxMessages
              /\ Cardinality(Sending) \in Nat /\ Cardinality(inflight) \in Nat
          BY RoomForMessage DEF StreamInv, BoundInv
        <4>. QED
          BY <1>2, <3>1, <4>1 DEF Numbers
      <3>. DEFINE j == stream[k].count - 1
      <3>3. j \in Nat /\ k \in 1 .. MaxMessages
        BY <1>2, <3>1, <3>2, CountFacts
      <3>. HIDE DEF j
      <3>4. EncodeRevision(k, j) \in Revision
        BY <3>3, RevisionType
      <3>. QED
        BY <3>1, <3>4 DEF j, Expected
    <2>. QED
      BY <2>1, <2>2
  <1>4. load \in Loaded
    BY <1>2, <1>3 DEF Loaded
  <1>5. Faithful(load, stream, a)
    BY <1>2 DEF Faithful
  <1>. HIDE DEF load, events
  <1>6. /\ call' \in [Client -> Call] /\ call'[c] = Idle /\ \A d \in Client \ {c} : call'[d] = call[d]
        /\ outcome' \in [Client -> {"none", "published", "conflict", "error"}]
        /\ Sending' \subseteq Sending
    BY <1>1, ReturnType
  <1>7. loaded' \in [Client -> Loaded] /\ loaded'[c] = load /\ \A d \in Client \ {c} : loaded'[d] = loaded[d]
    BY <1>1, <1>4 DEF TypeOK
  <1>8. TypeOK'
    BY <1>6, <1>7 DEF TypeOK
  <1>9. BoundInv'
    BY <1>6, RoomKept DEF StreamInv
  <1>10. LoadedInv'
    BY <1>5, <1>7 DEF StreamInv, LoadedInv, a
  <1>11. ReadInv'
    BY <1>6, IdleReading DEF StreamInv, ReadInv
  <1>12. SendInv'
    BY <1>6, <1>7, IdleType DEF StreamInv, SendInv
  <1>. QED
    BY <1>8, <1>9, <1>10, <1>11, <1>12, LogKept DEF StreamInv

(* The latest message is asked for: without one nothing was published. *)
LEMMA AskLatestStream ==
  ASSUME StreamInv, NEW c \in Client, AskLatest(c) PROVE StreamInv'
  <1>. TypeOK
    BY DEF StreamInv
  <1>. DEFINE a == AggregateOf[c]
              latest == LastOf(a)
  <1>1. /\ call[c].step = "latest" /\ UNCHANGED <<stream, inflight, log>>
        /\ stream \in Seq(Message) /\ Len(stream) \in Nat
    BY TypeFacts DEF AskLatest, At
  <1>2. call[c].next = 0 /\ call[c].events = <<>>
    BY <1>1 DEF StreamInv, ReadInv, Reading
  <1>3. Events(stream, a, 0) = <<>>
    BY <1>1, EventsFacts
  <1>4. CASE ReturnLoaded(c, <<>>, 0)
    <2>1. 0 \in 0 .. Len(stream)
      BY <1>1
    <2>. QED
      BY <1>1, <1>3, <1>4, <2>1, ReturnLoadedStream
  <1>5. CASE /\ latest # 0
             /\ call' = [call EXCEPT ![c].step = "consume", ![c].latest = latest]
             /\ UNCHANGED <<loaded, outcome>>
    <2>1. latest \in Numbers(stream, a) /\ latest \in Nat /\ latest > 0
      BY <1>1, <1>5, SameEvents, LatestFacts
    <2>. HIDE DEF latest, a
    <2>. DEFINE locals == [call[c] EXCEPT !.step = "consume", !.latest = latest]
    <2>2. /\ locals \in Call /\ locals.step = "consume" /\ locals.latest = latest
          /\ locals.next = 0 /\ locals.events = <<>>
      <3>1. call[c] \in Call
        BY TypeFacts
      <3>. QED
        BY <1>2, <2>1, <3>1 DEF Call
    <2>3. call' = [call EXCEPT ![c] = locals]
      BY <1>5 DEF TypeOK
    <2>. HIDE DEF locals
    <2>4. call' \in [Client -> Call] /\ call'[c] = locals /\ \A d \in Client \ {c} : call'[d] = call[d]
      BY <2>2, <2>3 DEF TypeOK
    <2>5. TypeOK'
      BY <1>1, <1>5, <2>4 DEF TypeOK
    <2>6. BoundInv'
      <3>1. Sending' \subseteq Sending
        BY <2>2, <2>4 DEF Sending, At
      <3>. QED
        BY <1>1, <3>1, RoomKept DEF StreamInv
    <2>7. ReadInv'
      <3>1. Reading(locals, stream, a)
        BY <1>3, <2>1, <2>2 DEF Reading
      <3>. QED
        BY <1>1, <2>4, <3>1 DEF StreamInv, ReadInv, a
    <2>8. LoadedInv' /\ SendInv'
      BY <1>1, <1>5, <2>2, <2>4 DEF StreamInv, LoadedInv, SendInv
    <2>. QED
      BY <1>1, <2>5, <2>6, <2>7, <2>8, LogKept DEF StreamInv
  <1>. QED
    BY <1>4, <1>5 DEF AskLatest

(* The consumer goes from one message of its subject to the next. *)
LEMMA NextMsgStream ==
  ASSUME StreamInv, NEW c \in Client, NextMsg(c) PROVE StreamInv'
  <1>. TypeOK
    BY DEF StreamInv
  <1>. DEFINE a == AggregateOf[c]
              next == call[c].next
              latest == call[c].latest
  <1>1. /\ call[c].step = "consume" /\ UNCHANGED <<stream, inflight, log>>
        /\ stream \in Seq(Message) /\ Len(stream) \in Nat /\ next \in Nat /\ latest \in Nat
    BY TypeFacts DEF NextMsg, At
  <1>2. latest \in Numbers(stream, a) /\ next < latest /\ call[c].events = Events(stream, a, next)
    BY <1>1 DEF StreamInv, ReadInv, Reading
  <1>3. PICK sequence \in Numbers(stream, a) :
          /\ sequence > next
          /\ \A n \in Numbers(stream, a) : n > next => n >= sequence
          /\ LET events == call[c].events \o EventsOf(sequence) IN
             \/ IsLatest(c, sequence) /\ ReturnLoaded(c, events, latest)
             \/ /\ ~IsLatest(c, sequence)
                /\ call' = [call EXCEPT ![c].next = sequence, ![c].events = events]
                /\ UNCHANGED <<loaded, outcome>>
    BY SameEvents DEF NextMsg
  <1>. DEFINE events == call[c].events \o EventsOf(sequence)
  <1>4. /\ sequence \in 1 .. Len(stream) /\ stream[sequence].subject = a
        /\ latest \in 1 .. Len(stream) /\ latest >= sequence
    BY <1>1, <1>2, <1>3 DEF Numbers
  <1>5. events = Events(stream, a, sequence) /\ events \in Seq(Nat)
    <2>1. Events(stream, a, sequence) = Events(stream, a, sequence - 1) \o EventsOf(sequence)
      BY <1>1, <1>4, EventsFacts DEF Piece, EventsOf
    <2>2. Events(stream, a, sequence - 1) = Events(stream, a, next)
      <3>1. next \in 0 .. Len(stream) /\ sequence - 1 \in 0 .. Len(stream) /\ next <= sequence - 1
        BY <1>1, <1>3, <1>4
      <3>2. \A i \in Numbers(stream, a) : ~(next < i /\ i <= sequence - 1)
        BY <1>1, <1>3, <1>4 DEF Numbers
      <3>. QED
        BY <1>1, <3>1, <3>2, EventsOfGap
    <2>3. events = Events(stream, a, sequence)
      BY <1>2, <2>1, <2>2
    <2>4. sequence \in 0 .. Len(stream)
      BY <1>1, <1>4
    <2>5. Events(stream, a, sequence) \in Seq(Nat)
      BY <1>1, <2>4, EventsFacts
    <2>. QED
      BY <2>3, <2>5
  <1>6. CASE IsLatest(c, sequence) /\ ReturnLoaded(c, events, latest)
    <2>1. sequence = latest /\ latest \in 0 .. Len(stream)
      BY <1>1, <1>4, <1>6 DEF IsLatest
    <2>. HIDE DEF latest, events
    <2>. QED
      BY <1>1, <1>5, <1>6, <2>1, ReturnLoadedStream
  <1>7. CASE /\ ~IsLatest(c, sequence)
             /\ call' = [call EXCEPT ![c].next = sequence, ![c].events = events]
             /\ UNCHANGED <<loaded, outcome>>
    <2>1. sequence < latest /\ sequence \in Nat
      BY <1>1, <1>4, <1>7 DEF IsLatest
    <2>. HIDE DEF events, a
    <2>. DEFINE locals == [call[c] EXCEPT !.next = sequence, !.events = events]
    <2>2. /\ locals \in Call /\ locals.step = "consume" /\ locals.latest = latest
          /\ locals.next = sequence /\ locals.events = events
      <3>1. call[c] \in Call
        BY TypeFacts
      <3>. QED
        BY <1>1, <1>5, <2>1, <3>1 DEF Call
    <2>3. call' = [call EXCEPT ![c] = locals]
      BY <1>7 DEF TypeOK
    <2>. HIDE DEF locals
    <2>4. call' \in [Client -> Call] /\ call'[c] = locals /\ \A d \in Client \ {c} : call'[d] = call[d]
      BY <2>2, <2>3 DEF TypeOK
    <2>5. TypeOK'
      BY <1>1, <1>7, <2>4 DEF TypeOK
    <2>6. BoundInv'
      <3>1. Sending' \subseteq Sending
        BY <2>2, <2>4 DEF Sending, At
      <3>. QED
        BY <1>1, <3>1, RoomKept DEF StreamInv
    <2>7. ReadInv'
      <3>1. Reading(locals, stream, a)
        BY <1>2, <1>5, <2>1, <2>2 DEF Reading
      <3>. QED
        BY <1>1, <2>4, <3>1 DEF StreamInv, ReadInv, a
    <2>8. LoadedInv' /\ SendInv'
      BY <1>1, <1>7, <2>2, <2>4 DEF StreamInv, LoadedInv, SendInv
    <2>. QED
      BY <1>1, <2>5, <2>6, <2>7, <2>8, LogKept DEF StreamInv
  <1>. QED
    BY <1>3, <1>6, <1>7

(* StreamInv is inductive, and every step is one of the event log or leaves it alone. *)
LEMMA NextStream == StreamInv /\ [Next]_vars => StreamInv' /\ [Contract!Next]_log
  <1>1. SUFFICES ASSUME StreamInv, [Next]_vars PROVE StreamInv' /\ [Contract!Next]_log
    OBVIOUS
  <1>2. ASSUME NEW c \in Client, StartPublish(c) PROVE StreamInv' /\ [Contract!Next]_log
    BY <1>1, <1>2, StartPublishStream DEF StartPublish, Begin
  <1>3. ASSUME NEW c \in Client, StartLoad(c) PROVE StreamInv' /\ [Contract!Next]_log
    BY <1>1, <1>3, StartLoadStream DEF StartLoad, Begin
  <1>4. ASSUME NEW c \in Client, Stored(c) PROVE StreamInv' /\ [Contract!Next]_log
    BY <1>1, <1>4, StoredStream
  <1>5. ASSUME NEW c \in Client, Refused(c) \/ RequestFails(c) PROVE StreamInv' /\ [Contract!Next]_log
    BY <1>1, <1>5, FailedStream DEF Refused, RequestFails
  <1>6. ASSUME NEW c \in Client, AskLatest(c) PROVE StreamInv' /\ [Contract!Next]_log
    BY <1>1, <1>6, AskLatestStream DEF AskLatest
  <1>7. ASSUME NEW c \in Client, NextMsg(c) PROVE StreamInv' /\ [Contract!Next]_log
    BY <1>1, <1>7, NextMsgStream DEF NextMsg
  <1>8. ASSUME NEW c \in Client, GiveUp(c) PROVE StreamInv' /\ [Contract!Next]_log
    BY <1>1, <1>8, GiveUpStream DEF GiveUp
  <1>9. ASSUME NEW m \in inflight, StoredLate(m) PROVE StreamInv' /\ [Contract!Next]_log
    BY <1>1, <1>9, StoredLateStream
  <1>10. CASE UNCHANGED vars
    <2>1. Sending' = Sending
      BY <1>10 DEF vars, Sending, At
    <2>2. BoundInv'
      BY <1>1, <1>10, <2>1 DEF vars, StreamInv, BoundInv
    <2>3. TypeOK' /\ LoadedInv' /\ ReadInv' /\ SendInv'
      BY <1>1, <1>10 DEF vars, StreamInv, TypeOK, LoadedInv, ReadInv, SendInv
    <2>. QED
      BY <1>1, <1>10, <2>2, <2>3, LogKept DEF vars, StreamInv
  <1>. QED
    BY <1>1, <1>2, <1>3, <1>4, <1>5, <1>6, <1>7, <1>8, <1>9, <1>10 DEF Next, Step

(* StreamInv holds in every reachable state. *)
LEMMA StreamInvariant == Spec => []StreamInv
  BY InitStream, NextStream, PTL DEF Spec

-----------------------------------------------------------------------------
(***************************************************************************)
(* What the invariant says of loads and of the messages on their way.      *)
(***************************************************************************)
(* A message that may be stored next is based on a faithful load. *)
LEMMA SentFacts ==
  ASSUME StreamInv, NEW m \in Sent
  PROVE  m \in Request /\ Passed(m.expected, m.basis) /\ Faithful(m.basis, stream, m.subject)
  <1>. TypeOK
    BY DEF StreamInv
  <1>1. CASE m \in inflight
    BY <1>1, TypeFacts DEF StreamInv, SendInv
  <1>2. CASE m \notin inflight
    <2>1. PICK c \in Sending : m = MessageOf(c)
      BY <1>2 DEF Sent
    <2>. QED
      BY <2>1, MessageOfType
  <1>. QED
    BY <1>1, <1>2

(* A load is the events up to the message that was the latest. *)
LEMMA SnapshotOfInv == StreamInv => LoadIsASnapshot
  <1>. SUFFICES ASSUME StreamInv, NEW c \in Client, loaded[c] # NotLoaded
                PROVE  \E n \in loaded[c].since .. Len(stream) :
                         loaded[c].events = EventsUpTo(AggregateOf[c], n)
    BY DEF LoadIsASnapshot
  <1>. TypeOK
    BY DEF StreamInv
  <1>1. loaded[c].since <= Len(stream) /\ loaded[c].events = Events(stream, AggregateOf[c], loaded[c].since)
    BY DEF StreamInv, LoadedInv, Faithful
  <1>2. loaded[c].since \in loaded[c].since .. Len(stream)
    BY <1>1, TypeFacts
  <1>. QED
    BY <1>1, <1>2, SameEvents

(* A revision that is passed on and accepted was loaded with all events. *)
LEMMA NoLossOfInv == StreamInv => NoLostUpdate
  <1>. SUFFICES ASSUME StreamInv, NEW m \in Sent, PassesOnRevision(m), IsExpected(m)
                PROVE  LoadIsCurrent(m)
    BY DEF NoLostUpdate
  <1>1. /\ m \in Request /\ Passed(m.expected, m.basis) /\ Faithful(m.basis, stream, m.subject)
        /\ stream \in Seq(Message)
    BY SentFacts, TypeFacts DEF StreamInv
  <1>2. /\ m.expected # NoRevision /\ m.expected = m.basis.revision
        /\ Latest(stream, m.subject) = DecodeSequenceNumber(m.expected)
    BY SameEvents DEF PassesOnRevision, IsExpected
  <1>3. m.basis.events = Events(stream, m.subject, Len(stream))
    BY <1>1, <1>2, RequestFacts, ExpectedIsCurrent
  <1>. QED
    BY <1>3, SameEvents DEF LoadIsCurrent

(* A current revision is accepted if the latest message has events. *)
LEMMA ConflictOfInv == StreamInv => OnlyEmptyChangeSetsConflict
  <1>. SUFFICES ASSUME StreamInv, NEW m \in Sent, PassesOnRevision(m), LoadIsCurrent(m),
                       ~EndsEmpty(m.subject)
                PROVE  IsExpected(m)
    BY DEF OnlyEmptyChangeSetsConflict
  <1>. DEFINE a == m.subject
  <1>1. m \in Request /\ Faithful(m.basis, stream, a) /\ stream \in Seq(Message)
    BY SentFacts, TypeFacts DEF StreamInv
  <1>2. m.expected # NoRevision /\ m.expected = m.basis.revision
    BY DEF PassesOnRevision
  <1>3. m.basis.revision = LastRevision(m.basis.events)
    BY <1>1, <1>2, IdleType DEF Faithful
  <1>4. m.basis.events = Events(stream, a, Len(stream))
    BY SameEvents DEF LoadIsCurrent
  <1>5. Numbers(stream, a) # {} => stream[Latest(stream, a)].count # 0
    BY SameEvents DEF EndsEmpty
  <1>6. Latest(stream, a) = DecodeSequenceNumber(LastRevision(Events(stream, a, Len(stream))))
    BY <1>1, <1>5, CurrentIsAccepted
  <1>. QED
    BY <1>2, <1>3, <1>4, <1>6, SameEvents DEF IsExpected

(* Load returns every event of the aggregate, once and in order, up to a   *)
(* moment between its beginning and its end, whatever others store on this *)
(* subject and on others while it consumes.                                *)
THEOREM LoadsAreSnapshots == Spec => []LoadIsASnapshot
  BY StreamInvariant, SnapshotOfInv, PTL

(* A publisher that passes on the revision it loaded and is not refused    *)
(* changes the aggregate it loaded, however late its message arrives and   *)
(* however many change sets have shared an index.                          *)
THEOREM NoUpdateIsLost == Spec => []NoLostUpdate
  BY StreamInvariant, NoLossOfInv, PTL

(* Nobody having added events since, it is refused only after an empty     *)
(* change set, never because of the other subjects of the stream.          *)
THEOREM OnlyEmptyOnesConflict == Spec => []OnlyEmptyChangeSetsConflict
  BY StreamInvariant, ConflictOfInv, PTL

(* The initial states of the store are initial states of the event log. *)
LEMMA InitContract == Init => Contract!Init
  BY DEF Init, Contract!Init

(* The store implements the event log: messages, late ones too, add whole  *)
(* change sets with new revisions after the revision their publisher       *)
(* expected.                                                               *)
THEOREM ImplementsTheEventLog == Spec => ImplementsEventLog
  <1>1. Spec => Contract!Init /\ [][Contract!Next]_log
    BY InitContract, StreamInvariant, NextStream, PTL DEF Spec
  <1>. QED
    BY <1>1 DEF ImplementsEventLog, Contract!Spec
=============================================================================
