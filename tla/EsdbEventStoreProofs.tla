------------------------- MODULE EsdbEventStoreProofs -------------------------
(***************************************************************************)
(* Theorems about the EventStoreDB store, for every number of clients and  *)
(* streams, every page size and every length of the streams, with late     *)
(* appends and lost replies.                                               *)
(***************************************************************************)
EXTENDS EsdbEventStore, InductionLemmas

USE StreamAssumption

-----------------------------------------------------------------------------
(***************************************************************************)
(* Reading hexadecimal digits as decimal ones.                             *)
(***************************************************************************)
(* DecimalReading satisfies its recursion equation. *)
LEMMA DecimalReadingDef ==
  /\ DecimalReading \in [Nat -> Nat]
  /\ \A n \in Nat : DecimalReading[n] = IF n < 16 THEN n ELSE 10 * DecimalReading[n \div 16] + (n % 16)
  <1>. DEFINE Next1(g) == [n \in Nat |-> IF n < 16 THEN n ELSE 10 * g[n \div 16] + (n % 16)]
              F == [g \in [Nat -> Nat] |-> Next1(g)]
  <1>1. \A n \in Nat : n \div 16 \in Nat /\ n % 16 \in Nat /\ (n >= 16 => n \div 16 < n)
    OBVIOUS
  <1>2. F \in [[Nat -> Nat] -> [Nat -> Nat]]
    BY <1>1
  <1>3. Recursive(F, Nat)
    BY <1>1 DEF Recursive
  <1>4. \E f \in [Nat -> Nat] : f = F[f]
    <2>. HIDE DEF F
    <2>. QED
      BY <1>2, <1>3, RecursiveFunction
  <1>5. \E f : f = Next1(f)
    BY <1>4
  <1>6. DecimalReading = CHOOSE f : f = Next1(f)
    BY DEF DecimalReading
  <1>7. DecimalReading = Next1(DecimalReading)
    <2>. HIDE DEF Next1
    <2>. QED
      BY <1>5, <1>6
  <1>8. DecimalReading \in [Nat -> Nat]
    <2>. DEFINE S == { n \in Nat : DecimalReading[n] \in Nat }
    <2>1. ASSUME NEW n \in Nat, \A m \in Nat : m < n => m \in S PROVE n \in S
      <3>1. n >= 16 => DecimalReading[n \div 16] \in Nat
        BY <1>1, <2>1
      <3>2. DecimalReading[n] = IF n < 16 THEN n ELSE 10 * DecimalReading[n \div 16] + (n % 16)
        BY <1>7
      <3>. QED
        BY <1>1, <3>1, <3>2
    <2>. HIDE DEF S
    <2>2. Nat \subseteq S
      BY <2>1, StrongInduction
    <2>3. \A n \in Nat : DecimalReading[n] \in Nat
      BY <2>2 DEF S
    <2>. QED
      BY <1>7, <2>3
  <1>. QED
    BY <1>7, <1>8

(* Read in the smaller base, a number does not grow. *)
LEMMA DecimalReadingIsNoGreater == \A n \in Nat : DecimalReading[n] <= n
  <1>. DEFINE S == { n \in Nat : DecimalReading[n] <= n }
  <1>1. ASSUME NEW n \in Nat, \A m \in Nat : m < n => m \in S PROVE n \in S
    <2>1. CASE n < 16
      BY <2>1, DecimalReadingDef
    <2>2. CASE n >= 16
      <3>. DEFINE q == n \div 16
      <3>1. q \in Nat /\ q < n /\ n % 16 \in Nat /\ n = 16 * q + (n % 16)
        BY <2>2
      <3>2. DecimalReading[q] \in Nat /\ DecimalReading[q] <= q
        BY <1>1, <3>1, DecimalReadingDef
      <3>3. DecimalReading[n] = 10 * DecimalReading[q] + (n % 16)
        BY <2>2, DecimalReadingDef
      <3>. HIDE DEF q
      <3>. QED
        BY <3>1, <3>2, <3>3
    <2>. QED
      BY <2>1, <2>2
  <1>2. Nat \subseteq S
    <2>. HIDE DEF S
    <2>. QED
      BY <1>1, StrongInduction
  <1>. QED
    BY <1>2

(***************************************************************************)
(* A revision the stream has reached is accepted only if the stream is at  *)
(* it, although another number is compared.                                *)
(***************************************************************************)
LEMMA AcceptedIsCurrent ==
  ASSUME NEW expected \in Nat, NEW count \in Nat, expected <= count,
         StreamRevision(expected) \in {AnyRevision, count - 1}
  PROVE  expected = count
  <1>1. DecimalReading[expected] \in Nat /\ DecimalReading[expected] <= expected
    BY DecimalReadingDef, DecimalReadingIsNoGreater
  <1>. QED
    BY <1>1 DEF StreamRevision, NoRevision, InitialRevision, AnyRevision, NoStream

-----------------------------------------------------------------------------
(***************************************************************************)
(* The types of the variables.                                             *)
(***************************************************************************)
Expected == Revision \cup {NoRevision, InitialRevision}

Call ==
  [ step : {"idle", "append", "read"}, expected : Expected, count : Batches \cup {0},
    events : Seq(Nat), since : Nat ]

Loaded == [revision : Expected, events : Seq(Nat), since : Nat]

AppendRequest ==
  [ client : Client, aggregate : Aggregate, expected : Expected, count : Batches \cup {0},
    basis : [revision : Expected, events : Seq(Nat)] ]

LogEntry == [revision : Revision, expected : Expected]

TypeOK ==
  /\ stream \in [Aggregate -> 0 .. MaxEvents]
  /\ inflight \subseteq AppendRequest
  /\ call \in [Client -> Call]
  /\ loaded \in [Client -> Loaded]
  /\ outcome \in [Client -> {"none", "published", "conflict", "error"}]
  /\ log \in [Aggregate -> Seq(LogEntry)]

(***************************************************************************)
(* The inductive invariant.                                                *)
(***************************************************************************)
(* The numbers of the first n events of a stream. *)
UpTo(n) == [i \in 1 .. n |-> i - 1]

(* Some of the first events of a stream with n events. *)
IsBeginning(events, n) == events = UpTo(Len(events)) /\ Len(events) <= n

(* What a load returned, now or when an append was sent: the revision of   *)
(* an aggregate is the number of its events.                               *)
Faithful(load, n) ==
  /\ IsBeginning(load.events, n)
  /\ load.revision # NoRevision => load.revision = Len(load.events)

LoadedInv ==
  \A c \in Client :
    /\ Faithful(loaded[c], stream[AggregateOf[c]])
    /\ loaded[c].since <= Len(loaded[c].events)
    /\ loaded[c].revision = NoRevision => loaded[c] = NotLoaded

ReadInv ==
  \A c \in Client :
    /\ IsBeginning(call[c].events, stream[AggregateOf[c]])
    /\ call[c].since <= stream[AggregateOf[c]]

(* A revision that is passed on is one the stream has reached. *)
ExpectedInv ==
  /\ \A c \in Client : call[c].expected <= stream[AggregateOf[c]]
  /\ \A w \in inflight : w.expected <= stream[w.aggregate] /\ Faithful(w.basis, stream[w.aggregate])

(* The history: the log is at the revision the stream is at. *)
LogInv ==
  \A a \in Aggregate :
    /\ Contract!RevisionOf(log[a]) = stream[a]
    /\ \A i \in 1 .. Len(log[a]) : log[a][i].revision <= stream[a]

StreamInv == TypeOK /\ LoadedInv /\ ReadInv /\ ExpectedInv /\ LogInv

(* Numbers and revisions are integers. *)
LEMMA NumberFacts ==
  /\ NoRevision = -1 /\ InitialRevision = 0
  /\ \A r \in Revision : r \in Nat /\ r > 0
  /\ \A r \in Expected : r \in Int /\ (r # NoRevision => r \in Nat)
  /\ \A n \in Batches \cup {0} : n \in Nat
  BY DEF Revision, NoRevision, InitialRevision, Expected

(* The types of the parts the proofs use. *)
LEMMA TypeFacts ==
  ASSUME TypeOK
  PROVE  /\ \A a \in Aggregate : stream[a] \in Nat /\ log[a] \in Seq(LogEntry)
         /\ \A c \in Client : AggregateOf[c] \in Aggregate
         /\ \A c \in Client : /\ call[c] \in Call /\ call[c].events \in Seq(Nat)
                              /\ call[c].since \in Nat /\ call[c].expected \in Expected
         /\ \A c \in Client : /\ loaded[c] \in Loaded /\ loaded[c].events \in Seq(Nat)
                              /\ loaded[c].since \in Nat /\ loaded[c].revision \in Expected
         /\ \A w \in inflight : w \in AppendRequest
  BY DEF TypeOK, Call, Loaded

(* The types of an append on its way. *)
LEMMA RequestFacts ==
  ASSUME NEW w \in AppendRequest
  PROVE  /\ w.aggregate \in Aggregate /\ w.expected \in Expected /\ w.count \in Nat
         /\ w.basis.events \in Seq(Nat) /\ w.basis.revision \in Expected
  BY NumberFacts DEF AppendRequest

(* The beginnings of a stream are beginnings of it when it grows. *)
LEMMA BeginningKept ==
  ASSUME NEW m \in Nat, NEW n \in Nat, m <= n, NEW events \in Seq(Nat), IsBeginning(events, m)
  PROVE  IsBeginning(events, n)
  BY DEF IsBeginning

(* No events are the beginning of every stream. *)
LEMMA NothingIsBeginning ==
  /\ <<>> \in Seq(Nat) /\ Len(<<>>) = 0
  /\ \A n \in Nat : IsBeginning(<<>>, n)
  <1>1. UpTo(0) = <<>> /\ Len(<<>>) = 0
    BY DEF UpTo
  <1>. QED
    BY <1>1 DEF IsBeginning

(* An idle call, and one with other locals that are allowed, is well typed. *)
LEMMA IdleType == Idle \in Call /\ Idle.step = "idle" /\ Idle.events = <<>> /\ Idle.expected = NoRevision
                  /\ Idle.since = 0
  BY DEF Idle, Call, Expected

(* The invariant holds initially. *)
LEMMA InitStream == Init => StreamInv
  <1>1. SUFFICES ASSUME Init PROVE StreamInv
    OBVIOUS
  <1>2. TypeOK
    <2>1. <<>> \in Seq(LogEntry) /\ NotLoaded \in Loaded
      BY DEF NotLoaded, Loaded, Expected
    <2>. QED
      BY <1>1, <2>1, IdleType DEF Init, TypeOK
  <1>3. IsBeginning(<<>>, 0) /\ Len(<<>>) = 0
    BY NothingIsBeginning
  <1>4. LoadedInv /\ ReadInv /\ ExpectedInv
    BY <1>1, <1>3, IdleType, NumberFacts DEF Init, LoadedInv, ReadInv, ExpectedInv, Faithful, NotLoaded
  <1>5. LogInv
    <2>1. Contract!RevisionOf(<<>>) = 0
      BY DEF Contract!RevisionOf, Contract!InitialRevision
    <2>2. \A a \in Aggregate : log[a] = <<>> /\ stream[a] = 0
      BY <1>1 DEF Init
    <2>. SUFFICES ASSUME NEW a \in Aggregate
                  PROVE  /\ Contract!RevisionOf(log[a]) = stream[a]
                         /\ \A i \in 1 .. Len(log[a]) : log[a][i].revision <= stream[a]
      BY DEF LogInv
    <2>3. Contract!RevisionOf(log[a]) = stream[a]
      BY <2>1, <2>2
    <2>. QED
      BY <2>2, <2>3
  <1>. QED
    BY <1>2, <1>4, <1>5 DEF StreamInv

(* A call that returns leaves nothing behind. *)
LEMMA ReturnType ==
  ASSUME TypeOK, NEW c \in Client, NEW result \in {"none", "published", "conflict", "error"},
         Return(c, result)
  PROVE  /\ call' \in [Client -> Call]
         /\ outcome' \in [Client -> {"none", "published", "conflict", "error"}]
         /\ call'[c] = Idle /\ \A d \in Client \ {c} : call'[d] = call[d]
  BY IdleType DEF Return, TypeOK

(* What was loaded and what is expected stays true of a stream that grows. *)
LEMMA ClientsKept ==
  ASSUME StreamInv, stream' \in [Aggregate -> 0 .. MaxEvents],
         \A a \in Aggregate : stream[a] <= stream'[a],
         UNCHANGED loaded, inflight' \subseteq inflight,
         call' \in [Client -> Call], \A c \in Client : call'[c] = call[c] \/ call'[c] = Idle
  PROVE  LoadedInv' /\ ReadInv' /\ ExpectedInv'
  <1>. TypeOK
    BY DEF StreamInv
  <1>1. \A a \in Aggregate : stream[a] \in Nat /\ stream'[a] \in Nat /\ stream[a] <= stream'[a]
    BY TypeFacts
  <1>2. \A a \in Aggregate, events \in Seq(Nat) :
          IsBeginning(events, stream[a]) => IsBeginning(events, stream'[a])
    BY <1>1, BeginningKept
  <1>3. LoadedInv'
    <2>. SUFFICES ASSUME NEW c \in Client
                  PROVE  /\ Faithful(loaded[c], stream'[AggregateOf[c]])
                         /\ loaded[c].since <= Len(loaded[c].events)
                         /\ loaded[c].revision = NoRevision => loaded[c] = NotLoaded
      BY DEF LoadedInv
    <2>. QED
      BY <1>2, TypeFacts DEF StreamInv, LoadedInv, Faithful
  <1>4. ReadInv'
    <2>. SUFFICES ASSUME NEW c \in Client
                  PROVE  /\ IsBeginning(call'[c].events, stream'[AggregateOf[c]])
                         /\ call'[c].since <= stream'[AggregateOf[c]]
      BY DEF ReadInv
    <2>1. /\ IsBeginning(call[c].events, stream[AggregateOf[c]])
          /\ call[c].since <= stream[AggregateOf[c]]
      BY DEF StreamInv, ReadInv
    <2>2. CASE call'[c] = call[c]
      <3>1. IsBeginning(call[c].events, stream'[AggregateOf[c]])
        BY <1>2, <2>1, TypeFacts
      <3>2. call[c].since <= stream'[AggregateOf[c]]
        BY <1>1, <2>1, TypeFacts
      <3>. QED
        BY <2>2, <3>1, <3>2
    <2>3. CASE call'[c] = Idle
      BY <1>1, <2>3, TypeFacts, IdleType, NothingIsBeginning
    <2>. QED
      BY <2>2, <2>3
  <1>5. ExpectedInv'
    <2>1. ASSUME NEW c \in Client PROVE call'[c].expected <= stream'[AggregateOf[c]]
      <3>1. call[c].expected \in Int /\ call[c].expected <= stream[AggregateOf[c]]
        BY TypeFacts, NumberFacts DEF StreamInv, ExpectedInv
      <3>. QED
        BY <1>1, <3>1, TypeFacts, IdleType, NumberFacts
    <2>2. ASSUME NEW w \in inflight'
          PROVE  w.expected <= stream'[w.aggregate] /\ Faithful(w.basis, stream'[w.aggregate])
      <3>1. w \in inflight /\ w \in AppendRequest
        BY TypeFacts
      <3>2. w.expected <= stream[w.aggregate] /\ Faithful(w.basis, stream[w.aggregate])
        BY <3>1 DEF StreamInv, ExpectedInv
      <3>3. w.expected \in Int /\ w.aggregate \in Aggregate /\ w.basis.events \in Seq(Nat)
        BY <3>1, RequestFacts, NumberFacts
      <3>4. w.expected <= stream'[w.aggregate]
        BY <1>1, <3>2, <3>3
      <3>. QED
        BY <1>2, <3>2, <3>3, <3>4 DEF Faithful
    <2>. QED
      BY <2>1, <2>2 DEF ExpectedInv
  <1>. QED
    BY <1>3, <1>4, <1>5

(* The history is kept by what leaves the streams alone. *)
LEMMA LogKept == ASSUME StreamInv, UNCHANGED <<stream, log>> PROVE LogInv'
  BY DEF StreamInv, LogInv, Contract!RevisionOf

(***************************************************************************)
(* An append moves the stream and the log on, and is a step of the event   *)
(* log: what the server compared was the revision the publisher expected.  *)
(***************************************************************************)
LEMMA DoAppendStream ==
  ASSUME StreamInv, NEW w \in AppendRequest, w.expected <= stream[w.aggregate], DoAppend(w)
  PROVE  /\ stream' \in [Aggregate -> 0 .. MaxEvents]
         /\ \A a \in Aggregate : stream[a] <= stream'[a]
         /\ log' \in [Aggregate -> Seq(LogEntry)]
         /\ LogInv'
         /\ [Contract!Next]_log
  <1>. DEFINE a == w.aggregate
              end == stream[a] + w.count
              entry == [revision |-> RevisionOfEvent(end - 1), expected |-> w.expected]
  <1>1. a \in Aggregate /\ stream[a] \in Nat /\ w.count \in Nat /\ w.expected \in Expected
    BY RequestFacts, TypeFacts DEF StreamInv
  <1>2. stream' = [stream EXCEPT ![a] = end] /\ end \in 0 .. MaxEvents
    BY <1>1 DEF DoAppend
  <1>3. stream' \in [Aggregate -> 0 .. MaxEvents] /\ \A b \in Aggregate : stream[b] <= stream'[b]
    BY <1>1, <1>2 DEF StreamInv, TypeOK
  <1>4. CASE w.count = 0
    <2>1. log' = log /\ stream' = stream
      BY <1>1, <1>2, <1>4 DEF DoAppend, StreamInv, TypeOK
    <2>. QED
      BY <1>3, <2>1, LogKept DEF StreamInv, TypeOK
  <1>5. CASE w.count # 0
    <2>1. log' = [log EXCEPT ![a] = Append(log[a], entry)]
      BY <1>1, <1>5 DEF DoAppend, StreamInv, TypeOK
    <2>2. entry.revision = end /\ entry.expected = w.expected /\ entry \in LogEntry /\ end > stream[a]
      BY <1>1, <1>2, <1>5 DEF RevisionOfEvent, LogEntry, Revision
    <2>3. log[a] \in Seq(LogEntry)
      BY <1>1 DEF StreamInv, TypeOK
    <2>. HIDE DEF entry, end
    <2>4. /\ Append(log[a], entry) \in Seq(LogEntry)
          /\ Len(Append(log[a], entry)) = Len(log[a]) + 1
          /\ Append(log[a], entry)[Len(log[a]) + 1] = entry
          /\ \A i \in 1 .. Len(log[a]) : Append(log[a], entry)[i] = log[a][i]
      BY <2>2, <2>3
    <2>5. log' \in [Aggregate -> Seq(LogEntry)]
      BY <2>1, <2>4 DEF StreamInv, TypeOK
    <2>6. LogInv'
      <3>. SUFFICES ASSUME NEW b \in Aggregate
                    PROVE  /\ Contract!RevisionOf(log[b])' = stream'[b]
                           /\ \A i \in 1 .. Len(log'[b]) : log'[b][i].revision <= stream'[b]
        BY DEF LogInv
      <3>1. CASE b # a
        <4>1. log'[b] = log[b] /\ stream'[b] = stream[b]
          BY <1>1, <1>2, <2>1, <3>1 DEF StreamInv, TypeOK
        <4>. QED
          BY <4>1 DEF StreamInv, LogInv, Contract!RevisionOf
      <3>2. CASE b = a
        <4>1. log'[b] = Append(log[a], entry) /\ stream'[b] = end
          BY <1>1, <1>2, <2>1, <3>2 DEF StreamInv, TypeOK
        <4>2. Contract!RevisionOf(log'[b]) = end
          <5>1. Append(log[a], entry) # <<>>
            <6>1. Len(Append(log[a], entry)) # 0 /\ Len(<<>>) = 0
              BY <2>3, <2>4
            <6>. QED
              BY <6>1
          <5>. QED
            BY <2>2, <2>4, <4>1, <5>1 DEF Contract!RevisionOf
        <4>3. ASSUME NEW i \in 1 .. Len(log'[b]) PROVE log'[b][i].revision <= end
          <5>1. CASE i = Len(log[a]) + 1
            <6>1. end \in Nat
              BY <1>2 DEF end
            <6>. QED
              BY <2>2, <2>4, <4>1, <5>1, <6>1
          <5>2. CASE i # Len(log[a]) + 1
            <6>1. i \in 1 .. Len(log[a]) /\ log'[b][i] = log[a][i]
              BY <2>3, <2>4, <4>1, <5>2
            <6>2. log[a][i].revision <= stream[a] /\ log[a][i].revision \in Nat
              <7>1. log[a][i] \in LogEntry
                BY <2>3, <6>1
              <7>2. log[a][i].revision \in Nat
                BY <7>1, NumberFacts DEF LogEntry
              <7>. QED
                BY <1>1, <6>1, <7>2 DEF StreamInv, LogInv
            <6>. QED
              BY <1>1, <2>2, <6>1, <6>2, <1>2
          <5>. QED
            BY <5>1, <5>2
        <4>. QED
          BY <4>1, <4>2, <4>3
      <3>. QED
        BY <3>1, <3>2
    <2>7. Contract!Publish(a, entry)
      <3>1. entry.expected \in {Contract!NoRevision, Contract!RevisionOf(log[a])}
        <4>1. Contract!RevisionOf(log[a]) = stream[a]
          BY <1>1 DEF StreamInv, LogInv
        <4>2. CASE w.expected = NoRevision
          BY <2>2, <4>2 DEF NoRevision, Contract!NoRevision
        <4>3. CASE w.expected # NoRevision
          <5>1. w.expected \in Nat
            BY <1>1, <4>3, NumberFacts DEF Expected
          <5>2. StreamRevision(w.expected) \in {AnyRevision, stream[a] - 1}
            BY DEF DoAppend, AppendIsExpected
          <5>3. w.expected = stream[a]
            BY <1>1, <5>1, <5>2, AcceptedIsCurrent
          <5>. QED
            BY <2>2, <4>1, <5>3
        <4>. QED
          BY <4>2, <4>3
      <3>2. entry.revision \notin Contract!RevisionsOf(log[a])
        <4>. SUFFICES ASSUME NEW i \in 1 .. Len(log[a]), log[a][i].revision = end PROVE FALSE
          BY <2>2 DEF Contract!RevisionsOf
        <4>1. log[a][i].revision <= stream[a]
          BY <1>1 DEF StreamInv, LogInv
        <4>. QED
          BY <1>1, <1>2, <2>2, <4>1
      <3>. QED
        BY <2>1, <3>1, <3>2 DEF Contract!Publish
    <2>8. entry \in Contract!Entry
      BY <2>2 DEF LogEntry, Expected, Contract!Entry, NoRevision, InitialRevision,
                  Contract!NoRevision, Contract!InitialRevision
    <2>9. Contract!Next
      BY <1>1, <2>7, <2>8 DEF Contract!Next
    <2>. QED
      BY <1>3, <2>5, <2>6, <2>9
  <1>. QED
    BY <1>4, <1>5

-----------------------------------------------------------------------------
(***************************************************************************)
(* The actions.                                                            *)
(***************************************************************************)
(* The append a client sends is one whose revision the stream has reached. *)
LEMMA AppendOfType ==
  ASSUME StreamInv, NEW c \in Client
  PROVE  /\ AppendOf(c) \in AppendRequest
         /\ AppendOf(c).expected <= stream[AppendOf(c).aggregate]
         /\ Faithful(AppendOf(c).basis, stream[AppendOf(c).aggregate])
  <1>. TypeOK
    BY DEF StreamInv
  <1>1. call[c].count \in Batches \cup {0}
    BY TypeFacts DEF Call
  <1>2. AppendOf(c) \in AppendRequest
    BY <1>1, TypeFacts DEF AppendOf, AppendRequest
  <1>3. AppendOf(c).expected <= stream[AppendOf(c).aggregate]
    BY DEF AppendOf, StreamInv, ExpectedInv
  <1>4. Faithful(loaded[c], stream[AggregateOf[c]])
    BY DEF StreamInv, LoadedInv
  <1>. QED
    BY <1>2, <1>3, <1>4 DEF AppendOf, Faithful

(* A call of Publish passes on no revision or one the stream has reached. *)
LEMMA StartPublishStream ==
  ASSUME StreamInv, NEW c \in Client, StartPublish(c) PROVE StreamInv'
  <1>. TypeOK
    BY DEF StreamInv
  <1>1. PICK policy \in Policies, n \in Batches :
          LET expected == ExpectedBy(c)[policy] IN
          \/ Begin(c, [Idle EXCEPT !.step = "append", !.expected = expected, !.count = n])
          \/ outcome' = [outcome EXCEPT ![c] = "error"] /\ UNCHANGED call
    BY DEF StartPublish
  <1>2. UNCHANGED <<stream, inflight, loaded, log>>
    BY DEF StartPublish
  <1>. DEFINE expected == ExpectedBy(c)[policy]
              locals == [Idle EXCEPT !.step = "append", !.expected = expected, !.count = n]
  <1>3. expected \in Expected /\ expected <= stream[AggregateOf[c]]
    <2>1. loaded[c].revision \in Expected /\ stream[AggregateOf[c]] \in Nat
      BY TypeFacts
    <2>2. Len(loaded[c].events) <= stream[AggregateOf[c]]
          /\ (loaded[c].revision # NoRevision => loaded[c].revision = Len(loaded[c].events))
      BY DEF StreamInv, LoadedInv, Faithful, IsBeginning
    <2>3. loaded[c].revision <= stream[AggregateOf[c]]
      BY <2>1, <2>2, NumberFacts
    <2>. QED
      BY <2>1, <2>3, NumberFacts DEF ExpectedBy, Policies, Expected
  <1>4. CASE Begin(c, locals)
    <2>. HIDE DEF expected
    <2>1. locals \in Call /\ locals.events = <<>> /\ locals.since = 0 /\ locals.expected = expected
      BY <1>3, IdleType DEF Call
    <2>. HIDE DEF locals
    <2>2. call' \in [Client -> Call] /\ call'[c] = locals /\ \A d \in Client \ {c} : call'[d] = call[d]
      BY <1>4, <2>1 DEF Begin, TypeOK
    <2>3. TypeOK'
      BY <1>2, <1>4, <2>2 DEF Begin, TypeOK
    <2>4. ReadInv'
      BY <1>2, <2>1, <2>2, TypeFacts, NothingIsBeginning DEF StreamInv, ReadInv
    <2>5. ExpectedInv'
      BY <1>2, <1>3, <2>1, <2>2 DEF StreamInv, ExpectedInv
    <2>6. LoadedInv'
      BY <1>2 DEF StreamInv, LoadedInv
    <2>. QED
      BY <1>2, <2>3, <2>4, <2>5, <2>6, LogKept DEF StreamInv
  <1>5. CASE outcome' = [outcome EXCEPT ![c] = "error"] /\ UNCHANGED call
    <2>1. TypeOK'
      BY <1>2, <1>5 DEF TypeOK
    <2>2. LoadedInv' /\ ReadInv' /\ ExpectedInv'
      BY <1>2, <1>5 DEF StreamInv, LoadedInv, ReadInv, ExpectedInv
    <2>. QED
      BY <1>2, <2>1, <2>2, LogKept DEF StreamInv
  <1>. QED
    BY <1>1, <1>4, <1>5

(* An append that is executed while its client waits. *)
LEMMA AppendedStream ==
  ASSUME StreamInv, NEW c \in Client, Appended(c)
  PROVE  StreamInv' /\ [Contract!Next]_log
  <1>. TypeOK
    BY DEF StreamInv
  <1>1. PICK result \in {"published", "error"} : Return(c, result)
    BY DEF Appended
  <1>2. DoAppend(AppendOf(c)) /\ UNCHANGED <<inflight, loaded>>
    BY DEF Appended
  <1>3. /\ stream' \in [Aggregate -> 0 .. MaxEvents]
        /\ \A a \in Aggregate : stream[a] <= stream'[a]
        /\ log' \in [Aggregate -> Seq(LogEntry)]
        /\ LogInv' /\ [Contract!Next]_log
    BY <1>2, AppendOfType, DoAppendStream
  <1>4. /\ call' \in [Client -> Call] /\ \A d \in Client : call'[d] = call[d] \/ call'[d] = Idle
        /\ outcome' \in [Client -> {"none", "published", "conflict", "error"}]
    BY <1>1, ReturnType
  <1>5. LoadedInv' /\ ReadInv' /\ ExpectedInv'
    BY <1>2, <1>3, <1>4, ClientsKept
  <1>6. TypeOK'
    BY <1>2, <1>3, <1>4 DEF TypeOK
  <1>. QED
    BY <1>3, <1>5, <1>6 DEF StreamInv

(* And one that is executed after its client has given up. *)
LEMMA AppendedLateStream ==
  ASSUME StreamInv, NEW w \in inflight, AppendedLate(w)
  PROVE  StreamInv' /\ [Contract!Next]_log
  <1>. TypeOK
    BY DEF StreamInv
  <1>1. w \in AppendRequest /\ w.expected <= stream[w.aggregate]
    BY TypeFacts DEF StreamInv, ExpectedInv
  <1>2. DoAppend(w) /\ UNCHANGED <<call, loaded, outcome>> /\ inflight' \subseteq inflight
    BY DEF AppendedLate
  <1>3. /\ stream' \in [Aggregate -> 0 .. MaxEvents]
        /\ \A a \in Aggregate : stream[a] <= stream'[a]
        /\ log' \in [Aggregate -> Seq(LogEntry)]
        /\ LogInv' /\ [Contract!Next]_log
    BY <1>1, <1>2, DoAppendStream
  <1>4. LoadedInv' /\ ReadInv' /\ ExpectedInv'
    <2>1. call' \in [Client -> Call] /\ \A d \in Client : call'[d] = call[d]
      BY <1>2 DEF TypeOK
    <2>. QED
      BY <1>2, <1>3, <2>1, ClientsKept
  <1>5. TypeOK'
    BY <1>2, <1>3 DEF TypeOK
  <1>. QED
    BY <1>3, <1>4, <1>5 DEF StreamInv

(* Refused and failed requests change nothing but their call. *)
LEMMA FailedStream ==
  ASSUME StreamInv, NEW c \in Client, AppendIsRefused(c) \/ RequestFails(c) PROVE StreamInv'
  <1>. TypeOK
    BY DEF StreamInv
  <1>1. PICK result \in {"conflict", "error"} : Return(c, result)
    BY DEF AppendIsRefused, RequestFails
  <1>2. UNCHANGED <<stream, inflight, loaded, log>>
    BY DEF AppendIsRefused, RequestFails
  <1>3. /\ call' \in [Client -> Call] /\ \A d \in Client : call'[d] = call[d] \/ call'[d] = Idle
        /\ outcome' \in [Client -> {"none", "published", "conflict", "error"}]
    BY <1>1, ReturnType
  <1>4. LoadedInv' /\ ReadInv' /\ ExpectedInv'
    <2>1. stream' \in [Aggregate -> 0 .. MaxEvents] /\ \A a \in Aggregate : stream[a] <= stream'[a]
      BY <1>2, TypeFacts DEF TypeOK
    <2>. QED
      BY <1>2, <1>3, <2>1, ClientsKept
  <1>5. TypeOK'
    BY <1>2, <1>3 DEF TypeOK
  <1>. QED
    BY <1>2, <1>4, <1>5, LogKept DEF StreamInv

(* An append its client gives up on keeps what the client had loaded. *)
LEMMA GiveUpStream ==
  ASSUME StreamInv, NEW c \in Client, GiveUp(c) PROVE StreamInv'
  <1>. TypeOK
    BY DEF StreamInv
  <1>1. /\ Return(c, "error") /\ inflight' = inflight \cup {AppendOf(c)}
        /\ UNCHANGED <<stream, loaded, log>>
    BY DEF GiveUp
  <1>2. /\ call' \in [Client -> Call] /\ call'[c] = Idle /\ \A d \in Client \ {c} : call'[d] = call[d]
        /\ outcome' \in [Client -> {"none", "published", "conflict", "error"}]
    BY <1>1, ReturnType
  <1>3. TypeOK'
    BY <1>1, <1>2, AppendOfType DEF TypeOK
  <1>4. LoadedInv'
    BY <1>1 DEF StreamInv, LoadedInv
  <1>5. ReadInv'
    BY <1>1, <1>2, IdleType, TypeFacts, NothingIsBeginning DEF StreamInv, ReadInv
  <1>6. ExpectedInv'
    <2>1. ASSUME NEW d \in Client PROVE call'[d].expected <= stream[AggregateOf[d]]
      BY <1>2, IdleType, TypeFacts, NumberFacts DEF StreamInv, ExpectedInv
    <2>2. \A w \in inflight' :
            w.expected <= stream[w.aggregate] /\ Faithful(w.basis, stream[w.aggregate])
      BY <1>1, AppendOfType DEF StreamInv, ExpectedInv
    <2>. QED
      BY <1>1, <2>1, <2>2 DEF ExpectedInv
  <1>. QED
    BY <1>1, <1>3, <1>4, <1>5, <1>6, LogKept DEF StreamInv

(* A load begins with nothing read. *)
LEMMA StartLoadStream ==
  ASSUME StreamInv, NEW c \in Client, StartLoad(c) PROVE StreamInv'
  <1>. TypeOK
    BY DEF StreamInv
  <1>. DEFINE locals == [Idle EXCEPT !.step = "read", !.since = stream[AggregateOf[c]]]
  <1>1. Begin(c, locals) /\ UNCHANGED <<stream, inflight, loaded, log>>
    BY DEF StartLoad
  <1>2. /\ locals \in Call /\ locals.events = <<>> /\ locals.since = stream[AggregateOf[c]]
        /\ locals.expected = NoRevision
    BY IdleType, TypeFacts DEF Call
  <1>. HIDE DEF locals
  <1>3. call' \in [Client -> Call] /\ call'[c] = locals /\ \A d \in Client \ {c} : call'[d] = call[d]
    BY <1>1, <1>2 DEF Begin, TypeOK
  <1>4. TypeOK'
    BY <1>1, <1>3 DEF Begin, TypeOK
  <1>5. LoadedInv'
    BY <1>1 DEF StreamInv, LoadedInv
  <1>6. ReadInv'
    BY <1>1, <1>2, <1>3, TypeFacts, NothingIsBeginning DEF StreamInv, ReadInv
  <1>7. ExpectedInv'
    <2>1. ASSUME NEW d \in Client PROVE call'[d].expected <= stream[AggregateOf[d]]
      BY <1>2, <1>3, TypeFacts, NumberFacts DEF StreamInv, ExpectedInv
    <2>. QED
      BY <1>1, <2>1 DEF StreamInv, ExpectedInv
  <1>. QED
    BY <1>1, <1>4, <1>5, <1>6, <1>7, LogKept DEF StreamInv

(* A page goes on where the last one ended; one that is not full ends at   *)
(* the end of the stream.                                                  *)
LEMMA PageContinues ==
  ASSUME NEW events \in Seq(Nat), NEW count \in Nat, IsBeginning(events, count)
  PROVE  LET page == Page(From(events), count) IN
         /\ IsBeginning(events \o page, count)
         /\ events \o page \in Seq(Nat)
         /\ Len(page) < PageSize => Len(events \o page) = count
         /\ events \o page # <<>> => (events \o page)[Len(events \o page)] = Len(events \o page) - 1
  <1>. DEFINE n == Len(events)
              length == IF count - n < PageSize THEN count - n ELSE PageSize
              page == Page(From(events), count)
              all == events \o page
  <1>1. n \in Nat /\ n <= count /\ events = UpTo(n) /\ PageSize \in Nat
    BY DEF IsBeginning
  <1>2. From(events) = n
    <2>1. CASE events = <<>>
      BY <2>1 DEF From
    <2>2. CASE events # <<>>
      <3>1. n > 0 /\ events[n] = n - 1
        BY <1>1, <2>2 DEF UpTo
      <3>. QED
        BY <1>1, <2>2, <3>1 DEF From
    <2>. QED
      BY <2>1, <2>2
  <1>3. /\ page = [i \in 1 .. length |-> n + i - 1] /\ length \in Nat /\ n + length <= count
        /\ length < PageSize => n + length = count
    BY <1>1, <1>2 DEF Page
  <1>. HIDE DEF page, length
  <1>4. page \in Seq(Nat) /\ Len(page) = length /\ \A i \in 1 .. length : page[i] = n + i - 1
    BY <1>1, <1>3
  <1>5. /\ all \in Seq(Nat) /\ Len(all) = n + length
        /\ \A i \in 1 .. n : all[i] = events[i]
        /\ \A i \in n + 1 .. n + length : all[i] = page[i - n]
    BY <1>1, <1>3, <1>4
  <1>. HIDE DEF all
  <1>6. ASSUME NEW i \in 1 .. n + length PROVE all[i] = i - 1
    <2>1. CASE i <= n
      BY <1>1, <1>3, <1>5, <2>1 DEF UpTo
    <2>2. CASE i > n
      <3>1. i - n \in 1 .. length /\ i \in n + 1 .. n + length
        BY <1>1, <1>3, <2>2
      <3>. QED
        BY <1>1, <1>4, <1>5, <3>1
    <2>. QED
      BY <1>1, <2>1, <2>2
  <1>7. all = UpTo(Len(all))
    BY <1>3, <1>5, <1>6 DEF UpTo
  <1>8. all # <<>> => all[Len(all)] = Len(all) - 1
    <2>1. all # <<>> => Len(all) # 0
      BY <1>5
    <2>. QED
      BY <1>1, <1>3, <1>5, <1>6, <2>1
  <1>9. IsBeginning(all, count) /\ all \in Seq(Nat) /\ (Len(page) < PageSize => Len(all) = count)
    BY <1>3, <1>4, <1>5, <1>7 DEF IsBeginning
  <1>. QED
    BY <1>8, <1>9 DEF page, all

(* Reading a page keeps the invariant; the last page makes it a load. *)
LEMMA ReadPageStream ==
  ASSUME StreamInv, NEW c \in Client, ReadPage(c) PROVE StreamInv'
  <1>. TypeOK
    BY DEF StreamInv
  <1>. DEFINE count == stream[AggregateOf[c]]
              page == Page(From(call[c].events), count)
              events == call[c].events \o page
              revision == IF events = <<>> THEN InitialRevision ELSE RevisionOfEvent(events[Len(events)])
              load == [revision |-> revision, events |-> events, since |-> call[c].since]
  <1>1. UNCHANGED <<stream, inflight, log>>
    BY DEF ReadPage
  <1>2. /\ IsBeginning(events, count) /\ events \in Seq(Nat)
        /\ Len(page) < PageSize => Len(events) = count
        /\ events # <<>> => events[Len(events)] = Len(events) - 1
    BY TypeFacts, PageContinues DEF StreamInv, ReadInv
  <1>3. \/ Len(page) < PageSize /\ loaded' = [loaded EXCEPT ![c] = load] /\ Return(c, "none")
        \/ call' = [call EXCEPT ![c].events = events] /\ UNCHANGED <<loaded, outcome>>
    BY DEF ReadPage
  <1>4. count \in Nat /\ call[c].since \in Nat /\ call[c].since <= count /\ Len(events) <= count
    BY <1>2, TypeFacts DEF StreamInv, ReadInv, IsBeginning
  <1>. HIDE DEF page, events, count
  <1>5. revision \in Expected /\ revision = Len(events)
    <2>1. Len(events) \in Nat /\ (events = <<>> <=> Len(events) = 0)
      BY <1>2
    <2>2. count <= MaxEvents
      BY TypeFacts DEF TypeOK, count
    <2>. QED
      BY <1>2, <1>4, <2>1, <2>2 DEF RevisionOfEvent, Expected, Revision, InitialRevision
  <1>. HIDE DEF revision
  <1>6. CASE Len(page) < PageSize /\ loaded' = [loaded EXCEPT ![c] = load] /\ Return(c, "none")
    <2>1. /\ load \in Loaded /\ Faithful(load, count) /\ load.since <= Len(load.events)
          /\ load.revision # NoRevision
      BY <1>2, <1>4, <1>5, <1>6, NumberFacts DEF Loaded, Faithful
    <2>. HIDE DEF load
    <2>2. /\ call' \in [Client -> Call] /\ call'[c] = Idle /\ \A d \in Client \ {c} : call'[d] = call[d]
          /\ outcome' \in [Client -> {"none", "published", "conflict", "error"}]
      BY <1>6, ReturnType
    <2>3. loaded' \in [Client -> Loaded] /\ loaded'[c] = load /\ \A d \in Client \ {c} : loaded'[d] = loaded[d]
      BY <1>6, <2>1 DEF TypeOK
    <2>4. TypeOK'
      BY <1>1, <2>2, <2>3 DEF TypeOK
    <2>5. LoadedInv'
      BY <1>1, <2>1, <2>3 DEF StreamInv, LoadedInv, count
    <2>6. ReadInv'
      BY <1>1, <2>2, IdleType, TypeFacts, NothingIsBeginning DEF StreamInv, ReadInv
    <2>7. ExpectedInv'
      <3>1. ASSUME NEW d \in Client PROVE call'[d].expected <= stream[AggregateOf[d]]
        BY <2>2, IdleType, TypeFacts, NumberFacts DEF StreamInv, ExpectedInv
      <3>. QED
        BY <1>1, <3>1 DEF StreamInv, ExpectedInv
    <2>. QED
      BY <1>1, <2>4, <2>5, <2>6, <2>7, LogKept DEF StreamInv
  <1>7. CASE call' = [call EXCEPT ![c].events = events] /\ UNCHANGED <<loaded, outcome>>
    <2>. DEFINE locals == [call[c] EXCEPT !.events = events]
    <2>1. /\ locals \in Call /\ locals.events = events /\ locals.since = call[c].since
          /\ locals.expected = call[c].expected
      <3>1. call[c] \in Call
        BY TypeFacts
      <3>. QED
        BY <1>2, <3>1 DEF Call
    <2>2. call' = [call EXCEPT ![c] = locals]
      BY <1>7 DEF TypeOK
    <2>. HIDE DEF locals
    <2>3. call' \in [Client -> Call] /\ call'[c] = locals /\ \A d \in Client \ {c} : call'[d] = call[d]
      BY <2>1, <2>2 DEF TypeOK
    <2>4. TypeOK'
      BY <1>1, <1>7, <2>3 DEF TypeOK
    <2>5. LoadedInv'
      BY <1>1, <1>7 DEF StreamInv, LoadedInv
    <2>6. ReadInv'
      BY <1>1, <1>2, <1>4, <2>1, <2>3 DEF StreamInv, ReadInv, count
    <2>7. ExpectedInv'
      <3>1. ASSUME NEW d \in Client PROVE call'[d].expected <= stream[AggregateOf[d]]
        BY <2>1, <2>3 DEF StreamInv, ExpectedInv
      <3>. QED
        BY <1>1, <3>1 DEF StreamInv, ExpectedInv
    <2>. QED
      BY <1>1, <2>4, <2>5, <2>6, <2>7, LogKept DEF StreamInv
  <1>. QED
    BY <1>3, <1>6, <1>7

(* StreamInv is inductive, and every step is one of the event log or leaves it alone. *)
LEMMA NextStream == StreamInv /\ [Next]_vars => StreamInv' /\ [Contract!Next]_log
  <1>1. SUFFICES ASSUME StreamInv, [Next]_vars PROVE StreamInv' /\ [Contract!Next]_log
    OBVIOUS
  <1>2. ASSUME NEW c \in Client, Appended(c) PROVE StreamInv' /\ [Contract!Next]_log
    BY <1>1, <1>2, AppendedStream
  <1>3. ASSUME NEW w \in inflight, AppendedLate(w) PROVE StreamInv' /\ [Contract!Next]_log
    BY <1>1, <1>3, AppendedLateStream
  <1>4. ASSUME NEW c \in Client, StartPublish(c) PROVE StreamInv' /\ [Contract!Next]_log
    BY <1>1, <1>4, StartPublishStream DEF StartPublish
  <1>5. ASSUME NEW c \in Client, AppendIsRefused(c) \/ RequestFails(c)
        PROVE  StreamInv' /\ [Contract!Next]_log
    BY <1>1, <1>5, FailedStream DEF AppendIsRefused, RequestFails
  <1>6. ASSUME NEW c \in Client, GiveUp(c) PROVE StreamInv' /\ [Contract!Next]_log
    BY <1>1, <1>6, GiveUpStream DEF GiveUp
  <1>7. ASSUME NEW c \in Client, StartLoad(c) PROVE StreamInv' /\ [Contract!Next]_log
    BY <1>1, <1>7, StartLoadStream DEF StartLoad
  <1>8. ASSUME NEW c \in Client, ReadPage(c) PROVE StreamInv' /\ [Contract!Next]_log
    BY <1>1, <1>8, ReadPageStream DEF ReadPage
  <1>9. CASE UNCHANGED vars
    BY <1>1, <1>9 DEF vars, StreamInv, TypeOK, LoadedInv, ReadInv, ExpectedInv, LogInv
  <1>. QED
    BY <1>1, <1>2, <1>3, <1>4, <1>5, <1>6, <1>7, <1>8, <1>9 DEF Next

(* StreamInv holds in every reachable state. *)
LEMMA StreamInvariant == Spec => []StreamInv
  BY InitStream, NextStream, PTL DEF Spec

-----------------------------------------------------------------------------
(* StreamInv says that loads are snapshots and that no update is lost. *)
LEMMA StreamInvSuffices == StreamInv => LoadIsASnapshot /\ NoLostUpdate
  <1>1. SUFFICES ASSUME StreamInv PROVE LoadIsASnapshot /\ NoLostUpdate
    OBVIOUS
  <1>. TypeOK
    BY <1>1 DEF StreamInv
  <1>2. LoadIsASnapshot
    <2>. SUFFICES ASSUME NEW c \in Client
                  PROVE  /\ \A i \in 1 .. Len(loaded[c].events) : loaded[c].events[i] = i - 1
                         /\ Len(loaded[c].events) \in loaded[c].since .. stream[AggregateOf[c]]
      BY DEF LoadIsASnapshot
    <2>1. /\ loaded[c].events = UpTo(Len(loaded[c].events)) /\ loaded[c].since <= Len(loaded[c].events)
          /\ Len(loaded[c].events) <= stream[AggregateOf[c]]
      BY <1>1 DEF StreamInv, LoadedInv, Faithful, IsBeginning
    <2>2. Len(loaded[c].events) \in Nat /\ stream[AggregateOf[c]] \in Nat /\ loaded[c].since \in Nat
      BY TypeFacts
    <2>3. \A i \in 1 .. Len(loaded[c].events) : loaded[c].events[i] = i - 1
      BY <2>1, <2>2 DEF UpTo
    <2>. QED
      BY <2>1, <2>2, <2>3
  <1>3. NoLostUpdate
    <2>. SUFFICES ASSUME NEW w \in Sent, PassesOnRevision(w), AppendIsExpected(w)
                  PROVE  IsCurrent(w.basis, w.aggregate)
      BY DEF NoLostUpdate
    <2>1. w \in AppendRequest /\ Faithful(w.basis, stream[w.aggregate])
      <3>1. CASE w \in inflight
        BY <1>1, <3>1, TypeFacts DEF StreamInv, ExpectedInv
      <3>2. CASE w \notin inflight
        <4>1. PICK c \in Client : w = AppendOf(c)
          BY <3>2 DEF Sent
        <4>. QED
          BY <1>1, <4>1, AppendOfType
      <3>. QED
        BY <3>1, <3>2
    <2>2. /\ w.expected = Len(w.basis.events) /\ Len(w.basis.events) \in Nat
          /\ Len(w.basis.events) <= stream[w.aggregate]
      BY <2>1, RequestFacts DEF PassesOnRevision, Faithful, IsBeginning
    <2>3. stream[w.aggregate] \in Nat
      BY <2>1, RequestFacts, TypeFacts
    <2>4. StreamRevision(w.expected) \in {AnyRevision, stream[w.aggregate] - 1}
      BY DEF AppendIsExpected
    <2>5. w.expected = stream[w.aggregate]
      BY <2>2, <2>3, <2>4, AcceptedIsCurrent
    <2>. QED
      BY <2>2, <2>5 DEF IsCurrent
  <1>. QED
    BY <1>2, <1>3

(* Load returns every event, once and in order, up to a moment between its *)
(* beginning and its end, for all pages and however the stream grows while *)
(* it is read.                                                             *)
THEOREM LoadsAreSnapshots == Spec => []LoadIsASnapshot
  BY StreamInvariant, StreamInvSuffices, PTL

(* A publisher that passes on the revision it loaded and is not refused    *)
(* changes the aggregate it loaded, although the server is asked about     *)
(* another number from the tenth event on.                                 *)
THEOREM NoUpdateIsLost == Spec => []NoLostUpdate
  BY StreamInvariant, StreamInvSuffices, PTL

(* The initial states of the store are initial states of the event log. *)
LEMMA InitContract == Init => Contract!Init
  BY DEF Init, Contract!Init

(* The store implements the event log: appends, late ones too, add whole   *)
(* change sets with new revisions after the revision their publisher       *)
(* expected.                                                               *)
THEOREM ImplementsTheEventLog == Spec => ImplementsEventLog
  <1>1. Spec => Contract!Init /\ [][Contract!Next]_log
    BY InitContract, StreamInvariant, NextStream, PTL DEF Spec
  <1>. QED
    BY <1>1 DEF ImplementsEventLog, Contract!Spec

-----------------------------------------------------------------------------
(***************************************************************************)
(* Up to the ninth event of a stream the two bases agree.                  *)
(***************************************************************************)
(* IsDecimal satisfies its recursion equation. *)
LEMMA IsDecimalDef == \A n \in Nat : IsDecimal[n] = (n % 16 < 10 /\ (n < 16 \/ IsDecimal[n \div 16]))
  <1>. DEFINE Next1(g) == [n \in Nat |-> n % 16 < 10 /\ (n < 16 \/ g[n \div 16])]
              F == [g \in [Nat -> BOOLEAN] |-> Next1(g)]
  <1>1. \A n \in Nat : n \div 16 \in Nat /\ (n >= 16 => n \div 16 < n)
    OBVIOUS
  <1>2. F \in [[Nat -> BOOLEAN] -> [Nat -> BOOLEAN]]
    OBVIOUS
  <1>3. Recursive(F, BOOLEAN)
    BY <1>1 DEF Recursive
  <1>4. \E f \in [Nat -> BOOLEAN] : f = F[f]
    <2>. HIDE DEF F
    <2>. QED
      BY <1>2, <1>3, RecursiveFunction
  <1>5. \E f : f = Next1(f)
    BY <1>4
  <1>6. IsDecimal = CHOOSE f : f = Next1(f)
    BY DEF IsDecimal
  <1>7. IsDecimal = Next1(IsDecimal)
    <2>. HIDE DEF Next1
    <2>. QED
      BY <1>5, <1>6
  <1>. QED
    BY <1>7

(* A digit is read as what it was written for. *)
LEMMA DigitIsAccepted ==
  ASSUME NEW n \in Nat, n < 10
  PROVE  Readable(n) /\ StreamRevision(n) = n - 1
  <1>1. IsDecimal[n] = (n % 16 < 10 /\ (n < 16 \/ IsDecimal[n \div 16]))
    BY IsDecimalDef
  <1>2. n % 16 < 10 /\ n < 16
    OBVIOUS
  <1>3. IsDecimal[n]
    BY <1>1, <1>2
  <1>4. DecimalReading[n] = n
    BY DecimalReadingDef
  <1>. QED
    BY <1>3, <1>4 DEF Readable, StreamRevision, NoRevision, InitialRevision, NoStream

(* The loaded revision of an unchanged aggregate is accepted as long as it *)
(* has fewer than ten events; esdb_tenth_revision shows it is not after.   *)
THEOREM NineRevisionsAreAccepted ==
  ASSUME MaxEvents < 10
  PROVE  Spec => []LoadedRevisionIsAccepted
  <1>1. StreamInv => LoadedRevisionIsAccepted
    <2>. SUFFICES ASSUME StreamInv, NEW c \in Client, loaded[c] # NotLoaded,
                         IsCurrent(loaded[c], AggregateOf[c])
                  PROVE  /\ Readable(loaded[c].revision)
                         /\ StreamRevision(loaded[c].revision) = stream[AggregateOf[c]] - 1
      BY DEF LoadedRevisionIsAccepted
    <2>1. stream[AggregateOf[c]] \in 0 .. MaxEvents
      BY DEF StreamInv, TypeOK
    <2>2. loaded[c].revision = stream[AggregateOf[c]]
      <3>1. loaded[c].revision = NoRevision \/ loaded[c].revision = stream[AggregateOf[c]]
        BY DEF StreamInv, LoadedInv, Faithful, IsCurrent
      <3>2. loaded[c].revision # NoRevision
        BY DEF StreamInv, LoadedInv
      <3>. QED
        BY <3>1, <3>2
    <2>. QED
      BY <2>1, <2>2, DigitIsAccepted
  <1>. QED
    BY <1>1, StreamInvariant, PTL
=============================================================================
