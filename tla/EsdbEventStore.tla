---------------------------- MODULE EsdbEventStore ----------------------------
(***************************************************************************)
(* stores/esbs: the event store on EventStoreDB.                           *)
(*                                                                         *)
(* An aggregate is a stream, numbered from 0 without gaps, that the server *)
(* appends to atomically under an expected revision.  The store counts     *)
(* revisions from 1, writes them in hexadecimal ("%026x") and reads an     *)
(* ExpectedRevision back as a decimal number (strconv.ParseUint base 10).  *)
(* It keeps no state of its own: a client is a goroutine that calls it.    *)
(***************************************************************************)
EXTENDS Integers, Sequences

CONSTANTS
  Aggregate,    \* aggregate ids, the streams
  Client,       \* goroutines that call the store
  AggregateOf,  \* AggregateOf[c]: the aggregate client c works on
  UsesOf,       \* UsesOf[c]: the calls client c makes, see Uses
  Batches,      \* how many events a caller may publish at once
  PageSize,     \* events in a page of Load (defaultPageSize is 97)
  Impatient,    \* clients whose context may end while their append is on its way
  MaxEvents     \* bound: the events of a stream

Policies == {"any", "initial", "loaded"}
Uses == Policies \cup {"load"}

ASSUME StreamAssumption ==
  /\ AggregateOf \in [Client -> Aggregate]
  /\ UsesOf \in [Client -> SUBSET Uses]
  /\ Batches \subseteq Nat
  /\ PageSize \in Nat \ {0}      \* the option PageSize sees to that
  /\ Impatient \subseteq Client
  /\ MaxEvents \in Nat

VARIABLES
  stream,    \* stream[a]: how many events stream a has; the last is number stream[a] - 1
  inflight,  \* appends on their way that their client no longer waits for
  call,      \* call[c]: the call client c is making and its local variables
  loaded,    \* loaded[c]: the event numbers of c's last Load, and its revision
  outcome,   \* outcome[c]: how c's last Publish ended
  log        \* history: log[a], the change sets of a in the order of the appends

vars == <<stream, inflight, call, loaded, outcome, log>>

-----------------------------------------------------------------------------
(***************************************************************************)
(* Revisions: number n stands for the string Sprintf("%026x", n).          *)
(***************************************************************************)
NoRevision == -1
InitialRevision == 0
Revision == 1 .. MaxEvents

(* The revision of the event with this number. *)
RevisionOfEvent(number) == number + 1

(* Can ParseUint(_, 10, 64) read the hexadecimal digits of n, and as what? *)
IsDecimal[n \in Nat] == n % 16 < 10 /\ (n < 16 \/ IsDecimal[n \div 16])

DecimalReading[n \in Nat] ==
  IF n < 16 THEN n ELSE 10 * DecimalReading[n \div 16] + (n % 16)

(* The revision of the stream that AppendToStream checks. *)
AnyRevision == -2
NoStream == -1

(* Mutation of StreamRevision: only the initial revision is passed on. *)
OnlyNoStream(expected) == IF expected = InitialRevision THEN NoStream ELSE AnyRevision

StreamRevision(expected) ==
  IF expected = NoRevision THEN AnyRevision
  ELSE IF expected = InitialRevision THEN NoStream ELSE DecimalReading[expected] - 1

-----------------------------------------------------------------------------
Idle == [step |-> "idle", expected |-> NoRevision, count |-> 0, events |-> <<>>, since |-> 0]

NotLoaded == [revision |-> NoRevision, events |-> <<>>, since |-> 0]

At(c, step) == call[c].step = step

Begin(c, locals) ==
  /\ At(c, "idle")
  /\ call' = [call EXCEPT ![c] = locals]
  /\ outcome' = [outcome EXCEPT ![c] = "none"]

Return(c, result) ==
  /\ call' = [call EXCEPT ![c] = Idle]
  /\ outcome' = [outcome EXCEPT ![c] = result]

-----------------------------------------------------------------------------
(***************************************************************************)
(* Publish.                                                                *)
(***************************************************************************)
ExpectedBy(c) ==
  [any |-> NoRevision, initial |-> InitialRevision, loaded |-> loaded[c].revision]

Readable(expected) == expected \in Nat => IsDecimal[expected]

StartPublish(c) ==
  \E policy \in UsesOf[c] \cap Policies, n \in Batches :
    /\ policy = "loaded" => loaded[c] # NotLoaded
    /\ LET expected == ExpectedBy(c)[policy] IN
       IF Readable(expected)
       THEN Begin(c, [Idle EXCEPT !.step = "append", !.expected = expected, !.count = n])
       ELSE /\ At(c, "idle")     \* "invalid expected revision"
            /\ outcome' = [outcome EXCEPT ![c] = "error"]
            /\ UNCHANGED call
    /\ UNCHANGED <<stream, inflight, loaded, log>>

(* The append c sends, and, as history, the load it is based on. *)
AppendOf(c) ==
  [client |-> c, aggregate |-> AggregateOf[c], expected |-> call[c].expected,
   count |-> call[c].count,
   basis |-> [revision |-> loaded[c].revision, events |-> loaded[c].events]]

(* The server's check, at the event number the stream is at. *)
AppendIsExpected(w) == StreamRevision(w.expected) \in {AnyRevision, stream[w.aggregate] - 1}

(* The events are appended, at once. *)
DoAppend(w) ==
  LET end == stream[w.aggregate] + w.count IN
  /\ AppendIsExpected(w)
  /\ end <= MaxEvents
  /\ stream' = [stream EXCEPT ![w.aggregate] = end]
  /\ log' = IF w.count = 0 THEN log
            ELSE [log EXCEPT ![w.aggregate] =
                    Append(@, [revision |-> RevisionOfEvent(end - 1), expected |-> w.expected])]

(* The reply may be lost. *)
Appended(c) ==
  /\ At(c, "append")
  /\ DoAppend(AppendOf(c))
  /\ \E result \in {"published", "error"} : Return(c, result)
  /\ UNCHANGED <<inflight, loaded>>

(* ErrWrongExpectedStreamRevision becomes RevisionConflict. *)
AppendIsRefused(c) ==
  /\ At(c, "append")
  /\ ~AppendIsExpected(AppendOf(c))
  /\ Return(c, "conflict")
  /\ UNCHANGED <<stream, inflight, loaded, log>>

(***************************************************************************)
(* The context of the call ends while the append is on its way: it may     *)
(* still be executed, at any time.  Bound: one such append of each client. *)
(***************************************************************************)
GiveUp(c) ==
  /\ c \in Impatient
  /\ At(c, "append")
  /\ \A w \in inflight : w.client # c
  /\ inflight' = inflight \cup {AppendOf(c)}
  /\ Return(c, "error")
  /\ UNCHANGED <<stream, loaded, log>>

AppendedLate(w) ==
  /\ w \in inflight
  /\ DoAppend(w)
  /\ inflight' = inflight \ {w}
  /\ UNCHANGED <<call, loaded, outcome>>

-----------------------------------------------------------------------------
(***************************************************************************)
(* Load: pages are read from the event after the last of the previous one, *)
(* until one is not full.  A stream that is not found is an empty page.    *)
(***************************************************************************)
StartLoad(c) ==
  /\ "load" \in UsesOf[c]
  /\ Begin(c, [Idle EXCEPT !.step = "read", !.since = stream[AggregateOf[c]]])
  /\ UNCHANGED <<stream, inflight, loaded, log>>

(* Mutation of From: the next page starts with the last event read. *)
FromLast(events) == IF events = <<>> THEN 0 ELSE events[Len(events)]

From(events) == IF events = <<>> THEN 0 ELSE events[Len(events)] + 1

(* At most PageSize events of a stream with this many, in order. *)
Page(from, count) ==
  LET length == IF count < from THEN 0 ELSE IF count - from < PageSize THEN count - from ELSE PageSize
  IN  [i \in 1 .. length |-> from + i - 1]

ReadPage(c) ==
  LET page == Page(From(call[c].events), stream[AggregateOf[c]])
      events == call[c].events \o page
      revision == IF events = <<>> THEN InitialRevision ELSE RevisionOfEvent(events[Len(events)]) IN
  /\ At(c, "read")
  /\ IF Len(page) < PageSize
     THEN /\ loaded' = [loaded EXCEPT ![c] =
                          [revision |-> revision, events |-> events, since |-> call[c].since]]
          /\ Return(c, "none")
     ELSE /\ call' = [call EXCEPT ![c].events = events]
          /\ UNCHANGED <<loaded, outcome>>
  /\ UNCHANGED <<stream, inflight, log>>

(* A request fails without effect. *)
RequestFails(c) ==
  /\ call[c].step \in {"append", "read"}
  /\ Return(c, "error")
  /\ UNCHANGED <<stream, inflight, loaded, log>>

-----------------------------------------------------------------------------
Init ==
  /\ stream = [a \in Aggregate |-> 0]
  /\ inflight = {}
  /\ call = [c \in Client |-> Idle]
  /\ loaded = [c \in Client |-> NotLoaded]
  /\ outcome = [c \in Client |-> "none"]
  /\ log = [a \in Aggregate |-> <<>>]

Next ==
  \/ \E c \in Client :
       \/ StartPublish(c) \/ Appended(c) \/ AppendIsRefused(c) \/ GiveUp(c)
       \/ StartLoad(c) \/ ReadPage(c) \/ RequestFails(c)
  \/ \E w \in inflight : AppendedLate(w)

Spec == Init /\ [][Next]_vars

-----------------------------------------------------------------------------
(***************************************************************************)
(* Properties.                                                             *)
(***************************************************************************)
(* The appends the server may execute next. *)
Sent == inflight \cup { AppendOf(c) : c \in { c \in Client : At(c, "append") } }

PassesOnRevision(w) == w.expected # NoRevision /\ w.expected = w.basis.revision

IsCurrent(load, a) == Len(load.events) = stream[a]

(***************************************************************************)
(* A publisher that passes on the revision it loaded and is not refused    *)
(* changes the aggregate it loaded.  The revision is read back in another  *)
(* base than it was written in, so what the server checks is not what was  *)
(* loaded: it must never be a revision the stream reached in the meantime, *)
(* or reaches before an append arrives late.                               *)
(***************************************************************************)
NoLostUpdate ==
  \A w \in Sent : PassesOnRevision(w) /\ AppendIsExpected(w) => IsCurrent(w.basis, w.aggregate)

(***************************************************************************)
(* The revision of an aggregate that nobody changed since it was loaded is *)
(* accepted, as PublishesWithAnExpectedRevision of the suite asserts.      *)
(***************************************************************************)
LoadedRevisionIsAccepted ==
  \A c \in Client : loaded[c] # NotLoaded /\ IsCurrent(loaded[c], AggregateOf[c]) =>
    /\ Readable(loaded[c].revision)
    /\ StreamRevision(loaded[c].revision) = stream[AggregateOf[c]] - 1

(***************************************************************************)
(* Load returns every event, once and in order, up to a moment between its *)
(* beginning and its end, when other clients append between its pages too. *)
(***************************************************************************)
LoadIsASnapshot ==
  \A c \in Client : loaded[c] # NotLoaded =>
    /\ \A i \in 1 .. Len(loaded[c].events) : loaded[c].events[i] = i - 1
    /\ Len(loaded[c].events) \in loaded[c].since .. stream[AggregateOf[c]]

(* The store implements the event log. *)
Contract == INSTANCE EventLog WITH Removable <- FALSE

ImplementsEventLog == Contract!Spec
=============================================================================
