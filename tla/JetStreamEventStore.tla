-------------------------- MODULE JetStreamEventStore --------------------------
(***************************************************************************)
(* stores/jetstream: the event store on a NATS JetStream stream.           *)
(*                                                                         *)
(* All aggregates share one stream; an aggregate is a subject, a change    *)
(* set is one message, and the server numbers the messages.  The revision  *)
(* of an event is the number of its message and its index in the change    *)
(* set.  Publish makes the server compare the number of the last message   *)
(* of the subject; Load asks for that number and then consumes the subject *)
(* from its first message until it meets it.                               *)
(***************************************************************************)
EXTENDS Integers, FiniteSets, FiniteSetsExt, SequencesExt

CONSTANTS
  Aggregate,    \* aggregate ids, the subjects
  Client,       \* goroutines that call the store
  AggregateOf,  \* AggregateOf[c]: the aggregate client c works on
  UsesOf,       \* UsesOf[c]: the calls client c makes, see Uses
  Batches,      \* how many events a caller may publish at once
  IndexWidth,   \* the indices of a change set (2^16): the next one is 0 again
  Impatient,    \* clients whose context may end while their message is on its way
  MaxMessages   \* bound: the messages of the stream

Policies == {"any", "initial", "loaded"}
Uses == Policies \cup {"load"}

ASSUME StreamAssumption ==
  /\ AggregateOf \in [Client -> Aggregate]
  /\ UsesOf \in [Client -> SUBSET Uses]
  /\ IndexWidth \in Nat \ {0}
  /\ Batches \subseteq Nat
  /\ Impatient \subseteq Client
  /\ MaxMessages \in Nat

VARIABLES
  stream,    \* the messages: stream[n] is [subject, count], a change set of count events
  inflight,  \* messages on their way that their client no longer waits for
  call,      \* call[c]: the call client c is making and its local variables
  loaded,    \* loaded[c]: what c's last Load returned
  outcome,   \* outcome[c]: how c's last Publish ended
  log        \* history: log[a], the change sets of a in the order of their messages

vars == <<stream, inflight, call, loaded, outcome, log>>

-----------------------------------------------------------------------------
NoRevision == -1
InitialRevision == 0
Revision == IndexWidth .. (MaxMessages + 1) * IndexWidth - 1

(* internal/revision_encoder.go, but for the server's time in front; the   *)
(* index is a uint16.                                                      *)
EncodeRevision(sequence, index) == sequence * IndexWidth + (index % IndexWidth)

DecodeSequenceNumber(revision) == revision \div IndexWidth

(* The numbers of the messages of a subject, and the last of them or 0. *)
MessagesOf(a) == { n \in 1 .. Len(stream) : stream[n].subject = a }

LastOf(a) == Max({0} \cup MessagesOf(a))

-----------------------------------------------------------------------------
Idle ==
  [step |-> "idle", expected |-> NoRevision, count |-> 0, latest |-> 0, next |-> 0, events |-> <<>>]

NotLoaded == [revision |-> NoRevision, events |-> <<>>, since |-> 0]

At(c, step) == call[c].step = step

Begin(c, locals) ==
  /\ At(c, "idle")
  /\ call' = [call EXCEPT ![c] = locals]
  /\ outcome' = [outcome EXCEPT ![c] = "none"]
  /\ UNCHANGED <<stream, inflight, loaded, log>>

Return(c, result) ==
  /\ call' = [call EXCEPT ![c] = Idle]
  /\ outcome' = [outcome EXCEPT ![c] = result]

-----------------------------------------------------------------------------
(***************************************************************************)
(* Publish: one message, whatever the number of events.                    *)
(***************************************************************************)
ExpectedBy(c) ==
  [any |-> NoRevision, initial |-> InitialRevision, loaded |-> loaded[c].revision]

(* The bound leaves room for the messages on their way. *)
Sending == { c \in Client : At(c, "send") }

StartPublish(c) ==
  \E policy \in UsesOf[c] \cap Policies, n \in Batches :
    /\ Len(stream) + Cardinality(Sending) + Cardinality(inflight) < MaxMessages
    /\ policy = "loaded" => loaded[c] # NotLoaded
    /\ Begin(c, [Idle EXCEPT !.step = "send", !.expected = ExpectedBy(c)[policy], !.count = n])

(* The message c sends, and, as history, the load it is based on. *)
MessageOf(c) ==
  [client |-> c, subject |-> AggregateOf[c], expected |-> call[c].expected,
   count |-> call[c].count, basis |-> loaded[c]]

(* Mutations of IsExpected: the initial revision is not passed on; the     *)
(* last message of the stream is compared, ExpectLastSequence.             *)
IsExpectedUnlessInitial(m) ==
  m.expected \in {NoRevision, InitialRevision}
    \/ LastOf(m.subject) = DecodeSequenceNumber(m.expected)

IsExpectedOfStream(m) ==
  m.expected = NoRevision \/ Len(stream) = DecodeSequenceNumber(m.expected)

(* ExpectLastSequencePerSubject; 0 is a subject without messages. *)
IsExpected(m) ==
  m.expected = NoRevision \/ LastOf(m.subject) = DecodeSequenceNumber(m.expected)

(* The server stores the message under the next number. *)
Store(m) ==
  LET revision == EncodeRevision(Len(stream) + 1, m.count - 1) IN
  /\ IsExpected(m)
  /\ stream' = Append(stream, [subject |-> m.subject, count |-> m.count])
  /\ log' = IF m.count = 0 THEN log
            ELSE [log EXCEPT ![m.subject] =
                    Append(@, [revision |-> revision, expected |-> m.expected])]

(* Its acknowledgement may be lost. *)
Stored(c) ==
  /\ At(c, "send")
  /\ Store(MessageOf(c))
  /\ \E result \in {"published", "error"} : Return(c, result)
  /\ UNCHANGED <<inflight, loaded>>

(* JSErrCodeStreamWrongLastSequence becomes RevisionConflict. *)
Refused(c) ==
  /\ At(c, "send")
  /\ ~IsExpected(MessageOf(c))
  /\ Return(c, "conflict")
  /\ UNCHANGED <<stream, inflight, loaded, log>>

(***************************************************************************)
(* The context of the call ends while the message is on its way: it may    *)
(* still be stored, at any time.  Bound: one such message of each client.  *)
(***************************************************************************)
GiveUp(c) ==
  /\ c \in Impatient
  /\ At(c, "send")
  /\ \A m \in inflight : m.client # c
  /\ inflight' = inflight \cup {MessageOf(c)}
  /\ Return(c, "error")
  /\ UNCHANGED <<stream, loaded, log>>

StoredLate(m) ==
  /\ m \in inflight
  /\ Store(m)
  /\ inflight' = inflight \ {m}
  /\ UNCHANGED <<call, loaded, outcome>>

-----------------------------------------------------------------------------
(***************************************************************************)
(* Load.                                                                   *)
(***************************************************************************)
StartLoad(c) ==
  /\ "load" \in UsesOf[c]
  /\ Begin(c, [Idle EXCEPT !.step = "latest"])

ReturnLoaded(c, events, latest) ==
  /\ loaded' = [loaded EXCEPT ![c] =
       [revision |-> IF events = <<>> THEN InitialRevision ELSE events[Len(events)],
        events |-> events, since |-> latest]]
  /\ Return(c, "none")

(* latest asks for the last message of the subject; read then subscribes. *)
AskLatest(c) ==
  LET latest == LastOf(AggregateOf[c]) IN
  /\ At(c, "latest")
  /\ \/ /\ latest = 0
        /\ ReturnLoaded(c, <<>>, 0)
     \/ /\ latest # 0
        /\ call' = [call EXCEPT ![c].step = "consume", ![c].latest = latest]
        /\ UNCHANGED <<loaded, outcome>>
  /\ UNCHANGED <<stream, inflight, log>>

(* decodeChangeSet: the events of a message, told by their revisions. *)
EventsOf(sequence) ==
  [i \in 1 .. stream[sequence].count |-> EncodeRevision(sequence, i - 1)]

(* Mutations of IsLatest: the message after the latest is waited for; the  *)
(* one before it is taken for it.                                          *)
IsAfterLatest(c, sequence) == sequence > call[c].latest

IsLatestOrBefore(c, sequence) == sequence >= call[c].latest - 1

IsLatest(c, sequence) == sequence >= call[c].latest

(* The ordered consumer delivers the next message of the subject. *)
NextMsg(c) ==
  /\ At(c, "consume")
  /\ \E sequence \in MessagesOf(AggregateOf[c]) :
       /\ sequence > call[c].next
       /\ \A n \in MessagesOf(AggregateOf[c]) : n > call[c].next => n >= sequence
       /\ LET events == call[c].events \o EventsOf(sequence) IN
          \/ /\ IsLatest(c, sequence)
             /\ ReturnLoaded(c, events, call[c].latest)
          \/ /\ ~IsLatest(c, sequence)
             /\ call' = [call EXCEPT ![c].next = sequence, ![c].events = events]
             /\ UNCHANGED <<loaded, outcome>>
  /\ UNCHANGED <<stream, inflight, log>>

(* A request fails without effect, or the context is done. *)
RequestFails(c) ==
  /\ ~At(c, "idle")
  /\ Return(c, "error")
  /\ UNCHANGED <<stream, inflight, loaded, log>>

-----------------------------------------------------------------------------
Init ==
  /\ stream = <<>>
  /\ inflight = {}
  /\ call = [c \in Client |-> Idle]
  /\ loaded = [c \in Client |-> NotLoaded]
  /\ outcome = [c \in Client |-> "none"]
  /\ log = [a \in Aggregate |-> <<>>]

(* The steps of a call as far as the server answers. *)
Step(c) == Stored(c) \/ Refused(c) \/ AskLatest(c) \/ NextMsg(c)

Next ==
  \/ \E c \in Client : StartPublish(c) \/ StartLoad(c) \/ Step(c) \/ RequestFails(c) \/ GiveUp(c)
  \/ \E m \in inflight : StoredLate(m)

Spec == Init /\ [][Next]_vars

FairSpec == Spec /\ \A c \in Client : WF_vars(Step(c))

-----------------------------------------------------------------------------
(***************************************************************************)
(* Properties.                                                             *)
(***************************************************************************)
(* The events of the first messages of an aggregate, up to number n. *)
EventsUpTo(a, n) ==
  FlattenSeq([i \in 1 .. n |-> IF stream[i].subject = a THEN EventsOf(i) ELSE <<>>])

(***************************************************************************)
(* Load returns every event of the aggregate, once and in order, up to a   *)
(* moment between its beginning and its end, whatever other clients store  *)
(* on this subject and on others while it consumes.                        *)
(***************************************************************************)
LoadIsASnapshot ==
  \A c \in Client : loaded[c] # NotLoaded =>
    \E n \in loaded[c].since .. Len(stream) : loaded[c].events = EventsUpTo(AggregateOf[c], n)

(* The messages the server may store next. *)
Sent == inflight \cup { MessageOf(c) : c \in Sending }

PassesOnRevision(m) == m.expected # NoRevision /\ m.expected = m.basis.revision

LoadIsCurrent(m) == m.basis.events = EventsUpTo(m.subject, Len(stream))

(***************************************************************************)
(* A publisher that passes on the revision it loaded and is not refused    *)
(* changes the aggregate it loaded, however late its message arrives,      *)
(* though only the number of the message is compared, empty change sets    *)
(* leave the revision where it was and events may share a revision.        *)
(***************************************************************************)
NoLostUpdate == \A m \in Sent : PassesOnRevision(m) /\ IsExpected(m) => LoadIsCurrent(m)

(***************************************************************************)
(* The revision of an aggregate that nobody changed since it was loaded is *)
(* accepted, as PublishesWithAnExpectedRevision of the suite asserts.      *)
(***************************************************************************)
NoNeedlessConflict == \A m \in Sent : PassesOnRevision(m) /\ LoadIsCurrent(m) => IsExpected(m)

(***************************************************************************)
(* It is refused only after an empty change set, whatever is published on  *)
(* other subjects of the stream.                                           *)
(***************************************************************************)
EndsEmpty(a) == MessagesOf(a) # {} /\ stream[LastOf(a)].count = 0

OnlyEmptyChangeSetsConflict ==
  \A m \in Sent :
    PassesOnRevision(m) /\ LoadIsCurrent(m) /\ ~EndsEmpty(m.subject) => IsExpected(m)

(* The store implements the event log. *)
Contract == INSTANCE EventLog WITH Removable <- FALSE

ImplementsEventLog == Contract!Spec

(***************************************************************************)
(* Every call returns: Load meets the latest message it asked for, also    *)
(* when others keep publishing.                                            *)
(***************************************************************************)
CallsReturn == \A c \in Client : ~At(c, "idle") ~> At(c, "idle")
=============================================================================
