----------------------------- MODULE ServiceOnLog -----------------------------
(***************************************************************************)
(* The entity service on a store that does what EventLog promises: a       *)
(* publish appends a change set, or is refused when the revision it        *)
(* expects is not that of the aggregate; a load returns the events of the  *)
(* first change sets of the log.  The revision of an entity is the number  *)
(* of change sets it was rendered from.                                    *)
(***************************************************************************)
EXTENDS EntityService

CONSTANT StaleReads   \* TRUE: loads are eventually consistent, as on DynamoDB

ASSUME StalenessAssumption == StaleReads \in BOOLEAN

VARIABLE history   \* history[a]: the change sets of a, in the order they were recorded

vars == <<request, reply, sent, history>>

-----------------------------------------------------------------------------
(* The change sets a load sees: the first ones of the log, or all. *)
Versions(a) == (IF StaleReads THEN 0 ELSE Len(history[a])) .. Len(history[a])

(* The events in the first change sets of a. *)
EventsUpTo(a, version) == FlattenSeq([i \in 1 .. version |-> history[a][i].events])

Get(c) == SendGet(c, Len(history[AggregateOf[c]])) /\ UNCHANGED history

Post(c) == SendPost(c, Len(history[AggregateOf[c]])) /\ UNCHANGED history

BadRequest(c) == SendGarbage(c) /\ UNCHANGED history

Load(c) ==
  /\ Loading(c)
  /\ \E version \in Versions(AggregateOf[c]) :
       LoadReturns(c, version, EventsUpTo(AggregateOf[c], version))
  /\ UNCHANGED <<sent, history>>

(* A change set as it is recorded; by and request are history. *)
Recorded(c, publication) == [by |-> c, request |-> sent[c], events |-> publication.events]

(* A guarded publication expects the revision of the entity. *)
IsExpected(c, publication) ==
  publication.guarded => request[c].entity.revision = Len(history[publication.aggregate])

(* The store records the events, if there are any.  Its reply may be lost. *)
Publish(c) ==
  /\ Publishing(c)
  /\ IsExpected(c, Publication(c))
  /\ history' = IF Publication(c).events = <<>> THEN history
                 ELSE [history EXCEPT ![Publication(c).aggregate] =
                         Append(@, Recorded(c, Publication(c)))]
  /\ PublishReturns(c) \/ PublishFails(c)
  /\ UNCHANGED sent

(* A call of the store fails without effect, a conflict included. *)
StoreFails(c) ==
  /\ \/ Loading(c) /\ LoadFails(c)
     \/ Publishing(c) /\ PublishFails(c)
  /\ UNCHANGED <<sent, history>>

ProcessStops ==
  /\ \E users \in SUBSET Client : Stop(users)
  /\ UNCHANGED <<sent, history>>

-----------------------------------------------------------------------------
Init ==
  /\ InitService
  /\ history = [a \in Aggregate |-> <<>>]

Next ==
  \/ \E c \in Client :
       Get(c) \/ Post(c) \/ BadRequest(c) \/ Load(c) \/ Publish(c) \/ StoreFails(c)
  \/ ProcessStops

Spec == Init /\ [][Next]_vars

-----------------------------------------------------------------------------
(***************************************************************************)
(* Properties.                                                             *)
(***************************************************************************)
(* The positions in log a of what was recorded for request n of c. *)
RecordedFor(c, n, a) ==
  { i \in DOMAIN history[a] : history[a][i].by = c /\ history[a][i].request = n }

Answered(c) == At(c, "idle") /\ reply[c].status # "none"

Succeeded(c) == Answered(c) /\ reply[c].status \in {"ok", "not found"}

(***************************************************************************)
(* The reply to a command that succeeded shows all that the command        *)
(* recorded on the entity and everything recorded before the request,      *)
(* whatever other users do in between; a query, or a command that          *)
(* published nothing and is answered from the first load, shows what was   *)
(* recorded before it.  The counter's tests expect that                    *)
(* (samples/counter/server/service_test.go, incrementsCounter).            *)
(***************************************************************************)
RepliesAreCurrent ==
  \A c \in Client : Succeeded(c) =>
    /\ reply[c].entity.revision >= reply[c].since
    /\ \A i \in RecordedFor(c, sent[c], AggregateOf[c]) : i <= reply[c].entity.revision

(***************************************************************************)
(* A reply shows every command at most once: its state is that after the   *)
(* change sets of the log, as many as its revision says, though entities   *)
(* are loaded twice for a command and errors are answered to commands that *)
(* were recorded.                                                          *)
(***************************************************************************)
RepliesAreConsistent ==
  \A c \in Client : Succeeded(c) =>
    reply[c].entity.state =
      FoldLeft(Reduce, InitialState, EventsUpTo(AggregateOf[c], reply[c].entity.revision))

(* The events publications record on a. *)
EventsIn(publications, a) ==
  FlattenSeq([i \in DOMAIN publications |->
                IF publications[i].aggregate = a THEN publications[i].events ELSE <<>>])

(* The events recorded on a for request n of c. *)
RecordedIn(c, n, a) ==
  FlattenSeq([i \in DOMAIN history[a] |->
                IF i \in RecordedFor(c, n, a) THEN history[a][i].events ELSE <<>>])

(***************************************************************************)
(* What a handler published took effect in order and at most once: all of  *)
(* it when the command succeeded, the first publications, on whichever     *)
(* aggregates, when it was answered with an error.                         *)
(***************************************************************************)
CommandsTakeEffectInOrder ==
  \A c \in Client : Answered(c) =>
    \E k \in 0 .. Len(reply[c].program) :
      /\ Succeeded(c) => k = Len(reply[c].program)
      /\ \A a \in Aggregate :
           RecordedIn(c, sent[c], a) = EventsIn(SubSeq(reply[c].program, 1, k), a)
=============================================================================
