-------------------------- MODULE ServiceOnLogProofs --------------------------
(***************************************************************************)
(* Proofs about the service on a log: its replies are current and          *)
(* consistent, and commands take effect in order.                          *)
(*                                                                         *)
(* The actions of ServiceOnLog are first reduced to what they do to one    *)
(* client (ClientStep: another's step, a request, an error, a load or a    *)
(* publication); each invariant is then a predicate on one client and the  *)
(* log, preserved by each kind of step.                                    *)
(***************************************************************************)
EXTENDS ServiceOnLog, InductionLemmas

-----------------------------------------------------------------------------
(***************************************************************************)
(* Handlers.  Each makes finitely many publications, of finitely many      *)
(* events, whatever the entity is; nothing else is assumed of them, nor of *)
(* the reducers.                                                           *)
(***************************************************************************)
PublicationOf(E) == [aggregate : Aggregate, guarded : BOOLEAN, events : Seq(E)]

HandlersPublish(E) ==
  \A c \in Client : \A command \in RequestsOf[c] \ {Query} :
    \A entity : IsHandled(command) =>
      \A program \in Programs(AggregateOf[c], command, entity) :
        program.publications \in Seq(PublicationOf(E))

HandlersArePrograms == \E E : HandlersPublish(E)

Event == CHOOSE E : HandlersPublish(E)

ChangeSet == [by : Client, request : Nat, events : Seq(Event)]

(* The state a reducer makes of events; what it is does not matter here. *)
Render(events) == FoldLeft(Reduce, InitialState, events)

-----------------------------------------------------------------------------
(* What is recorded in the changes for request n of c. *)
OfRequest(changes, c, n) == changes.by = c /\ changes.request = n

EventsFor(h, c, n) ==
  FlattenSeq([i \in DOMAIN h |-> IF OfRequest(h[i], c, n) THEN h[i].events ELSE <<>>])

(* The events of publications on a. *)
EventsFrom(publications, a) ==
  FlattenSeq([i \in DOMAIN publications |->
                IF publications[i].aggregate = a THEN publications[i].events ELSE <<>>])

EventsOfFirst(h, v) == FlattenSeq([i \in 1 .. v |-> h[i].events])

-----------------------------------------------------------------------------
(* A sequence is a function on its positions. *)
LEMMA SequenceFacts ==
  ASSUME NEW S, NEW s \in Seq(S)
  PROVE  /\ Len(s) \in Nat /\ DOMAIN s = 1 .. Len(s)
         /\ \A i \in 1 .. Len(s) : s[i] \in S
  OBVIOUS

(* What Append leaves and adds. *)
LEMMA AppendFacts ==
  ASSUME NEW S, NEW s \in Seq(S), NEW e \in S
  PROVE  /\ Append(s, e) \in Seq(S)
         /\ Len(Append(s, e)) = Len(s) + 1
         /\ DOMAIN Append(s, e) = 1 .. Len(s) + 1
         /\ Append(s, e)[Len(s) + 1] = e
         /\ \A i \in 1 .. Len(s) : Append(s, e)[i] = s[i]
  OBVIOUS

(* What a further change set adds for a request. *)
LEMMA EventsForAppend ==
  ASSUME NEW h \in Seq(ChangeSet), NEW e \in ChangeSet, NEW c, NEW n
  PROVE  /\ EventsFor(h, c, n) \in Seq(Event)
         /\ EventsFor(Append(h, e), c, n) =
              EventsFor(h, c, n) \o (IF OfRequest(e, c, n) THEN e.events ELSE <<>>)
  <1>. DEFINE part(changes) == IF OfRequest(changes, c, n) THEN changes.events ELSE <<>>
              l == Len(h)
              t == Append(h, e)
              f == [i \in 1 .. l |-> part(h[i])]
              v == part(e)
              g == [i \in 1 .. l + 1 |-> IF i = l + 1 THEN v ELSE f[i]]
  <1>1. l \in Nat /\ DOMAIN h = 1 .. l /\ \A i \in 1 .. l : h[i] \in ChangeSet
    BY SequenceFacts
  <1>2. \A changes \in ChangeSet : part(changes) \in Seq(Event)
    BY DEF ChangeSet
  <1>3. f \in [1 .. l -> Seq(Event)] /\ v \in Seq(Event)
    <2>. HIDE DEF part
    <2>. QED
      BY <1>1, <1>2
  <1>4. DOMAIN t = 1 .. l + 1 /\ t[l + 1] = e /\ \A i \in 1 .. l : t[i] = h[i]
    BY AppendFacts
  <1>5. [i \in DOMAIN t |-> part(t[i])] = g
    <2>. HIDE DEF part, t, l
    <2>1. \A i \in 1 .. l + 1 : part(t[i]) = IF i = l + 1 THEN v ELSE f[i]
      BY <1>1, <1>4
    <2>. QED
      BY <1>4, <2>1
  <1>6. EventsFor(h, c, n) = FlattenSeq(f)
    BY <1>1 DEF EventsFor
  <1>7. EventsFor(t, c, n) = FlattenSeq(g)
    <2>1. EventsFor(t, c, n) = FlattenSeq([i \in DOMAIN t |-> part(t[i])])
      BY DEF EventsFor
    <2>. HIDE DEF part, t, g
    <2>. QED
      BY <1>5, <2>1
  <1>8. f \in Seq(Seq(Event)) /\ g = Append(f, v)
    <2>. HIDE DEF f, v, l
    <2>1. g \in [1 .. l + 1 -> Seq(Event)] /\ g[l + 1] = v /\ \A i \in 1 .. l : g[i] = f[i]
      BY <1>1, <1>3
    <2>. HIDE DEF g
    <2>2. f \in Seq(Seq(Event)) /\ g = Append(f, g[l + 1])
      BY <1>1, <1>3, <2>1, MappedAppend
    <2>. QED
      BY <2>1, <2>2
  <1>9. FlattenSeq(f) \in Seq(Event) /\ FlattenSeq(Append(f, v)) = FlattenSeq(f) \o v
    <2>. HIDE DEF f, v
    <2>. QED
      BY <1>3, <1>8, FlattenAppend, FlattenType
  <1>. QED
    <2>. HIDE DEF f, g, t
    <2>1. EventsFor(t, c, n) = EventsFor(h, c, n) \o v
      BY <1>6, <1>7, <1>8, <1>9
    <2>. QED
      BY <1>6, <1>9, <2>1 DEF t

(* What is recorded for a request are events. *)
LEMMA EventsForType ==
  ASSUME NEW h \in Seq(ChangeSet), NEW c, NEW n PROVE EventsFor(h, c, n) \in Seq(Event)
  <1>. DEFINE f == [i \in DOMAIN h |-> IF OfRequest(h[i], c, n) THEN h[i].events ELSE <<>>]
  <1>1. Len(h) \in Nat /\ DOMAIN h = 1 .. Len(h) /\ \A i \in 1 .. Len(h) : h[i] \in ChangeSet
    BY SequenceFacts
  <1>2. f \in [1 .. Len(h) -> Seq(Event)]
    BY <1>1 DEF ChangeSet
  <1>3. f \in Seq(Seq(Event))
    <2>. HIDE DEF f
    <2>. QED
      BY <1>1, <1>2
  <1>. QED
    BY <1>3, FlattenType DEF EventsFor

(* What the next publication adds to those that were made. *)
LEMMA EventsFromNext ==
  ASSUME NEW p \in Seq(PublicationOf(Event)), NEW k \in Nat, k < Len(p), NEW a
  PROVE  EventsFrom(SubSeq(p, 1, k + 1), a) =
           EventsFrom(SubSeq(p, 1, k), a) \o
             (IF p[k + 1].aggregate = a THEN p[k + 1].events ELSE <<>>)
  <1>. DEFINE part(publication) ==
                IF publication.aggregate = a THEN publication.events ELSE <<>>
              f == [i \in 1 .. k |-> part(p[i])]
              v == part(p[k + 1])
              g == [i \in 1 .. k + 1 |-> IF i = k + 1 THEN v ELSE f[i]]
              s == SubSeq(p, 1, k)
              t == SubSeq(p, 1, k + 1)
  <1>1. \A i \in 1 .. k + 1 : p[i] \in PublicationOf(Event)
    BY SMT
  <1>2. \A publication \in PublicationOf(Event) : part(publication) \in Seq(Event)
    BY DEF PublicationOf
  <1>3. f \in [1 .. k -> Seq(Event)] /\ v \in Seq(Event)
    <2>. HIDE DEF part
    <2>. QED
      BY <1>1, <1>2
  <1>4. DOMAIN s = 1 .. k /\ \A i \in 1 .. k : s[i] = p[i]
    OBVIOUS
  <1>5. DOMAIN t = 1 .. k + 1 /\ \A i \in 1 .. k + 1 : t[i] = p[i]
    OBVIOUS
  <1>6. EventsFrom(s, a) = FlattenSeq(f)
    <2>1. EventsFrom(s, a) = FlattenSeq([i \in DOMAIN s |-> part(s[i])])
      BY DEF EventsFrom
    <2>2. [i \in DOMAIN s |-> part(s[i])] = f
      <3>. HIDE DEF part, s
      <3>. QED
        BY <1>4
    <2>. HIDE DEF part, s, f
    <2>. QED
      BY <2>1, <2>2
  <1>7. EventsFrom(t, a) = FlattenSeq(g)
    <2>1. EventsFrom(t, a) = FlattenSeq([i \in DOMAIN t |-> part(t[i])])
      BY DEF EventsFrom
    <2>2. [i \in DOMAIN t |-> part(t[i])] = g
      <3>. HIDE DEF part, t
      <3>1. \A i \in 1 .. k + 1 : part(t[i]) = IF i = k + 1 THEN v ELSE f[i]
        BY <1>5
      <3>. QED
        BY <1>5, <3>1
    <2>. HIDE DEF part, t, g
    <2>. QED
      BY <2>1, <2>2
  <1>8. f \in Seq(Seq(Event)) /\ g = Append(f, v)
    <2>. HIDE DEF f, v
    <2>1. g \in [1 .. k + 1 -> Seq(Event)] /\ g[k + 1] = v /\ \A i \in 1 .. k : g[i] = f[i]
      BY <1>3
    <2>. HIDE DEF g
    <2>2. f \in Seq(Seq(Event)) /\ g = Append(f, g[k + 1])
      <3>. DEFINE n == k
      <3>1. n \in Nat /\ f \in [1 .. n -> Seq(Event)] /\ g \in [1 .. n + 1 -> Seq(Event)]
            /\ \A i \in 1 .. n : g[i] = f[i]
        BY <1>3, <2>1
      <3>. HIDE DEF n, s, t, part
      <3>2. f \in Seq(Seq(Event)) /\ g = Append(f, g[n + 1])
        BY <3>1, MappedAppend
      <3>. QED
        BY <3>2 DEF n
    <2>. QED
      BY <2>1, <2>2
  <1>9. FlattenSeq(Append(f, v)) = FlattenSeq(f) \o v
    <2>. HIDE DEF f, v
    <2>. QED
      BY <1>3, <1>8, FlattenAppend
  <1>. QED
    <2>. HIDE DEF f, g, s, t
    <2>1. EventsFrom(t, a) = EventsFrom(s, a) \o v
      BY <1>6, <1>7, <1>8, <1>9
    <2>. QED
      BY <2>1 DEF s, t

(* Of no publications there are no events. *)
LEMMA EventsFromNone ==
  ASSUME NEW p \in Seq(PublicationOf(Event)), NEW a
  PROVE  EventsFrom(SubSeq(p, 1, 0), a) = <<>>
  <1>1. SubSeq(p, 1, 0) = <<>>
    OBVIOUS
  <1>2. EventsFrom(<<>>, a) = FlattenSeq(<<>>)
    <2>1. \A f : f = <<>> => [i \in DOMAIN f |-> IF f[i].aggregate = a THEN f[i].events ELSE <<>>] = <<>>
      OBVIOUS
    <2>. QED
      BY <2>1 DEF EventsFrom
  <1>. QED
    BY <1>1, <1>2, FlattenEmpty

(* The first change sets do not change when one is appended. *)
LEMMA EventsOfFirstStay ==
  ASSUME NEW h \in Seq(ChangeSet), NEW e \in ChangeSet, NEW v \in Nat, v <= Len(h)
  PROVE  EventsOfFirst(Append(h, e), v) = EventsOfFirst(h, v)
  <1>1. \A i \in 1 .. v : Append(h, e)[i] = h[i]
    OBVIOUS
  <1>. DEFINE t == Append(h, e)
  <1>. HIDE DEF t
  <1>2. [i \in 1 .. v |-> t[i].events] = [i \in 1 .. v |-> h[i].events]
    BY <1>1 DEF t
  <1>3. EventsOfFirst(t, v) = EventsOfFirst(h, v)
    BY <1>2 DEF EventsOfFirst
  <1>. QED
    BY <1>3 DEF t

-----------------------------------------------------------------------------
(***************************************************************************)
(* What a step does to one client: its request r, reply p and number n of  *)
(* requests, and the log h, become rr, pp, nn and hh.                      *)
(***************************************************************************)
Successes == {"ok", "not found"}

AnswerTo(r, status, entity) ==
  [status |-> status, command |-> r.command, entity |-> entity,
   program |-> r.program, since |-> r.since]

Sent(step, command, since) ==
  [step |-> step, command |-> command, entity |-> NoEntity, program |-> <<>>,
   fails |-> FALSE, done |-> 0, published |-> FALSE, since |-> since]

Handling(r, entity, publications, fails) ==
  [step |-> "handle", command |-> r.command, entity |-> entity, program |-> publications,
   fails |-> fails, done |-> r.done, published |-> r.published, since |-> r.since]

HasPublished(r) == r.published \/ r.program[r.done + 1].events # <<>>

OneDone(r, step) ==
  [step |-> step, command |-> r.command, entity |-> r.entity, program |-> r.program,
   fails |-> r.fails, done |-> r.done + 1, published |-> HasPublished(r), since |-> r.since]

Loaded(s, v) == [revision |-> v, state |-> Render(EventsOfFirst(s, v))]

Added(h, a, e) == [h EXCEPT ![a] = Append(@, e)]

(* The step is another client's. *)
Stays(c, r, p, n, h, rr, pp, nn, hh) ==
  /\ rr = r /\ pp = p /\ nn = n
  /\ hh = h \/ \E a \in Aggregate, e \in ChangeSet : e.by # c /\ hh = Added(h, a, e)

Asks(c, r, p, n, h, rr, pp, nn, hh) ==
  /\ r.step = "idle" /\ nn = n + 1 /\ hh = h
  /\ \/ /\ pp = NoReply
        /\ \/ rr = Sent("get", Query, Len(h[AggregateOf[c]]))
           \/ \E command \in RequestsOf[c] \ {Query} :
                rr = Sent("load", command, Len(h[AggregateOf[c]]))
     \/ rr = Idle /\ pp = AnswerTo(Idle, "rejected", NoEntity)

Fails(c, r, p, n, h, rr, pp, nn, hh) ==
  /\ r.step # "idle" /\ rr = Idle /\ pp = AnswerTo(r, "error", NoEntity)
  /\ nn = n /\ hh = h

(* The entity is the reply, or is given to a handler. *)
Receives(entity, r, p, rr, pp) ==
  /\ r.step \in {"get", "load", "reload"}
  /\ \/ rr = Idle /\ \E status \in Successes : pp = AnswerTo(r, status, entity)
     \/ /\ r.step = "load" /\ pp = p
        /\ \E publications \in Seq(PublicationOf(Event)) : \E fails :
             publications # <<>> /\ rr = Handling(r, entity, publications, fails)

Loads(c, r, p, n, h, rr, pp, nn, hh) ==
  /\ nn = n /\ hh = h
  /\ \E v \in (IF StaleReads THEN 0 ELSE Len(h[AggregateOf[c]])) .. Len(h[AggregateOf[c]]) :
       Receives(Loaded(h[AggregateOf[c]], v), r, p, rr, pp)

(* A load may show any entity. *)
LoadsAny(r, p, n, h, rr, pp, nn, hh) ==
  nn = n /\ hh = h /\ \E entity : Receives(entity, r, p, rr, pp)

Publishes(c, r, p, n, h, rr, pp, nn, hh) ==
  LET publication == r.program[r.done + 1] IN
  /\ r.step = "handle" /\ nn = n
  /\ hh = IF publication.events = <<>> THEN h
          ELSE Added(h, publication.aggregate,
                     [by |-> c, request |-> n, events |-> publication.events])
  /\ \/ rr = Idle /\ pp = AnswerTo(r, "error", NoEntity)
     \/ r.done + 1 < Len(r.program) /\ rr = OneDone(r, "handle") /\ pp = p
     \/ r.done + 1 = Len(r.program) /\ HasPublished(r) /\ rr = OneDone(r, "reload") /\ pp = p
     \/ /\ r.done + 1 = Len(r.program) /\ ~HasPublished(r) /\ rr = Idle
        /\ \E status \in Successes : pp = AnswerTo(r, status, r.entity)

ClientStep(c, r, p, n, h, rr, pp, nn, hh) ==
  \/ Stays(c, r, p, n, h, rr, pp, nn, hh)
  \/ Asks(c, r, p, n, h, rr, pp, nn, hh)
  \/ Fails(c, r, p, n, h, rr, pp, nn, hh)
  \/ Loads(c, r, p, n, h, rr, pp, nn, hh)
  \/ Publishes(c, r, p, n, h, rr, pp, nn, hh)

(* What commands record does not depend on the entities that are loaded. *)
RecordingStep(c, r, p, n, h, rr, pp, nn, hh) ==
  \/ Stays(c, r, p, n, h, rr, pp, nn, hh)
  \/ Asks(c, r, p, n, h, rr, pp, nn, hh)
  \/ Fails(c, r, p, n, h, rr, pp, nn, hh)
  \/ LoadsAny(r, p, n, h, rr, pp, nn, hh)
  \/ Publishes(c, r, p, n, h, rr, pp, nn, hh)

LEMMA ClientStepRecords ==
  ASSUME NEW c, NEW r, NEW p, NEW n, NEW h, NEW rr, NEW pp, NEW nn, NEW hh,
         ClientStep(c, r, p, n, h, rr, pp, nn, hh)
  PROVE  RecordingStep(c, r, p, n, h, rr, pp, nn, hh)
  <1>1. Loads(c, r, p, n, h, rr, pp, nn, hh) => LoadsAny(r, p, n, h, rr, pp, nn, hh)
    BY DEF Loads, LoadsAny
  <1>. QED
    BY <1>1 DEF ClientStep, RecordingStep

-----------------------------------------------------------------------------
(***************************************************************************)
(* Types: what a request under way may look like at each of its steps.     *)
(***************************************************************************)
IsRequest(r) ==
  r = [step |-> r.step, command |-> r.command, entity |-> r.entity, program |-> r.program,
       fails |-> r.fails, done |-> r.done, published |-> r.published, since |-> r.since]

Fields == {"step", "command", "entity", "program", "fails", "done", "published", "since"}

LostReply(r) ==
  [NoReply EXCEPT !.status = "error", !.command = r.command, !.program = r.program,
                  !.since = r.since]

(* A user whose process stops gets no answer but an error. *)
LEMMA LostReplyIs ==
  ASSUME NEW r PROVE LostReply(r) = AnswerTo(r, "error", NoEntity)
  <1>. DEFINE t == LostReply(r)
              u == AnswerTo(r, "error", NoEntity)
              F == {"status", "command", "entity", "program", "since"}
  <1>1. DOMAIN NoReply = F /\ DOMAIN u = F
    BY DEF NoReply, AnswerTo
  <1>2. DOMAIN t = DOMAIN NoReply /\ t = [x \in DOMAIN NoReply |-> t[x]]
    BY DEF LostReply
  <1>3. /\ t.status = "error" /\ t.command = r.command /\ t.since = r.since
        /\ t.entity = NoReply.entity /\ t.program = r.program
    BY <1>1 DEF LostReply
  <1>4. /\ u.status = "error" /\ u.command = r.command /\ u.since = r.since
        /\ u.entity = NoReply.entity /\ u.program = r.program
    BY DEF AnswerTo, NoReply
  <1>5. \A x \in F : t[x] = u[x]
    <2>. HIDE DEF t, u
    <2>. QED
      BY <1>3, <1>4
  <1>. QED
    BY <1>1, <1>2, <1>5 DEF AnswerTo

(* Every request has the same fields. *)
LEMMA RequestDomain ==
  ASSUME NEW r, IsRequest(r) PROVE DOMAIN r = Fields
  BY DEF IsRequest, Fields

(* A request as Send makes it, field by field. *)
LEMMA SentIs ==
  ASSUME NEW step, NEW command, NEW since
  PROVE  [Idle EXCEPT !.step = step, !.command = command, !.since = since]
           = Sent(step, command, since)
  <1>. DEFINE t == [Idle EXCEPT !.step = step, !.command = command, !.since = since]
              u == Sent(step, command, since)
  <1>1. DOMAIN Idle = Fields /\ DOMAIN u = Fields
    BY DEF Idle, Sent, Fields
  <1>2. DOMAIN t = DOMAIN Idle /\ t = [x \in DOMAIN Idle |-> t[x]]
    OBVIOUS
  <1>3. /\ t.step = step /\ t.command = command /\ t.since = since
        /\ t.entity = Idle.entity /\ t.program = Idle.program /\ t.fails = Idle.fails
        /\ t.done = Idle.done /\ t.published = Idle.published
    BY <1>1 DEF Fields
  <1>4. \A x \in Fields : t[x] = u[x]
    <2>1. /\ u.step = step /\ u.command = command /\ u.since = since
          /\ u.entity = Idle.entity /\ u.program = Idle.program /\ u.fails = Idle.fails
          /\ u.done = Idle.done /\ u.published = Idle.published
      BY DEF Idle, Sent
    <2>. HIDE DEF t, u
    <2>. QED
      BY <1>3, <2>1 DEF Fields
  <1>. QED
    BY <1>1, <1>2, <1>4 DEF Sent

Dispatched(r, entity, program, fails) ==
  [r EXCEPT !.step = "handle", !.entity = entity, !.program = program, !.fails = fails]

(* A request whose handler was chosen, field by field. *)
LEMMA HandlingIs ==
  ASSUME NEW r, IsRequest(r), NEW entity, NEW program, NEW fails
  PROVE  Dispatched(r, entity, program, fails) = Handling(r, entity, program, fails)
  <1>. DEFINE t == [r EXCEPT !.step = "handle", !.entity = entity, !.program = program,
                             !.fails = fails]
              u == Handling(r, entity, program, fails)
  <1>1. DOMAIN r = Fields /\ DOMAIN u = Fields
    BY RequestDomain DEF Handling, Fields
  <1>2. DOMAIN t = DOMAIN r /\ t = [x \in DOMAIN r |-> t[x]]
    OBVIOUS
  <1>3. /\ t.step = "handle" /\ t.command = r.command /\ t.since = r.since
        /\ t.entity = entity /\ t.program = program /\ t.fails = fails
        /\ t.done = r.done /\ t.published = r.published
    BY <1>1 DEF Fields
  <1>4. \A x \in Fields : t[x] = u[x]
    <2>. HIDE DEF t
    <2>. QED
      BY <1>3 DEF Handling, Fields
  <1>. QED
    BY <1>1, <1>2, <1>4 DEF Handling, Dispatched

Returned(r) ==
  [r EXCEPT !.done = @ + 1, !.published = @ \/ r.program[r.done + 1].events # <<>>]

(* A request after one of its publications, field by field. *)
LEMMA OneDoneIs ==
  ASSUME NEW r, IsRequest(r)
  PROVE  /\ Returned(r) = OneDone(r, r.step)
         /\ [OneDone(r, r.step) EXCEPT !.step = "reload"] = OneDone(r, "reload")
  <1>. DEFINE t == Returned(r)
              u == OneDone(r, r.step)
              v == [u EXCEPT !.step = "reload"]
              w == OneDone(r, "reload")
  <1>1. DOMAIN r = Fields /\ DOMAIN u = Fields /\ DOMAIN w = Fields
    BY RequestDomain DEF OneDone, Fields
  <1>2. DOMAIN t = DOMAIN r /\ t = [x \in DOMAIN r |-> t[x]]
    BY DEF Returned
  <1>3. /\ t.step = r.step /\ t.command = r.command /\ t.since = r.since
        /\ t.entity = r.entity /\ t.program = r.program /\ t.fails = r.fails
        /\ t.done = r.done + 1 /\ t.published = HasPublished(r)
    BY <1>1 DEF Fields, Returned, HasPublished
  <1>4. \A x \in Fields : t[x] = u[x]
    <2>. HIDE DEF t
    <2>. QED
      BY <1>3 DEF OneDone, Fields
  <1>5. t = u
    BY <1>1, <1>2, <1>4 DEF OneDone
  <1>6. DOMAIN v = DOMAIN u /\ v = [x \in DOMAIN u |-> v[x]]
    <2>. HIDE DEF u
    <2>. QED
      OBVIOUS
  <1>7. v.step = "reload" /\ \A x \in Fields : x # "step" => v[x] = u[x]
    <2>. HIDE DEF u
    <2>. QED
      BY <1>1 DEF Fields
  <1>8. w.step = "reload" /\ \A x \in Fields : x # "step" => w[x] = u[x]
    BY DEF OneDone, Fields
  <1>9. \A x \in Fields : v[x] = w[x]
    <2>. HIDE DEF u, v, w
    <2>. QED
      BY <1>7, <1>8
  <1>10. w = [x \in DOMAIN w |-> w[x]]
    BY DEF OneDone
  <1>11. v = w
    <2>. HIDE DEF u, v, w
    <2>. QED
      BY <1>1, <1>6, <1>9, <1>10
  <1>. QED
    BY <1>5, <1>11

RequestOK(c, r) ==
  /\ IsRequest(r)
  /\ r.step \in {"idle", "get", "load", "handle", "reload"}
  /\ r.step = "idle" => r = Idle
  /\ r.step = "load" => r.command \in RequestsOf[c] \ {Query}
  /\ r.program \in Seq(PublicationOf(Event))
  /\ r.done \in Nat /\ r.published \in BOOLEAN /\ r.since \in Nat
  /\ r.step = "handle" => r.done < Len(r.program)
  /\ r.step # "handle" => r.done = Len(r.program)
  /\ r.step \in {"get", "load"} => r.done = 0 /\ ~r.published

TypeInv ==
  /\ request = [c \in Client |-> request[c]]
  /\ reply = [c \in Client |-> reply[c]]
  /\ sent \in [Client -> Nat]
  /\ history \in [Aggregate -> Seq(ChangeSet)]
  /\ \A c \in Client : RequestOK(c, request[c])

(* The handler of a command that was posted makes publications. *)
LEMMA HandlerFacts ==
  ASSUME HandlersArePrograms, NEW c \in Client, NEW command \in RequestsOf[c] \ {Query},
         NEW entity, IsHandled(command), NEW program \in Programs(AggregateOf[c], command, entity)
  PROVE  program.publications \in Seq(PublicationOf(Event))
  <1>1. HandlersPublish(Event)
    BY DEF HandlersArePrograms, Event
  <1>. QED
    BY <1>1 DEF HandlersPublish

(* The type invariant for one client. *)
LEMMA TypeFacts ==
  ASSUME TypeInv, NEW c \in Client
  PROVE  /\ RequestOK(c, request[c]) /\ sent[c] \in Nat
         /\ AggregateOf[c] \in Aggregate /\ history[AggregateOf[c]] \in Seq(ChangeSet)
         /\ Len(history[AggregateOf[c]]) \in Nat
  BY ServiceAssumption DEF TypeInv, ServiceAssumption

(* A client's part of a step that assigns to it. *)
LEMMA Assigned ==
  ASSUME TypeInv, NEW c \in Client, NEW r, NEW p
  PROVE  /\ request' = [request EXCEPT ![c] = r] =>
              /\ request' = [d \in Client |-> request'[d]]
              /\ request'[c] = r /\ \A d \in Client \ {c} : request'[d] = request[d]
         /\ reply' = [reply EXCEPT ![c] = p] =>
              /\ reply' = [d \in Client |-> reply'[d]]
              /\ reply'[c] = p /\ \A d \in Client \ {c} : reply'[d] = reply[d]
  BY DEF TypeInv

(* Only c changes. *)
Alone(c) ==
  /\ request' = [d \in Client |-> request'[d]] /\ reply' = [d \in Client |-> reply'[d]]
  /\ \A d \in Client \ {c} : request'[d] = request[d] /\ reply'[d] = reply[d]

(* An answer ends the request of c and touches no other. *)
LEMMA AnswerStep ==
  ASSUME TypeInv, NEW c \in Client, NEW status, NEW entity, Answer(c, status, entity)
  PROVE  Alone(c) /\ request'[c] = Idle /\ reply'[c] = AnswerTo(request[c], status, entity)
  <1>. DEFINE p == [status |-> status, command |-> request[c].command, entity |-> entity,
                    program |-> request[c].program, since |-> request[c].since]
  <1>1. request' = [request EXCEPT ![c] = Idle] /\ reply' = [reply EXCEPT ![c] = p]
    BY DEF Answer
  <1>2. p = AnswerTo(request[c], status, entity)
    BY DEF AnswerTo
  <1>. HIDE DEF p
  <1>. QED
    BY <1>1, <1>2, Assigned DEF Alone

(* An entity is the reply, or does not serialize. *)
LEMMA EncodeStep ==
  ASSUME TypeInv, NEW c \in Client, NEW entity, Encode(c, entity)
  PROVE  /\ Alone(c) /\ request'[c] = Idle
         /\ \/ reply'[c] = AnswerTo(request[c], "error", NoEntity)
            \/ \E status \in Successes : reply'[c] = AnswerTo(request[c], status, entity)
  <1>1. \/ Answer(c, "error", NoEntity) \/ Answer(c, "ok", entity) \/ Answer(c, "not found", entity)
    BY DEF Encode, EncodeResource, Fail
  <1>. QED
    BY <1>1, AnswerStep DEF Successes

(* An error is the reply. *)
LEMMA FailStep ==
  ASSUME TypeInv, NEW c \in Client, Fail(c)
  PROVE  Alone(c) /\ request'[c] = Idle /\ reply'[c] = AnswerTo(request[c], "error", NoEntity)
  BY AnswerStep DEF Fail

(* The handler goes on, fails, or returns. *)
LEMMA ProceedStep ==
  ASSUME TypeInv, NEW c \in Client, NEW r, IsRequest(r), Proceed(c, r)
  PROVE  /\ Alone(c)
         /\ \/ r.done < Len(r.program) /\ request'[c] = r /\ reply'[c] = reply[c]
            \/ /\ ~(r.done < Len(r.program)) /\ request'[c] = Idle
               /\ reply'[c] = AnswerTo(request[c], "error", NoEntity)
            \/ /\ ~(r.done < Len(r.program)) /\ r.published /\ reply'[c] = reply[c]
               /\ request'[c] = [r EXCEPT !.step = "reload"]
            \/ /\ ~(r.done < Len(r.program)) /\ ~r.published /\ request'[c] = Idle
               /\ \E status \in Successes : reply'[c] = AnswerTo(request[c], status, r.entity)
  <1>1. CASE r.done < Len(r.program)
    <2>1. request' = [request EXCEPT ![c] = r] /\ reply' = reply
      BY <1>1 DEF Proceed
    <2>. QED
      BY <1>1, <2>1, Assigned DEF Alone, TypeInv
  <1>2. CASE ~(r.done < Len(r.program)) /\ r.fails
    <2>1. Fail(c)
      BY <1>2 DEF Proceed
    <2>. QED
      BY <1>2, <2>1, FailStep
  <1>3. CASE ~(r.done < Len(r.program)) /\ ~r.fails /\ r.published
    <2>. DEFINE rr == [r EXCEPT !.step = "reload"]
    <2>1. request' = [request EXCEPT ![c] = rr] /\ reply' = reply
      BY <1>3 DEF Proceed
    <2>. HIDE DEF rr
    <2>2. Alone(c) /\ request'[c] = rr /\ reply'[c] = reply[c]
      BY <2>1, Assigned DEF Alone, TypeInv
    <2>. QED
      BY <1>3, <2>2 DEF rr
  <1>4. CASE ~(r.done < Len(r.program)) /\ ~r.fails /\ ~r.published
    <2>1. Encode(c, r.entity)
      BY <1>4 DEF Proceed
    <2>. QED
      BY <1>4, <2>1, EncodeStep
  <1>. QED
    BY <1>1, <1>2, <1>3, <1>4

-----------------------------------------------------------------------------
(* Every action is, for every client, one of these steps. *)
Shape ==
  /\ request' = [c \in Client |-> request'[c]]
  /\ reply' = [c \in Client |-> reply'[c]]
  /\ sent' \in [Client -> Nat]

StepOf(c) ==
  ClientStep(c, request[c], reply[c], sent[c], history, request'[c], reply'[c], sent'[c], history')

(* A request is begun. *)
LEMMA SendStep ==
  ASSUME TypeInv, NEW c \in Client, NEW step, NEW command, NEW since, Send(c, step, command, since)
  PROVE  /\ Alone(c) /\ request[c].step = "idle"
         /\ sent' \in [Client -> Nat] /\ sent'[c] = sent[c] + 1
         /\ \A d \in Client \ {c} : sent'[d] = sent[d]
         /\ request'[c] = Sent(step, command, since) /\ reply'[c] = NoReply
  <1>. DEFINE r == [Idle EXCEPT !.step = step, !.command = command, !.since = since]
  <1>1. request' = [request EXCEPT ![c] = r] /\ reply' = [reply EXCEPT ![c] = NoReply]
    BY DEF Send
  <1>2. r = Sent(step, command, since)
    BY SentIs
  <1>3. sent \in [Client -> Nat] /\ sent' = [sent EXCEPT ![c] = @ + 1] /\ request[c].step = "idle"
    BY DEF Send, At, TypeInv
  <1>4. /\ sent' \in [Client -> Nat] /\ sent'[c] = sent[c] + 1
        /\ \A d \in Client \ {c} : sent'[d] = sent[d]
    BY <1>3
  <1>. HIDE DEF r
  <1>5. Alone(c) /\ request'[c] = r /\ reply'[c] = NoReply
    BY <1>1, Assigned DEF Alone
  <1>. QED
    BY <1>2, <1>3, <1>4, <1>5

(* A step of c is one of another client to d. *)
LEMMA OthersStay ==
  ASSUME NEW c \in Client, Alone(c), \A d \in Client \ {c} : sent'[d] = sent[d],
         history' = history \/ \E a \in Aggregate, e \in ChangeSet :
                                 e.by = c /\ history' = Added(history, a, e),
         NEW d \in Client, d # c
  PROVE  StepOf(d)
  <1>1. request'[d] = request[d] /\ reply'[d] = reply[d] /\ sent'[d] = sent[d]
    BY DEF Alone
  <1>2. \A a, e : e.by = c => e.by # d
    OBVIOUS
  <1>. QED
    BY <1>1, <1>2 DEF StepOf, ClientStep, Stays

(* Get, Post and BadRequest ask. *)
LEMMA SendKinds ==
  ASSUME TypeInv, NEW c \in Client, Get(c) \/ Post(c) \/ BadRequest(c)
  PROVE  Shape /\ \A d \in Client : StepOf(d)
  <1>. DEFINE l == Len(history[AggregateOf[c]])
  <1>1. CASE Get(c)
    <2>1. Send(c, "get", Query, l) /\ history' = history
      BY <1>1 DEF Get, SendGet
    <2>. HIDE DEF l
    <2>2. StepOf(c)
      <3>1. Asks(c, request[c], reply[c], sent[c], history, request'[c], reply'[c], sent'[c], history')
        BY <2>1, SendStep DEF Asks, l
      <3>. QED
        BY <3>1 DEF StepOf, ClientStep
    <2>. QED
      BY <2>1, <2>2, SendStep, OthersStay DEF Shape, Alone
  <1>2. CASE Post(c)
    <2>1. PICK command \in RequestsOf[c] \ {Query} : Send(c, "load", command, l) /\ history' = history
      BY <1>2 DEF Post, SendPost
    <2>. HIDE DEF l
    <2>2. StepOf(c)
      <3>1. Asks(c, request[c], reply[c], sent[c], history, request'[c], reply'[c], sent'[c], history')
        BY <2>1, SendStep DEF Asks, l
      <3>. QED
        BY <3>1 DEF StepOf, ClientStep
    <2>. QED
      BY <2>1, <2>2, SendStep, OthersStay DEF Shape, Alone
  <1>3. CASE BadRequest(c)
    <2>1. /\ request[c].step = "idle" /\ sent' = [sent EXCEPT ![c] = @ + 1] /\ sent \in [Client -> Nat]
          /\ Answer(c, "rejected", NoEntity) /\ history' = history
      BY <1>3 DEF BadRequest, SendGarbage, At, TypeInv
    <2>2. /\ sent' \in [Client -> Nat] /\ sent'[c] = sent[c] + 1
          /\ \A d \in Client \ {c} : sent'[d] = sent[d]
      BY <2>1
    <2>3. request[c] = Idle
      BY <2>1, TypeFacts DEF RequestOK
    <2>4. Alone(c) /\ request'[c] = Idle /\ reply'[c] = AnswerTo(Idle, "rejected", NoEntity)
      BY <2>1, <2>3, AnswerStep
    <2>5. StepOf(c)
      BY <2>1, <2>2, <2>4 DEF StepOf, ClientStep, Asks
    <2>. QED
      BY <2>1, <2>2, <2>4, <2>5, OthersStay DEF Shape, Alone
  <1>. QED
    BY <1>1, <1>2, <1>3

(* The request of c gets the entity that was loaded, or fails. *)
LEMMA EntityKind ==
  ASSUME HandlersArePrograms, TypeInv, NEW c \in Client, NEW e, Loading(c),
         Fail(c) \/ EntityReturns(c, e), UNCHANGED <<sent, history>>
  PROVE  /\ Shape /\ Alone(c)
         /\ \/ Fails(c, request[c], reply[c], sent[c], history,
                     request'[c], reply'[c], sent'[c], history')
            \/ Receives(e, request[c], reply[c], request'[c], reply'[c])
  <1>. DEFINE r == request[c]
              rr == request'[c]
              pp == reply'[c]
  <1>1. /\ r.step \in {"get", "load", "reload"} /\ sent' = sent /\ history' = history
        /\ sent \in [Client -> Nat] /\ RequestOK(c, r)
    BY TypeFacts DEF Loading, TypeInv
  <1>2. \/ Encode(c, e) \/ Fail(c)
        \/ /\ r.step = "load"
           /\ \E publications \in Seq(PublicationOf(Event)) : \E fails :
                Proceed(c, Handling(r, e, publications, fails))
    <2>1. CASE EntityReturns(c, e) /\ r.step = "load"
      <3>1. Dispatch(c, e)
        BY <2>1 DEF EntityReturns, At
      <3>2. CASE ~IsHandled(r.command)
        BY <3>1, <3>2 DEF Dispatch
      <3>3. CASE IsHandled(r.command)
        <4>1. PICK program \in Programs(AggregateOf[c], r.command, e) :
                Proceed(c, Dispatched(r, e, program.publications, program.fails))
          BY <3>1, <3>3 DEF Dispatch, Dispatched
        <4>2. program.publications \in Seq(PublicationOf(Event))
          <5>1. r.command \in RequestsOf[c] \ {Query}
            BY <1>1, <2>1 DEF RequestOK
          <5>. HIDE DEF r
          <5>. QED
            BY <3>3, <4>1, <5>1, HandlerFacts
        <4>3. Dispatched(r, e, program.publications, program.fails)
              = Handling(r, e, program.publications, program.fails)
          BY <1>1, HandlingIs DEF RequestOK
        <4>. QED
          BY <2>1, <4>1, <4>2, <4>3
      <3>. QED
        BY <3>2, <3>3
    <2>2. CASE EntityReturns(c, e) /\ r.step # "load"
      BY <2>2 DEF EntityReturns, At
    <2>. QED
      BY <2>1, <2>2
  <1>3. CASE Fail(c)
    BY <1>1, <1>3, FailStep DEF Fails, Shape, Alone
  <1>4. CASE Encode(c, e)
    <2>1. /\ Alone(c) /\ rr = Idle
          /\ \/ pp = AnswerTo(r, "error", NoEntity)
             \/ \E status \in Successes : pp = AnswerTo(r, status, e)
      BY <1>4, EncodeStep
    <2>. QED
      BY <1>1, <2>1 DEF Fails, Receives, Shape, Alone
  <1>5. CASE /\ r.step = "load"
             /\ \E publications \in Seq(PublicationOf(Event)) : \E fails :
                  Proceed(c, Handling(r, e, publications, fails))
    <2>1. PICK publications \in Seq(PublicationOf(Event)) :
            \E fails : Proceed(c, Handling(r, e, publications, fails))
      BY <1>5
    <2>2. PICK fails : Proceed(c, Handling(r, e, publications, fails))
      BY <2>1
    <2>. DEFINE q == Handling(r, e, publications, fails)
    <2>3. r.done = 0 /\ ~r.published
      BY <1>1, <1>5 DEF RequestOK
    <2>4. /\ IsRequest(q) /\ q.done = r.done /\ q.program = publications /\ q.published = r.published
          /\ q.entity = e
      BY DEF IsRequest, Handling
    <2>5. /\ Alone(c)
          /\ \/ q.done < Len(q.program) /\ rr = q /\ pp = reply[c]
             \/ rr = Idle /\ pp = AnswerTo(r, "error", NoEntity)
             \/ rr = Idle /\ \E status \in Successes : pp = AnswerTo(r, status, q.entity)
      <3>. HIDE DEF q
      <3>. QED
        BY <2>2, <2>3, <2>4, ProceedStep DEF q
    <2>. HIDE DEF q, r
    <2>6. CASE q.done < Len(q.program) /\ rr = q /\ pp = reply[c]
      <3>1. publications # <<>>
        BY <2>3, <2>4, <2>6
      <3>. HIDE DEF rr, pp
      <3>. QED
        BY <1>1, <1>5, <2>5, <2>6, <3>1 DEF Receives, Shape, Alone, q, r, rr, pp
    <2>7. CASE rr = Idle /\ pp = AnswerTo(r, "error", NoEntity)
      BY <1>1, <2>5, <2>7 DEF Fails, Shape, Alone, r
    <2>8. CASE rr = Idle /\ \E status \in Successes : pp = AnswerTo(r, status, q.entity)
      <3>. HIDE DEF rr, pp
      <3>. QED
        BY <1>1, <2>4, <2>5, <2>8 DEF Receives, Shape, Alone, r, rr, pp
    <2>. QED
      BY <2>5, <2>6, <2>7, <2>8
  <1>. QED
    BY <1>2, <1>3, <1>4, <1>5

(* Load loads, or fails. *)
LEMMA LoadKind ==
  ASSUME HandlersArePrograms, TypeInv, NEW c \in Client, Load(c)
  PROVE  Shape /\ \A d \in Client : StepOf(d)
  <1>. DEFINE s == history[AggregateOf[c]]
  <1>1. Loading(c) /\ sent' = sent /\ history' = history
    BY DEF Load
  <1>2. PICK v \in (IF StaleReads THEN 0 ELSE Len(s)) .. Len(s) : LoadReturns(c, v, EventsOfFirst(s, v))
    BY DEF Load, Versions, EventsUpTo, EventsOfFirst
  <1>. DEFINE e == Loaded(s, v)
              events == EventsOfFirst(s, v)
  <1>3. Fail(c) \/ EntityReturns(c, e)
    <2>1. LoadReturns(c, v, events)
      BY <1>2
    <2>. HIDE DEF events
    <2>2. Fail(c) \/ EntityReturns(c, [revision |-> v, state |-> Render(events)])
      BY <2>1 DEF LoadReturns, Render
    <2>. QED
      BY <2>2 DEF Loaded, events
  <1>. HIDE DEF e, s
  <1>4. /\ Shape /\ Alone(c)
        /\ \/ Fails(c, request[c], reply[c], sent[c], history,
                    request'[c], reply'[c], sent'[c], history')
           \/ Receives(e, request[c], reply[c], request'[c], reply'[c])
    BY <1>1, <1>3, EntityKind
  <1>5. Receives(e, request[c], reply[c], request'[c], reply'[c]) =>
          Loads(c, request[c], reply[c], sent[c], history, request'[c], reply'[c], sent'[c], history')
    BY <1>1, <1>2 DEF Loads, e, s
  <1>6. StepOf(c)
    BY <1>4, <1>5 DEF StepOf, ClientStep
  <1>. QED
    BY <1>1, <1>4, <1>6, OthersStay

(* A publication of a program is about an aggregate. *)
LEMMA PublicationFacts ==
  ASSUME NEW p \in Seq(PublicationOf(Event)), NEW k \in Nat, k < Len(p)
  PROVE  /\ p[k + 1].aggregate \in Aggregate /\ p[k + 1].events \in Seq(Event)
         /\ Len(p) \in Nat
  <1>. DEFINE q == p[k + 1]
  <1>1. q \in PublicationOf(Event) /\ Len(p) \in Nat
    BY SMT
  <1>. HIDE DEF q
  <1>2. q.aggregate \in Aggregate /\ q.events \in Seq(Event)
    BY <1>1 DEF PublicationOf
  <1>. QED
    BY <1>1, <1>2 DEF q

(* A publication is recorded, on whatever revision: its reply may be lost. *)
Records(c) ==
  /\ Publishing(c)
  /\ history' = IF Publication(c).events = <<>> THEN history
                 ELSE Added(history, Publication(c).aggregate, Recorded(c, Publication(c)))
  /\ PublishReturns(c) \/ PublishFails(c)
  /\ UNCHANGED sent

(* Publish publishes, whether its reply is lost or not. *)
LEMMA PublishKind ==
  ASSUME TypeInv, NEW c \in Client, Records(c)
  PROVE  Shape /\ \A d \in Client : StepOf(d)
  <1>. DEFINE r == request[c]
              next == OneDone(r, "handle")
              publication == r.program[r.done + 1]
              e == [by |-> c, request |-> sent[c], events |-> publication.events]
              rr == request'[c]
              pp == reply'[c]
              p == reply[c]
              n == sent[c]
  <1>1. r.step = "handle" /\ sent' = sent /\ sent \in [Client -> Nat] /\ RequestOK(c, r)
    BY TypeFacts DEF Records, Publishing, At, TypeInv
  <1>2. IsRequest(r) /\ r.done \in Nat /\ r.done < Len(r.program) /\ Len(r.program) \in Nat
    BY <1>1 DEF RequestOK
  <1>3. publication.aggregate \in Aggregate /\ publication.events \in Seq(Event)
    BY <1>1, <1>2, PublicationFacts DEF RequestOK
  <1>4. history' = IF publication.events = <<>> THEN history
                   ELSE Added(history, publication.aggregate, e)
    BY DEF Records, Publication, Recorded
  <1>5. e \in ChangeSet /\ e.by = c
    <2>. HIDE DEF publication
    <2>. QED
      BY <1>1, <1>3 DEF ChangeSet
  <1>6. history' = history \/ \E a \in Aggregate, ee \in ChangeSet :
                                 ee.by = c /\ history' = Added(history, a, ee)
    <2>. HIDE DEF publication, e
    <2>. QED
      BY <1>3, <1>4, <1>5
  <1>7. PublishReturns(c) \/ Fail(c)
    BY DEF Records, PublishFails
  <1>8. PublishReturns(c) => Proceed(c, next)
    <2>1. PublishReturns(c) => Proceed(c, Returned(r))
      BY DEF PublishReturns, Publication, Returned
    <2>. HIDE DEF r
    <2>2. Returned(r) = OneDone(r, r.step)
      BY <1>2, OneDoneIs
    <2>. QED
      BY <1>1, <2>1, <2>2
  <1>9. /\ Alone(c)
        /\ \/ rr = Idle /\ pp = AnswerTo(r, "error", NoEntity)
           \/ r.done + 1 < Len(r.program) /\ rr = OneDone(r, "handle") /\ pp = p
           \/ r.done + 1 = Len(r.program) /\ HasPublished(r) /\ rr = OneDone(r, "reload") /\ pp = p
           \/ /\ r.done + 1 = Len(r.program) /\ ~HasPublished(r) /\ rr = Idle
              /\ \E status \in Successes : pp = AnswerTo(r, status, r.entity)
    <2>1. CASE Fail(c)
      BY <2>1, FailStep
    <2>2. CASE Proceed(c, next)
      <3>1. /\ IsRequest(next) /\ next.done = r.done + 1 /\ next.program = r.program
            /\ next.entity = r.entity
        BY DEF OneDone, IsRequest
      <3>2. next.published = HasPublished(r)
        BY DEF OneDone
      <3>3. [next EXCEPT !.step = "reload"] = OneDone(r, "reload")
        <4>. HIDE DEF r
        <4>. QED
          BY <1>1, <1>2, OneDoneIs
      <3>. HIDE DEF next, r, rr, pp, p
      <3>4. /\ Alone(c)
            /\ \/ next.done < Len(next.program) /\ rr = next /\ pp = p
               \/ rr = Idle /\ pp = AnswerTo(r, "error", NoEntity)
               \/ /\ ~(next.done < Len(next.program)) /\ next.published /\ pp = p
                  /\ rr = [next EXCEPT !.step = "reload"]
               \/ /\ ~(next.done < Len(next.program)) /\ ~next.published /\ rr = Idle
                  /\ \E status \in Successes : pp = AnswerTo(r, status, next.entity)
        BY <2>2, <3>1, ProceedStep DEF rr, pp, p, r
      <3>5. ~(next.done < Len(next.program)) => r.done + 1 = Len(r.program)
        BY <1>2, <3>1
      <3>6. next.done < Len(next.program) => r.done + 1 < Len(r.program)
        BY <3>1
      <3>. QED
        BY <3>1, <3>2, <3>3, <3>4, <3>5, <3>6 DEF next
    <2>. QED
      BY <1>7, <1>8, <2>1, <2>2
  <1>10. StepOf(c)
    <2>1. Publishes(c, r, p, n, history, rr, pp, sent'[c], history')
      <3>. HIDE DEF rr, pp, p
      <3>. QED
        BY <1>1, <1>4, <1>9 DEF Publishes
    <2>. QED
      BY <2>1 DEF StepOf, ClientStep
  <1>. QED
    BY <1>1, <1>6, <1>9, <1>10, OthersStay DEF Shape, Alone

(* StoreFails fails. *)
LEMMA StoreFailsKind ==
  ASSUME TypeInv, NEW c \in Client, StoreFails(c)
  PROVE  Shape /\ \A d \in Client : StepOf(d)
  <1>1. /\ request[c].step # "idle" /\ Fail(c) /\ sent' = sent /\ history' = history
        /\ sent \in [Client -> Nat]
    BY DEF StoreFails, Loading, Publishing, At, LoadFails, PublishFails, TypeInv
  <1>2. Alone(c) /\ request'[c] = Idle /\ reply'[c] = AnswerTo(request[c], "error", NoEntity)
    BY <1>1, FailStep
  <1>3. StepOf(c)
    BY <1>1, <1>2 DEF StepOf, ClientStep, Fails
  <1>. QED
    BY <1>1, <1>2, <1>3, OthersStay DEF Shape, Alone

(* A process that stops fails the requests it works on. *)
LEMMA StopKind ==
  ASSUME TypeInv, ProcessStops
  PROVE  Shape /\ \A d \in Client : StepOf(d)
  <1>1. PICK users \in SUBSET Client : Stop(users)
    BY DEF ProcessStops
  <1>2. sent' = sent /\ history' = history /\ sent \in [Client -> Nat]
    BY DEF ProcessStops, TypeInv
  <1>3. Shape
    BY <1>1, <1>2 DEF Stop, Shape
  <1>4. ASSUME NEW d \in Client PROVE StepOf(d)
    <2>1. CASE d \in users /\ request[d].step # "idle"
      <3>1. /\ request'[d] = Idle
            /\ reply'[d] = [NoReply EXCEPT !.status = "error", !.command = request[d].command,
                              !.program = request[d].program, !.since = request[d].since]
        BY <1>1, <2>1 DEF Stop, At
      <3>2. reply'[d] = AnswerTo(request[d], "error", NoEntity)
        BY <3>1, LostReplyIs DEF LostReply
      <3>. QED
        BY <1>2, <2>1, <3>1, <3>2 DEF StepOf, ClientStep, Fails
    <2>2. CASE ~(d \in users /\ request[d].step # "idle")
      <3>1. request'[d] = request[d] /\ reply'[d] = reply[d]
        BY <1>1, <2>2 DEF Stop, At
      <3>. QED
        BY <1>2, <3>1 DEF StepOf, ClientStep, Stays
    <2>. QED
      BY <2>1, <2>2
  <1>. QED
    BY <1>3, <1>4

(* Nothing happens. *)
LEMMA NoKind ==
  ASSUME TypeInv, UNCHANGED vars
  PROVE  Shape /\ \A d \in Client : StepOf(d)
  BY DEF vars, TypeInv, Shape, StepOf, ClientStep, Stays

(* So every step is one of these for every client. *)
LEMMA StepKinds ==
  ASSUME HandlersArePrograms, TypeInv, [Next]_vars
  PROVE  Shape /\ \A d \in Client : StepOf(d)
  <1>1. \A c : Publish(c) => Records(c)
    BY DEF Publish, Records, Added
  <1>2. CASE Next
    BY <1>1, <1>2, SendKinds, LoadKind, PublishKind, StoreFailsKind, StopKind DEF Next
  <1>3. CASE UNCHANGED vars
    BY <1>3, NoKind
  <1>. QED
    BY <1>2, <1>3

-----------------------------------------------------------------------------
(* The log a client's step leaves. *)
LEMMA LogFacts ==
  ASSUME NEW c \in Client, NEW r, NEW p, NEW n \in Nat, NEW rr, NEW pp, NEW nn, NEW hh,
         NEW h \in [Aggregate -> Seq(ChangeSet)], RequestOK(c, r),
         RecordingStep(c, r, p, n, h, rr, pp, nn, hh)
  PROVE  \/ hh = h
         \/ \E a \in Aggregate, e \in ChangeSet :
              /\ hh = Added(h, a, e)
              /\ e.by = c => e.request = n /\ r.step = "handle"
  <1>1. CASE Publishes(c, r, p, n, h, rr, pp, nn, hh)
    <2>. DEFINE publication == r.program[r.done + 1]
                e == [by |-> c, request |-> n, events |-> publication.events]
    <2>1. publication.aggregate \in Aggregate /\ publication.events \in Seq(Event)
      BY <1>1, PublicationFacts DEF RequestOK, Publishes
    <2>2. hh = h \/ hh = Added(h, publication.aggregate, e)
      BY <1>1 DEF Publishes
    <2>3. r.step = "handle"
      BY <1>1 DEF Publishes
    <2>4. e \in ChangeSet /\ e.request = n
      <3>. HIDE DEF publication
      <3>. QED
        BY <2>1 DEF ChangeSet
    <2>. HIDE DEF publication, e
    <2>. QED
      BY <2>1, <2>2, <2>3, <2>4
  <1>2. CASE Stays(c, r, p, n, h, rr, pp, nn, hh)
    BY <1>2 DEF Stays
  <1>3. CASE hh = h
    BY <1>3
  <1>. QED
    BY <1>1, <1>2, <1>3 DEF RecordingStep, Asks, Fails, LoadsAny

(* A change set is added to one log. *)
LEMMA AddedFacts ==
  ASSUME NEW h \in [Aggregate -> Seq(ChangeSet)], NEW a \in Aggregate, NEW e \in ChangeSet
  PROVE  /\ Added(h, a, e) \in [Aggregate -> Seq(ChangeSet)]
         /\ Added(h, a, e)[a] = Append(h[a], e)
         /\ \A b \in Aggregate : b # a => Added(h, a, e)[b] = h[b]
  <1>1. h[a] \in Seq(ChangeSet)
    OBVIOUS
  <1>2. Append(h[a], e) \in Seq(ChangeSet)
    BY <1>1
  <1>. QED
    BY <1>2 DEF Added

(* No request is one of the shapes a request has. *)
LEMMA IdleOK == ASSUME NEW c \in Client PROVE RequestOK(c, Idle)
  <1>1. Idle.step = "idle" /\ Idle.program = <<>> /\ Idle.done = 0 /\ Idle.since = 0
        /\ ~Idle.published /\ Idle.published \in BOOLEAN
    BY DEF Idle
  <1>2. IsRequest(Idle)
    BY DEF Idle, IsRequest
  <1>3. <<>> \in Seq(PublicationOf(Event)) /\ Len(<<>>) = 0
    OBVIOUS
  <1>. QED
    BY <1>1, <1>2, <1>3 DEF RequestOK

(* A request keeps its shape. *)
LEMMA RequestStep ==
  ASSUME NEW c \in Client, NEW r, NEW p, NEW n \in Nat, NEW rr, NEW pp, NEW nn, NEW hh,
         NEW h \in [Aggregate -> Seq(ChangeSet)], RequestOK(c, r),
         RecordingStep(c, r, p, n, h, rr, pp, nn, hh)
  PROVE  RequestOK(c, rr)
  <1>1. CASE rr = Idle
    BY <1>1, IdleOK
  <1>2. CASE rr = r
    BY <1>2
  <1>3. CASE Asks(c, r, p, n, h, rr, pp, nn, hh) /\ rr # Idle
    <2>. DEFINE l == Len(h[AggregateOf[c]])
    <2>1. l \in Nat
      BY ServiceAssumption DEF ServiceAssumption
    <2>. HIDE DEF l
    <2>2. PICK step, command : /\ rr = Sent(step, command, l) /\ step \in {"get", "load"}
                               /\ step = "load" => command \in RequestsOf[c] \ {Query}
      BY <1>3 DEF Asks, l
    <2>3. /\ IsRequest(rr) /\ rr.step = step /\ rr.command = command /\ rr.program = <<>>
          /\ rr.done = 0 /\ ~rr.published /\ rr.published \in BOOLEAN /\ rr.since = l
      BY <2>2 DEF Sent, IsRequest
    <2>4. <<>> \in Seq(PublicationOf(Event)) /\ Len(<<>>) = 0
      OBVIOUS
    <2>. QED
      BY <2>1, <2>2, <2>3, <2>4 DEF RequestOK
  <1>4. CASE LoadsAny(r, p, n, h, rr, pp, nn, hh) /\ rr # Idle
    <2>0. PICK publications \in Seq(PublicationOf(Event)) :
            \E entity, fails : /\ r.step = "load" /\ publications # <<>>
                              /\ rr = Handling(r, entity, publications, fails)
      BY <1>4 DEF LoadsAny, Receives
    <2>1. PICK entity, fails : /\ r.step = "load" /\ publications # <<>>
                               /\ rr = Handling(r, entity, publications, fails)
      BY <2>0
    <2>2. /\ IsRequest(rr) /\ rr.step = "handle" /\ rr.program = publications
          /\ rr.done = r.done /\ rr.published = r.published /\ rr.since = r.since
      BY <2>1 DEF Handling, IsRequest
    <2>3. Len(publications) \in Nat /\ Len(publications) # 0
      BY <2>1
    <2>. QED
      BY <2>1, <2>2, <2>3 DEF RequestOK
  <1>5. CASE Publishes(c, r, p, n, h, rr, pp, nn, hh) /\ rr # Idle
    <2>1. PICK step : /\ rr = OneDone(r, step)
                      /\ \/ step = "handle" /\ r.done + 1 < Len(r.program)
                         \/ step = "reload" /\ r.done + 1 = Len(r.program)
      BY <1>5 DEF Publishes
    <2>2. /\ IsRequest(rr) /\ rr.step = step /\ rr.program = r.program
          /\ rr.done = r.done + 1 /\ rr.since = r.since
      BY <2>1 DEF OneDone, IsRequest
    <2>3. rr.published \in BOOLEAN
      BY <2>1 DEF OneDone, HasPublished, RequestOK
    <2>. QED
      BY <2>1, <2>2, <2>3 DEF RequestOK
  <1>. QED
    BY <1>1, <1>2, <1>3, <1>4, <1>5 DEF RecordingStep, Stays, Fails

(* TypeInv holds initially. *)
LEMMA TypeInit ==
  ASSUME Init PROVE TypeInv
  <1>1. /\ request = [c \in Client |-> Idle] /\ reply = [c \in Client |-> NoReply]
        /\ sent = [c \in Client |-> 0] /\ history = [a \in Aggregate |-> <<>>]
    BY DEF Init, InitService
  <1>2. history \in [Aggregate -> Seq(ChangeSet)]
    BY <1>1
  <1>. QED
    BY <1>1, <1>2, IdleOK DEF TypeInv

(* The step of each client, as far as it matters to what is recorded. *)
RecordingStepOf(c) ==
  RecordingStep(c, request[c], reply[c], sent[c], history, request'[c], reply'[c], sent'[c], history')

Recording ==
  /\ Shape /\ \A c \in Client : RecordingStepOf(c)
  /\ Client = {} => history' = history

(* Such steps keep the types. *)
LEMMA RecordingKeepsTypes ==
  ASSUME TypeInv, Recording
  PROVE  TypeInv'
  <1>1. Shape /\ \A d \in Client : RecordingStepOf(d)
    BY DEF Recording
  <1>2. \A d \in Client : RequestOK(d, request'[d])
    <2>1. SUFFICES ASSUME NEW d \in Client PROVE RequestOK(d, request'[d])
      OBVIOUS
    <2>. QED
      BY <1>1, TypeFacts, RequestStep DEF RecordingStepOf, TypeInv
  <1>3. history' \in [Aggregate -> Seq(ChangeSet)]
    <2>1. CASE Client = {}
      BY <2>1 DEF Recording, TypeInv
    <2>2. CASE Client # {}
      <3>1. PICK c \in Client : TRUE
        BY <2>2
      <3>2. \/ history' = history
            \/ \E a \in Aggregate, e \in ChangeSet : history' = Added(history, a, e)
        BY <1>1, <3>1, TypeFacts, LogFacts DEF RecordingStepOf, TypeInv
      <3>. QED
        BY <3>2, AddedFacts DEF TypeInv
    <2>. QED
      BY <2>1, <2>2
  <1>4. \A c \in Client : RequestOK(c, request[c])'
    BY <1>2
  <1>. QED
    BY <1>1, <1>3, <1>2 DEF TypeInv, Shape

(* The steps of ServiceOnLog are such steps. *)
LEMMA NextRecords ==
  ASSUME HandlersArePrograms, TypeInv, [Next]_vars
  PROVE  Recording
  <1>1. Shape /\ \A d \in Client : StepOf(d)
    BY StepKinds
  <1>2. \A d \in Client : RecordingStepOf(d)
    BY <1>1, ClientStepRecords DEF StepOf, RecordingStepOf
  <1>3. Client = {} => history' = history
    BY DEF Next, ProcessStops, vars
  <1>. QED
    BY <1>1, <1>2, <1>3 DEF Recording

(* So are those of the service whatever its loads return. *)
LEMMA ServiceRecords ==
  ASSUME HandlersArePrograms, TypeInv, NEW c \in Client, NEW entity,
         \/ Get(c) \/ Post(c) \/ StoreFails(c) \/ Records(c)
         \/ Loading(c) /\ EntityReturns(c, entity) /\ UNCHANGED <<sent, history>>
  PROVE  Recording
  <1>1. CASE Get(c) \/ Post(c) \/ StoreFails(c) \/ Records(c)
    <2>1. Shape /\ \A d \in Client : StepOf(d)
      BY <1>1, SendKinds, StoreFailsKind, PublishKind
    <2>. QED
      BY <2>1, ClientStepRecords DEF StepOf, RecordingStepOf, Recording
  <1>2. CASE Loading(c) /\ EntityReturns(c, entity) /\ UNCHANGED <<sent, history>>
    <2>1. /\ Shape /\ Alone(c)
          /\ \/ Fails(c, request[c], reply[c], sent[c], history,
                      request'[c], reply'[c], sent'[c], history')
             \/ Receives(entity, request[c], reply[c], request'[c], reply'[c])
      BY <1>2, EntityKind
    <2>2. RecordingStepOf(c)
      BY <1>2, <2>1 DEF RecordingStepOf, RecordingStep, LoadsAny
    <2>3. \A d \in Client \ {c} : StepOf(d)
      BY <1>2, <2>1, OthersStay
    <2>. QED
      BY <1>2, <2>1, <2>2, <2>3, ClientStepRecords DEF StepOf, RecordingStepOf, Recording
  <1>. QED
    BY <1>1, <1>2

LEMMA EnvironmentRecords ==
  ASSUME TypeInv, ProcessStops \/ UNCHANGED vars
  PROVE  Recording
  <1>1. Shape /\ \A d \in Client : StepOf(d)
    BY StopKind, NoKind
  <1>2. history' = history
    BY DEF ProcessStops, vars
  <1>. QED
    BY <1>1, <1>2, ClientStepRecords DEF StepOf, RecordingStepOf, Recording

(* TypeInv is inductive. *)
LEMMA TypeStep ==
  ASSUME HandlersArePrograms, TypeInv, [Next]_vars
  PROVE  TypeInv'
  BY NextRecords, RecordingKeepsTypes

-----------------------------------------------------------------------------
(***************************************************************************)
(* Commands take effect in order.  While a command is under way, what is   *)
(* recorded for it are its publications so far; later requests have        *)
(* recorded nothing.                                                       *)
(***************************************************************************)
Took(c, n, h, publications, k) ==
  \A a \in Aggregate : EventsFor(h[a], c, n) = EventsFrom(SubSeq(publications, 1, k), a)

OrderOf(c, r, p, n, h) ==
  /\ \A m \in Nat : m > n => \A a \in Aggregate : EventsFor(h[a], c, m) = <<>>
  /\ r.step # "idle" => Took(c, n, h, r.program, r.done)
  /\ r.step = "idle" /\ p.status # "none" =>
       \E k \in 0 .. Len(p.program) :
         /\ p.status \in Successes => k = Len(p.program)
         /\ Took(c, n, h, p.program, k)

OrderInv == \A c \in Client : OrderOf(c, request[c], reply[c], sent[c], history)

(* What others record is not recorded for c. *)
LEMMA EventsForOthers ==
  ASSUME NEW h \in [Aggregate -> Seq(ChangeSet)], NEW a \in Aggregate, NEW e \in ChangeSet,
         NEW c, NEW n, ~OfRequest(e, c, n), NEW b \in Aggregate
  PROVE  EventsFor(Added(h, a, e)[b], c, n) = EventsFor(h[b], c, n)
  <1>1. CASE b = a
    <2>. DEFINE x == EventsFor(h[a], c, n)
    <2>1. EventsFor(Append(h[a], e), c, n) = x \o <<>> /\ x \in Seq(Event)
      BY EventsForAppend
    <2>. HIDE DEF x
    <2>2. x \o <<>> = x
      BY <2>1
    <2>. QED
      BY <1>1, <2>1, <2>2, AddedFacts DEF x
  <1>2. CASE b # a
    BY <1>2, AddedFacts
  <1>. QED
    BY <1>1, <1>2

(* A publication adds its events. *)
LEMMA TookNext ==
  ASSUME NEW c \in Client, NEW n \in Nat, NEW h \in [Aggregate -> Seq(ChangeSet)], NEW hh,
         NEW p \in Seq(PublicationOf(Event)), NEW k \in Nat, k < Len(p), Took(c, n, h, p, k),
         hh = IF p[k + 1].events = <<>> THEN h
              ELSE Added(h, p[k + 1].aggregate,
                         [by |-> c, request |-> n, events |-> p[k + 1].events])
  PROVE  /\ Took(c, n, hh, p, k + 1)
         /\ \A m \in Nat : m > n => \A a \in Aggregate :
              EventsFor(hh[a], c, m) = EventsFor(h[a], c, m)
  <1>. DEFINE q == p[k + 1]
              e == [by |-> c, request |-> n, events |-> q.events]
              x(a) == EventsFor(h[a], c, n)
              y(a) == EventsFrom(SubSeq(p, 1, k), a)
              yy(a) == EventsFrom(SubSeq(p, 1, k + 1), a)
  <1>1. q.aggregate \in Aggregate /\ q.events \in Seq(Event)
    BY PublicationFacts
  <1>2. \A a \in Aggregate : /\ x(a) = y(a) /\ x(a) \in Seq(Event)
                             /\ yy(a) = y(a) \o (IF q.aggregate = a THEN q.events ELSE <<>>)
    <2>. SUFFICES ASSUME NEW a \in Aggregate
                  PROVE  /\ x(a) = y(a) /\ x(a) \in Seq(Event)
                         /\ yy(a) = y(a) \o (IF q.aggregate = a THEN q.events ELSE <<>>)
      OBVIOUS
    <2>1. x(a) = y(a)
      BY DEF Took
    <2>2. x(a) \in Seq(Event)
      <3>1. h[a] \in Seq(ChangeSet)
        OBVIOUS
      <3>2. PICK ee \in Seq(ChangeSet) : ee = h[a]
        BY <3>1
      <3>3. EventsFor(ee, c, n) \in Seq(Event)
        BY EventsForType
      <3>. QED
        BY <3>2, <3>3
    <2>3. yy(a) = y(a) \o (IF q.aggregate = a THEN q.events ELSE <<>>)
      BY EventsFromNext
    <2>. QED
      BY <2>1, <2>2, <2>3
  <1>3. e \in ChangeSet /\ OfRequest(e, c, n) /\ e.events = q.events
        /\ \A m \in Nat : m > n => ~OfRequest(e, c, m)
    <2>. HIDE DEF q
    <2>. QED
      BY <1>1 DEF ChangeSet, OfRequest
  <1>4. hh = IF q.events = <<>> THEN h ELSE Added(h, q.aggregate, e)
    OBVIOUS
  <1>. HIDE DEF q, e
  <1>5. \A s \in Seq(Event) : s \o <<>> = s
    OBVIOUS
  <1>6. CASE q.events = <<>>
    <2>1. hh = h
      BY <1>4, <1>6
    <2>2. ASSUME NEW a \in Aggregate PROVE x(a) = yy(a)
      <3>. HIDE DEF x, y, yy
      <3>. QED
        BY <1>2, <1>5, <1>6
    <2>. QED
      BY <2>1, <2>2 DEF Took
  <1>7. CASE q.events # <<>>
    <2>1. hh = Added(h, q.aggregate, e)
      BY <1>4, <1>7
    <2>2. ASSUME NEW a \in Aggregate PROVE EventsFor(hh[a], c, n) = yy(a)
      <3>1. CASE a = q.aggregate
        <4>1. hh[a] = Append(h[a], e)
          <5>. HIDE DEF x, y, yy
          <5>1. Added(h, a, e)[a] = Append(h[a], e)
            BY <1>3, AddedFacts
          <5>. QED
            BY <2>1, <3>1, <5>1
        <4>2. EventsFor(Append(h[a], e), c, n) = EventsFor(h[a], c, n) \o e.events
          BY <1>3, EventsForAppend
        <4>3. EventsFor(hh[a], c, n) = x(a) \o q.events
          BY <1>3, <4>1, <4>2
        <4>. HIDE DEF x, y, yy
        <4>. QED
          BY <1>2, <3>1, <4>3
      <3>2. CASE a # q.aggregate
        <4>1. EventsFor(hh[a], c, n) = x(a)
          BY <1>1, <1>3, <2>1, <3>2, AddedFacts
        <4>. HIDE DEF x, y, yy
        <4>. QED
          BY <1>2, <1>5, <3>2, <4>1
      <3>. QED
        BY <3>1, <3>2
    <2>3. \A m \in Nat : m > n => \A a \in Aggregate : EventsFor(hh[a], c, m) = EventsFor(h[a], c, m)
      BY <1>1, <1>3, <2>1, EventsForOthers
    <2>. QED
      BY <2>2, <2>3 DEF Took
  <1>. QED
    BY <1>6, <1>7

(* OrderOf is preserved by every kind of step. *)
LEMMA OrderStep ==
  ASSUME NEW c \in Client, NEW r, NEW p, NEW n \in Nat, NEW rr, NEW pp, NEW nn, NEW hh,
         NEW h \in [Aggregate -> Seq(ChangeSet)], RequestOK(c, r), OrderOf(c, r, p, n, h),
         RecordingStep(c, r, p, n, h, rr, pp, nn, hh)
  PROVE  OrderOf(c, rr, pp, nn, hh)
  <1>0. /\ Idle.step = "idle" /\ Idle.program = <<>> /\ NoReply.status = "none"
        /\ \A s, d : AnswerTo(Idle, s, d).program = <<>>
        /\ \A s, d : AnswerTo(r, s, d).program = r.program /\ AnswerTo(r, s, d).status = s
        /\ Len(r.program) \in Nat /\ r.done \in Nat /\ r.done <= Len(r.program)
    BY DEF Idle, NoReply, AnswerTo, RequestOK
  <1>1. CASE Stays(c, r, p, n, h, rr, pp, nn, hh)
    <2>1. rr = r /\ pp = p /\ nn = n
      BY <1>1 DEF Stays
    <2>2. \A m, a : a \in Aggregate => EventsFor(hh[a], c, m) = EventsFor(h[a], c, m)
      <3>1. CASE hh = h
        BY <3>1
      <3>2. CASE \E b \in Aggregate, e \in ChangeSet : e.by # c /\ hh = Added(h, b, e)
        <4>1. PICK b \in Aggregate, e \in ChangeSet : e.by # c /\ hh = Added(h, b, e)
          BY <3>2
        <4>. SUFFICES ASSUME NEW m, NEW a \in Aggregate
                      PROVE  EventsFor(hh[a], c, m) = EventsFor(h[a], c, m)
          OBVIOUS
        <4>2. ~OfRequest(e, c, m)
          BY <4>1 DEF OfRequest
        <4>3. EventsFor(Added(h, b, e)[a], c, m) = EventsFor(h[a], c, m)
          BY <4>2, EventsForOthers
        <4>. QED
          BY <4>1, <4>3
      <3>. QED
        BY <1>1, <3>1, <3>2 DEF Stays
    <2>. QED
      BY <2>1, <2>2 DEF OrderOf, Took
  <1>2. CASE Asks(c, r, p, n, h, rr, pp, nn, hh)
    <2>1. nn = n + 1 /\ hh = h
      BY <1>2 DEF Asks
    <2>2. Took(c, nn, hh, <<>>, 0)
      <3>1. \A a \in Aggregate : EventsFor(h[a], c, nn) = <<>>
        BY <2>1 DEF OrderOf
      <3>2. <<>> \in Seq(PublicationOf(Event))
        OBVIOUS
      <3>. QED
        BY <2>1, <3>1, <3>2, EventsFromNone DEF Took
    <2>3. \A m \in Nat : m > nn => \A a \in Aggregate : EventsFor(hh[a], c, m) = <<>>
      BY <2>1 DEF OrderOf
    <2>4. CASE pp = NoReply
      <3>1. \E step, command, since : rr = Sent(step, command, since) /\ step # "idle"
        BY <1>2, <1>0, <2>4 DEF Asks, AnswerTo, NoReply
      <3>2. rr.step # "idle" /\ rr.program = <<>> /\ rr.done = 0
        BY <3>1 DEF Sent
      <3>. QED
        BY <2>2, <2>3, <3>2 DEF OrderOf
    <2>5. CASE rr = Idle /\ pp = AnswerTo(Idle, "rejected", NoEntity)
      <3>1. rr.step = "idle" /\ pp.program = <<>> /\ pp.status = "rejected" /\ Len(<<>>) = 0
        BY <1>0, <2>5 DEF AnswerTo
      <3>2. 0 \in 0 .. Len(pp.program) /\ ~(pp.status \in Successes) /\ Took(c, nn, hh, pp.program, 0)
        BY <2>2, <3>1 DEF Successes
      <3>. QED
        BY <2>3, <3>1, <3>2 DEF OrderOf
    <2>. QED
      BY <1>2, <2>4, <2>5 DEF Asks
  <1>3. CASE Fails(c, r, p, n, h, rr, pp, nn, hh)
    <2>1. rr.step = "idle" /\ pp.program = r.program /\ pp.status = "error" /\ nn = n /\ hh = h
          /\ r.step # "idle"
      BY <1>0, <1>3 DEF Fails
    <2>2. r.done \in 0 .. Len(pp.program) /\ ~(pp.status \in Successes)
      BY <1>0, <2>1 DEF Successes
    <2>. QED
      BY <2>1, <2>2 DEF OrderOf
  <1>4. CASE LoadsAny(r, p, n, h, rr, pp, nn, hh)
    <2>1. nn = n /\ hh = h /\ r.step # "idle" /\ r.done = Len(r.program)
      BY <1>4 DEF LoadsAny, Receives, RequestOK
    <2>2. CASE rr = Idle
      <3>1. rr.step = "idle" /\ pp.program = r.program
        BY <1>0, <1>4, <2>2 DEF LoadsAny, Receives, Handling
      <3>. QED
        BY <1>0, <2>1, <3>1 DEF OrderOf
    <2>3. CASE rr # Idle
      <3>1. PICK publications \in Seq(PublicationOf(Event)) :
              \E entity, fails : r.step = "load" /\ rr = Handling(r, entity, publications, fails)
        BY <1>4, <2>3 DEF LoadsAny, Receives
      <3>2. rr.step = "handle" /\ rr.program = publications /\ rr.done = 0 /\ r.done = 0
        BY <3>1 DEF Handling, RequestOK
      <3>3. Took(c, n, h, publications, 0)
        <4>1. Took(c, n, h, r.program, 0) /\ r.program \in Seq(PublicationOf(Event))
          BY <2>1, <3>2 DEF OrderOf, RequestOK
        <4>. QED
          BY <4>1, EventsFromNone DEF Took
      <3>. QED
        BY <2>1, <3>2, <3>3 DEF OrderOf
    <2>. QED
      BY <2>2, <2>3
  <1>5. CASE Publishes(c, r, p, n, h, rr, pp, nn, hh)
    <2>1. /\ nn = n /\ r.step # "idle" /\ r.done < Len(r.program)
          /\ r.program \in Seq(PublicationOf(Event))
      BY <1>5 DEF Publishes, RequestOK
    <2>2. /\ Took(c, n, hh, r.program, r.done + 1)
          /\ \A m \in Nat : m > n => \A a \in Aggregate :
               EventsFor(hh[a], c, m) = EventsFor(h[a], c, m)
      <3>. DEFINE s == r.program
                  k == r.done
      <3>1. /\ s \in Seq(PublicationOf(Event)) /\ k \in Nat /\ k < Len(s) /\ Took(c, n, h, s, k)
            /\ hh = IF s[k + 1].events = <<>> THEN h
                    ELSE Added(h, s[k + 1].aggregate,
                               [by |-> c, request |-> n, events |-> s[k + 1].events])
        BY <1>0, <1>5, <2>1 DEF Publishes, OrderOf
      <3>. HIDE DEF s, k
      <3>2. Took(c, n, hh, s, k + 1)
        BY <3>1, TookNext
      <3>3. \A m \in Nat : m > n => \A a \in Aggregate :
               EventsFor(hh[a], c, m) = EventsFor(h[a], c, m)
        BY <3>1, TookNext
      <3>. QED
        BY <3>2, <3>3 DEF s, k
    <2>3. \A m \in Nat : m > n => \A a \in Aggregate : EventsFor(hh[a], c, m) = <<>>
      BY <2>2 DEF OrderOf
    <2>4. CASE rr = Idle
      <3>1. /\ rr.step = "idle" /\ pp.program = r.program
            /\ pp.status \in Successes => r.done + 1 = Len(r.program)
        <4>1. \A step : OneDone(r, step).step = step
          BY DEF OneDone
        <4>2. \/ pp = AnswerTo(r, "error", NoEntity)
              \/ r.done + 1 = Len(r.program) /\ \E status : pp = AnswerTo(r, status, r.entity)
          BY <1>0, <1>5, <2>4, <4>1 DEF Publishes
        <4>. QED
          <5>1. CASE pp = AnswerTo(r, "error", NoEntity)
            <6>1. pp.status = "error" /\ pp.program = r.program /\ rr.step = "idle"
              BY <1>0, <2>4, <5>1
            <6>. QED
              BY <6>1 DEF Successes
          <5>2. CASE r.done + 1 = Len(r.program) /\ \E status : pp = AnswerTo(r, status, r.entity)
            BY <1>0, <2>4, <5>2
          <5>. QED
            BY <4>2, <5>1, <5>2
      <3>2. r.done + 1 \in 0 .. Len(r.program)
        BY <1>0, <2>1
      <3>. QED
        BY <2>1, <2>2, <2>3, <3>1, <3>2 DEF OrderOf
    <2>5. CASE rr # Idle
      <3>1. PICK step : rr = OneDone(r, step) /\ step \in {"handle", "reload"}
        BY <1>5, <2>5 DEF Publishes
      <3>2. rr.step # "idle" /\ rr.program = r.program /\ rr.done = r.done + 1
        BY <3>1 DEF OneDone
      <3>. QED
        BY <2>1, <2>2, <2>3, <3>2 DEF OrderOf
    <2>. QED
      BY <2>4, <2>5
  <1>. QED
    BY <1>1, <1>2, <1>3, <1>4, <1>5 DEF RecordingStep

(* It is inductive. *)
LEMMA RecordingKeepsOrder ==
  ASSUME TypeInv, OrderInv, Recording
  PROVE  OrderInv'
  <1>1. ASSUME NEW c \in Client PROVE OrderOf(c, request'[c], reply'[c], sent'[c], history')
    <2>1. /\ RecordingStepOf(c) /\ OrderOf(c, request[c], reply[c], sent[c], history)
          /\ history \in [Aggregate -> Seq(ChangeSet)] /\ sent[c] \in Nat /\ RequestOK(c, request[c])
      BY TypeFacts DEF Recording, OrderInv, TypeInv
    <2>. QED
      BY <2>1, OrderStep DEF RecordingStepOf
  <1>. QED
    BY <1>1 DEF OrderInv

(* The property in these terms. *)
LEMMA RecordedInIs ==
  ASSUME NEW c, NEW n, NEW a \in Aggregate
  PROVE  RecordedIn(c, n, a) = EventsFor(history[a], c, n)
  <1>. DEFINE h == history[a]
  <1>1. \A i \in DOMAIN h : i \in RecordedFor(c, n, a) <=> OfRequest(h[i], c, n)
    BY DEF RecordedFor, OfRequest
  <1>. HIDE DEF h
  <1>2. [i \in DOMAIN h |-> IF i \in RecordedFor(c, n, a) THEN h[i].events ELSE <<>>]
        = [i \in DOMAIN h |-> IF OfRequest(h[i], c, n) THEN h[i].events ELSE <<>>]
    BY <1>1
  <1>3. RecordedIn(c, n, a) =
          FlattenSeq([i \in DOMAIN h |-> IF i \in RecordedFor(c, n, a) THEN h[i].events ELSE <<>>])
    BY DEF RecordedIn, h
  <1>4. EventsFor(h, c, n) =
          FlattenSeq([i \in DOMAIN h |-> IF OfRequest(h[i], c, n) THEN h[i].events ELSE <<>>])
    BY DEF EventsFor
  <1>. QED
    BY <1>2, <1>3, <1>4 DEF h

(* It implies the property. *)
LEMMA OrderImplies ==
  ASSUME OrderInv PROVE CommandsTakeEffectInOrder
  <1>1. SUFFICES ASSUME NEW c \in Client, Answered(c)
                 PROVE  \E k \in 0 .. Len(reply[c].program) :
                          /\ Succeeded(c) => k = Len(reply[c].program)
                          /\ \A a \in Aggregate :
                               RecordedIn(c, sent[c], a) = EventsIn(SubSeq(reply[c].program, 1, k), a)
    BY DEF CommandsTakeEffectInOrder
  <1>2. PICK k \in 0 .. Len(reply[c].program) :
          /\ reply[c].status \in Successes => k = Len(reply[c].program)
          /\ Took(c, sent[c], history, reply[c].program, k)
    BY <1>1 DEF OrderInv, OrderOf, Answered, At
  <1>3. \A p, a : EventsIn(p, a) = EventsFrom(p, a)
    BY DEF EventsIn, EventsFrom
  <1>4. Succeeded(c) => k = Len(reply[c].program)
    BY <1>2 DEF Succeeded, Successes
  <1>5. \A a \in Aggregate :
          RecordedIn(c, sent[c], a) = EventsIn(SubSeq(reply[c].program, 1, k), a)
    BY <1>2, <1>3, RecordedInIs DEF Took
  <1>. QED
    BY <1>2, <1>4, <1>5

-----------------------------------------------------------------------------
(***************************************************************************)
(* Replies are consistent: the entity a handler works on, and the one in a *)
(* reply, is the state after the first change sets, which stay the same.   *)
(***************************************************************************)
Shows(s, entity) ==
  /\ entity.revision \in 0 .. Len(s)
  /\ entity.state = Render(EventsOfFirst(s, entity.revision))

ShownOf(c, r, p, h) ==
  /\ r.step = "handle" => Shows(h[AggregateOf[c]], r.entity)
  /\ r.step = "idle" /\ p.status \in Successes => Shows(h[AggregateOf[c]], p.entity)

ShownInv == \A c \in Client : ShownOf(c, request[c], reply[c], history)

(* An entity goes on showing what it shows. *)
LEMMA StillShows ==
  ASSUME NEW h \in [Aggregate -> Seq(ChangeSet)], NEW b \in Aggregate, NEW e \in ChangeSet,
         NEW a \in Aggregate, NEW entity, Shows(h[a], entity)
  PROVE  Shows(Added(h, b, e)[a], entity)
  <1>1. CASE a = b
    <2>. DEFINE s == h[a]
                v == entity.revision
    <2>1. s \in Seq(ChangeSet) /\ Len(s) \in Nat /\ Len(Append(s, e)) = Len(s) + 1
      OBVIOUS
    <2>2. v \in Nat /\ v <= Len(s) /\ v \in 0 .. Len(s) + 1
      BY <2>1 DEF Shows
    <2>3. EventsOfFirst(Append(s, e), v) = EventsOfFirst(s, v)
      <3>. HIDE DEF s, v
      <3>. QED
        BY <2>1, <2>2, EventsOfFirstStay
    <2>4. Added(h, b, e)[a] = Append(s, e)
      BY <1>1, AddedFacts
    <2>5. entity.state = Render(EventsOfFirst(s, v))
      BY DEF Shows
    <2>. QED
      BY <2>1, <2>2, <2>3, <2>4, <2>5 DEF Shows
  <1>2. CASE a # b
    BY <1>2, AddedFacts
  <1>. QED
    BY <1>1, <1>2

(* A load shows the change sets it returned. *)
LEMMA LoadedShows ==
  ASSUME NEW s \in Seq(ChangeSet), NEW v \in 0 .. Len(s)
  PROVE  Shows(s, Loaded(s, v))
  BY DEF Shows, Loaded

(* ShownOf is preserved by every kind of step. *)
LEMMA ShownStep ==
  ASSUME NEW c \in Client, NEW r, NEW p, NEW n \in Nat, NEW rr, NEW pp, NEW nn, NEW hh,
         NEW h \in [Aggregate -> Seq(ChangeSet)], RequestOK(c, r), ShownOf(c, r, p, h),
         ClientStep(c, r, p, n, h, rr, pp, nn, hh)
  PROVE  ShownOf(c, rr, pp, hh)
  <1>. DEFINE A == AggregateOf[c]
  <1>0. A \in Aggregate /\ h[A] \in Seq(ChangeSet) /\ Len(h[A]) \in Nat
    BY ServiceAssumption DEF ServiceAssumption
  <1>1. ASSUME NEW entity, Shows(h[A], entity) PROVE Shows(hh[A], entity)
    <2>1. \/ hh = h
          \/ \E b \in Aggregate, e \in ChangeSet : hh = Added(h, b, e)
      BY ClientStepRecords, LogFacts
    <2>. HIDE DEF A
    <2>. QED
      BY <1>0, <1>1, <2>1, StillShows
  <1>2. /\ Idle.step = "idle" /\ "error" \notin Successes /\ "rejected" \notin Successes
        /\ "none" \notin Successes
        /\ \A s, d : AnswerTo(Idle, s, d).status = s
        /\ \A s, d : AnswerTo(r, s, d).entity = d /\ AnswerTo(r, s, d).status = s
        /\ \A s : OneDone(r, s).step = s /\ OneDone(r, s).entity = r.entity
        /\ \A d, s, f : Handling(r, d, s, f).step = "handle" /\ Handling(r, d, s, f).entity = d
        /\ \A s, d, k : Sent(s, d, k).step = s
    BY DEF Idle, AnswerTo, OneDone, Handling, Sent, Successes
  <1>3. CASE Stays(c, r, p, n, h, rr, pp, nn, hh)
    BY <1>1, <1>3 DEF Stays, ShownOf
  <1>4. CASE Asks(c, r, p, n, h, rr, pp, nn, hh)
    <2>1. CASE rr = Idle
      <3>1. pp.status \notin Successes
        <4>1. NoReply.status = "none"
          BY DEF NoReply
        <4>. QED
          BY <1>2, <1>4, <4>1 DEF Asks
      <3>. QED
        BY <1>2, <2>1, <3>1 DEF ShownOf
    <2>2. CASE rr.step \in {"get", "load"}
      BY <2>2 DEF ShownOf
    <2>. QED
      BY <1>2, <1>4, <2>1, <2>2 DEF Asks
  <1>5. CASE Fails(c, r, p, n, h, rr, pp, nn, hh)
    BY <1>2, <1>5 DEF Fails, ShownOf
  <1>6. CASE Loads(c, r, p, n, h, rr, pp, nn, hh)
    <2>1. PICK v \in (IF StaleReads THEN 0 ELSE Len(h[A])) .. Len(h[A]) :
            \/ rr = Idle /\ \E status \in Successes : pp = AnswerTo(r, status, Loaded(h[A], v))
            \/ \E publications, fails : rr = Handling(r, Loaded(h[A], v), publications, fails)
      BY <1>6 DEF Loads, Receives
    <2>2. Shows(h[A], Loaded(h[A], v))
      <3>. DEFINE s == h[A]
      <3>1. s \in Seq(ChangeSet) /\ v \in 0 .. Len(s)
        BY <1>0
      <3>. HIDE DEF s
      <3>2. Shows(s, Loaded(s, v))
        BY <3>1, LoadedShows
      <3>. QED
        BY <3>2 DEF s
    <2>. DEFINE d == Loaded(h[A], v)
    <2>3. hh = h
      BY <1>6 DEF Loads
    <2>. HIDE DEF d
    <2>4. CASE rr = Idle /\ \E status \in Successes : pp = AnswerTo(r, status, d)
      <3>1. rr.step = "idle" /\ pp.entity = d
        BY <1>2, <2>4
      <3>. QED
        BY <2>2, <2>3, <3>1 DEF ShownOf, d
    <2>5. CASE \E publications, fails : rr = Handling(r, d, publications, fails)
      <3>1. rr.step = "handle" /\ rr.entity = d
        BY <1>2, <2>5
      <3>. QED
        BY <2>2, <2>3, <3>1 DEF ShownOf, d
    <2>. QED
      BY <2>1, <2>4, <2>5 DEF d
  <1>7. CASE Publishes(c, r, p, n, h, rr, pp, nn, hh)
    <2>1. Shows(hh[A], r.entity)
      BY <1>1, <1>7 DEF Publishes, ShownOf
    <2>2. CASE rr = Idle
      <3>1. pp.status \in Successes => pp.entity = r.entity
        <4>1. \A step : OneDone(r, step) = Idle => step = "idle"
          BY <1>2
        <4>2. \E d, status : pp = AnswerTo(r, status, d) /\ (status = "error" \/ d = r.entity)
          BY <1>7, <2>2, <4>1 DEF Publishes
        <4>. QED
          BY <1>2, <4>2
      <3>. QED
        BY <1>2, <2>1, <2>2, <3>1 DEF ShownOf
    <2>3. CASE rr # Idle
      <3>1. \E step : rr = OneDone(r, step) /\ step \in {"handle", "reload"}
        BY <1>7, <2>3 DEF Publishes
      <3>2. rr.step # "idle" /\ rr.entity = r.entity
        BY <1>2, <3>1
      <3>. QED
        BY <2>1, <3>2 DEF ShownOf
    <2>. QED
      BY <2>2, <2>3
  <1>. QED
    BY <1>3, <1>4, <1>5, <1>6, <1>7 DEF ClientStep

(* It implies the property; what Reduce does is never used. *)
LEMMA ShownImplies ==
  ASSUME ShownInv PROVE RepliesAreConsistent
  <1>1. SUFFICES ASSUME NEW c \in Client, Succeeded(c)
                 PROVE  reply[c].entity.state =
                          FoldLeft(Reduce, InitialState,
                                   EventsUpTo(AggregateOf[c], reply[c].entity.revision))
    BY DEF RepliesAreConsistent
  <1>2. Shows(history[AggregateOf[c]], reply[c].entity)
    BY <1>1 DEF ShownInv, ShownOf, Succeeded, Answered, At, Successes
  <1>. DEFINE events == EventsUpTo(AggregateOf[c], reply[c].entity.revision)
  <1>3. events = EventsOfFirst(history[AggregateOf[c]], reply[c].entity.revision)
    BY DEF EventsUpTo, EventsOfFirst
  <1>. HIDE DEF events
  <1>4. reply[c].entity.state = Render(events)
    BY <1>2, <1>3 DEF Shows
  <1>5. Render(events) = FoldLeft(Reduce, InitialState, events)
    BY DEF Render
  <1>. QED
    BY <1>4, <1>5 DEF events

-----------------------------------------------------------------------------
(***************************************************************************)
(* Replies are current when loads are: an entity was loaded after its      *)
(* request was sent, and loaded again unless nothing was recorded for it.  *)
(***************************************************************************)
NothingFor(h, c, n) ==
  \A a \in Aggregate : \A i \in DOMAIN h[a] : ~OfRequest(h[a][i], c, n)

CurrentOf(c, r, p, n, h) ==
  /\ \A m \in Nat : m > n => NothingFor(h, c, m)
  /\ r.step # "idle" => /\ r.since <= Len(h[AggregateOf[c]])
                        /\ r.published \/ NothingFor(h, c, n)
  /\ r.step = "handle" => r.since <= r.entity.revision
  /\ r.step = "idle" /\ p.status \in Successes =>
       /\ p.since <= p.entity.revision
       /\ \A i \in DOMAIN h[AggregateOf[c]] :
            OfRequest(h[AggregateOf[c]][i], c, n) => i <= p.entity.revision

CurrentInv == \A c \in Client : CurrentOf(c, request[c], reply[c], sent[c], history)

(* What is added for others is not for c. *)
LEMMA StillNothing ==
  ASSUME NEW h \in [Aggregate -> Seq(ChangeSet)], NEW b \in Aggregate, NEW e \in ChangeSet,
         NEW c, NEW n, ~OfRequest(e, c, n)
  PROVE  /\ \A a \in Aggregate : Len(h[a]) <= Len(Added(h, b, e)[a])
         /\ \A a \in Aggregate : \A i \in DOMAIN Added(h, b, e)[a] :
              OfRequest(Added(h, b, e)[a][i], c, n) =>
                i \in DOMAIN h[a] /\ OfRequest(h[a][i], c, n)
  <1>1. ASSUME NEW a \in Aggregate
        PROVE  /\ Len(h[a]) <= Len(Added(h, b, e)[a])
               /\ \A i \in DOMAIN Added(h, b, e)[a] :
                    OfRequest(Added(h, b, e)[a][i], c, n) =>
                      i \in DOMAIN h[a] /\ OfRequest(h[a][i], c, n)
    <2>. DEFINE s == h[a]
    <2>1. s \in Seq(ChangeSet) /\ Len(s) \in Nat /\ DOMAIN s = 1 .. Len(s)
      OBVIOUS
    <2>2. CASE a = b
      <3>1. Added(h, b, e)[a] = Append(s, e)
        BY <2>2, AddedFacts
      <3>. HIDE DEF s
      <3>2. /\ Len(Append(s, e)) = Len(s) + 1 /\ DOMAIN Append(s, e) = 1 .. Len(s) + 1
            /\ Append(s, e)[Len(s) + 1] = e /\ \A i \in 1 .. Len(s) : Append(s, e)[i] = s[i]
        BY <2>1, AppendFacts
      <3>. DEFINE t == Append(s, e)
      <3>. HIDE DEF t
      <3>3. \A i \in DOMAIN t : OfRequest(t[i], c, n) => i \in DOMAIN s /\ OfRequest(s[i], c, n)
        <4>. DEFINE l == Len(s)
        <4>1. l \in Nat /\ DOMAIN t = 1 .. l + 1 /\ t[l + 1] = e /\ DOMAIN s = 1 .. l
              /\ \A i \in 1 .. l : t[i] = s[i]
          BY <2>1, <3>2 DEF t
        <4>. HIDE DEF l
        <4>. QED
          BY <4>1
      <3>4. Len(s) <= Len(t)
        BY <2>1, <3>2 DEF t
      <3>. QED
        BY <3>1, <3>3, <3>4 DEF s, t
    <2>3. CASE a # b
      <3>1. Added(h, b, e)[a] = s
        BY <2>3, AddedFacts
      <3>2. Len(s) <= Len(s)
        BY <2>1
      <3>. HIDE DEF s
      <3>. QED
        BY <3>1, <3>2 DEF s
    <2>. QED
      BY <2>2, <2>3
  <1>. QED
    BY <1>1

(* CurrentOf is preserved by every kind of step. *)
LEMMA CurrentStep ==
  ASSUME ~StaleReads,
         NEW c \in Client, NEW r, NEW p, NEW n \in Nat, NEW rr, NEW pp, NEW nn, NEW hh,
         NEW h \in [Aggregate -> Seq(ChangeSet)], RequestOK(c, r), ShownOf(c, r, p, h),
         CurrentOf(c, r, p, n, h), ClientStep(c, r, p, n, h, rr, pp, nn, hh)
  PROVE  CurrentOf(c, rr, pp, nn, hh)
  <1>. DEFINE A == AggregateOf[c]
              l == Len(h[A])
              ll == Len(hh[A])
  <1>0. A \in Aggregate /\ h[A] \in Seq(ChangeSet) /\ l \in Nat /\ DOMAIN h[A] = 1 .. l
    BY ServiceAssumption DEF ServiceAssumption
  <1>1. /\ l <= ll
        /\ \A m \in Nat : m > n => NothingFor(hh, c, m)
    <2>1. CASE hh = h
      BY <1>0, <2>1 DEF CurrentOf
    <2>2. CASE \E a \in Aggregate, e \in ChangeSet :
                 hh = Added(h, a, e) /\ (e.by = c => e.request = n /\ r.step = "handle")
      <3>1. PICK a \in Aggregate, e \in ChangeSet :
                 hh = Added(h, a, e) /\ (e.by = c => e.request = n /\ r.step = "handle")
        BY <2>2
      <3>2. ASSUME NEW m \in Nat, m > n PROVE NothingFor(hh, c, m)
        <4>1. ~OfRequest(e, c, m)
          BY <3>1, <3>2 DEF OfRequest
        <4>2. NothingFor(h, c, m)
          BY <3>2 DEF CurrentOf
        <4>. QED
          BY <3>1, <4>1, <4>2, StillNothing DEF NothingFor
      <3>3. ~OfRequest(e, c, n + 1)
        BY <3>1 DEF OfRequest
      <3>4. l <= ll
        <4>1. \A b \in Aggregate : Len(h[b]) <= Len(Added(h, a, e)[b])
          BY <3>3, StillNothing
        <4>. QED
          BY <1>0, <3>1, <4>1
      <3>. QED
        BY <3>2, <3>4
    <2>. QED
      BY <2>1, <2>2, ClientStepRecords, LogFacts
  <1>2. /\ Idle.step = "idle" /\ "error" \notin Successes /\ "rejected" \notin Successes
        /\ "none" \notin Successes
        /\ \A s, d : AnswerTo(Idle, s, d).status = s
        /\ \A s, d : /\ AnswerTo(r, s, d).entity = d /\ AnswerTo(r, s, d).status = s
                     /\ AnswerTo(r, s, d).since = r.since
        /\ \A s : /\ OneDone(r, s).step = s /\ OneDone(r, s).entity = r.entity
                  /\ OneDone(r, s).since = r.since
        /\ \A d, s, f : /\ Handling(r, d, s, f).step = "handle" /\ Handling(r, d, s, f).entity = d
                        /\ Handling(r, d, s, f).since = r.since
        /\ \A s, d, k : Sent(s, d, k).step = s /\ Sent(s, d, k).since = k
    BY DEF Idle, AnswerTo, OneDone, Handling, Sent, Successes
  <1>3. r.since \in Nat /\ (r.step = "handle" => r.entity.revision \in Nat)
        /\ (r.step = "idle" /\ p.status \in Successes => p.entity.revision \in Nat)
    BY <1>0 DEF RequestOK, ShownOf, Shows
  <1>4. CASE Stays(c, r, p, n, h, rr, pp, nn, hh)
    <2>1. rr = r /\ pp = p /\ nn = n
      BY <1>4 DEF Stays
    <2>2. CASE hh = h
      BY <2>1, <2>2
    <2>3. CASE \E a \in Aggregate, e \in ChangeSet : e.by # c /\ hh = Added(h, a, e)
      <3>1. PICK a \in Aggregate, e \in ChangeSet : e.by # c /\ hh = Added(h, a, e)
        BY <2>3
      <3>2. ~OfRequest(e, c, n)
        BY <3>1 DEF OfRequest
      <3>3. \A b \in Aggregate : \A i \in DOMAIN hh[b] :
              OfRequest(hh[b][i], c, n) => i \in DOMAIN h[b] /\ OfRequest(h[b][i], c, n)
        BY <3>1, <3>2, StillNothing
      <3>4. NothingFor(h, c, n) => NothingFor(hh, c, n)
        BY <3>3 DEF NothingFor
      <3>5. r.step # "idle" => r.since <= ll /\ (r.published \/ NothingFor(hh, c, n))
        <4>1. r.step # "idle" => r.since <= l /\ (r.published \/ NothingFor(h, c, n))
          BY DEF CurrentOf
        <4>2. ll \in Nat
          BY <1>0, <3>1, AddedFacts
        <4>. HIDE DEF l, ll
        <4>. QED
          BY <1>0, <1>1, <1>3, <3>4, <4>1, <4>2
      <3>6. r.step = "idle" /\ p.status \in Successes =>
              \A i \in DOMAIN hh[A] : OfRequest(hh[A][i], c, n) => i <= p.entity.revision
        BY <1>0, <3>3 DEF CurrentOf
      <3>. QED
        BY <1>1, <2>1, <3>5, <3>6 DEF CurrentOf
    <2>. QED
      BY <1>4, <2>2, <2>3 DEF Stays
  <1>5. CASE Asks(c, r, p, n, h, rr, pp, nn, hh)
    <2>1. nn = n + 1 /\ hh = h
      BY <1>5 DEF Asks
    <2>2. \A m \in Nat : m > nn => NothingFor(hh, c, m)
      BY <1>1, <2>1
    <2>3. NothingFor(hh, c, nn)
      BY <1>1, <2>1
    <2>4. CASE rr = Idle
      <3>1. pp.status \notin Successes
        <4>1. NoReply.status = "none"
          BY DEF NoReply
        <4>. QED
          BY <1>2, <1>5, <4>1 DEF Asks
      <3>. QED
        BY <1>2, <2>2, <2>4, <3>1 DEF CurrentOf
    <2>5. CASE rr.step \in {"get", "load"} /\ rr.since = l
      BY <1>0, <2>1, <2>2, <2>3, <2>5 DEF CurrentOf
    <2>. QED
      BY <1>2, <1>5, <2>4, <2>5 DEF Asks
  <1>6. CASE Fails(c, r, p, n, h, rr, pp, nn, hh)
    BY <1>1, <1>2, <1>6 DEF Fails, CurrentOf
  <1>7. CASE Loads(c, r, p, n, h, rr, pp, nn, hh)
    <2>1. PICK v \in (IF StaleReads THEN 0 ELSE l) .. l :
            \/ rr = Idle /\ \E status \in Successes : pp = AnswerTo(r, status, Loaded(h[A], v))
            \/ /\ r.step = "load"
               /\ \E publications, fails : rr = Handling(r, Loaded(h[A], v), publications, fails)
      BY <1>7 DEF Loads, Receives
    <2>. DEFINE d == Loaded(h[A], v)
    <2>2. d.revision = l
      <3>1. v = l
        BY <1>0
      <3>2. d.revision = v
        BY DEF Loaded
      <3>. QED
        BY <3>1, <3>2
    <2>3. hh = h /\ nn = n /\ r.step # "idle"
      BY <1>7 DEF Loads, Receives
    <2>4. r.since <= l /\ (r.published \/ NothingFor(h, c, n))
      BY <2>3 DEF CurrentOf
    <2>. HIDE DEF d, l
    <2>5. CASE rr = Idle /\ \E status \in Successes : pp = AnswerTo(r, status, d)
      <3>1. rr.step = "idle" /\ pp.entity = d /\ pp.since = r.since
        BY <1>2, <2>5
      <3>. QED
        BY <1>0, <1>1, <2>2, <2>3, <2>4, <3>1 DEF CurrentOf
    <2>6. CASE r.step = "load" /\ \E publications, fails : rr = Handling(r, d, publications, fails)
      <3>1. rr.step = "handle" /\ rr.entity = d /\ rr.since = r.since
        BY <1>2, <2>6
      <3>2. NothingFor(h, c, n)
        BY <2>4, <2>6 DEF RequestOK
      <3>. QED
        BY <1>0, <1>1, <2>2, <2>3, <2>4, <3>1, <3>2 DEF CurrentOf, l
    <2>. QED
      BY <2>1, <2>5, <2>6 DEF d
  <1>8. CASE Publishes(c, r, p, n, h, rr, pp, nn, hh)
    <2>1. /\ r.step = "handle" /\ nn = n /\ r.since <= r.entity.revision
          /\ r.since <= l /\ (r.published \/ NothingFor(h, c, n))
      BY <1>8 DEF Publishes, CurrentOf
    <2>2. HasPublished(r) \/ NothingFor(hh, c, n)
      <3>1. CASE r.program[r.done + 1].events = <<>>
        <4>1. hh = h
          BY <1>8, <3>1 DEF Publishes
        <4>. QED
          BY <2>1, <4>1 DEF HasPublished
      <3>2. CASE r.program[r.done + 1].events # <<>>
        BY <3>2 DEF HasPublished
      <3>. QED
        BY <3>1, <3>2
    <2>3. CASE rr = Idle
      <3>1. pp.status \in Successes => pp.entity = r.entity /\ pp.since = r.since /\ ~HasPublished(r)
        <4>1. \A step : OneDone(r, step) = Idle => step = "idle"
          BY <1>2
        <4>2. \E d, status : /\ pp = AnswerTo(r, status, d)
                             /\ status = "error" \/ (d = r.entity /\ ~HasPublished(r))
          BY <1>8, <2>3, <4>1 DEF Publishes
        <4>. QED
          BY <1>2, <4>2
      <3>. QED
        BY <1>0, <1>1, <1>2, <2>1, <2>2, <2>3, <3>1 DEF CurrentOf, NothingFor
    <2>4. CASE rr # Idle
      <3>1. PICK step : rr = OneDone(r, step) /\ step \in {"handle", "reload"}
        BY <1>8, <2>4 DEF Publishes
      <3>2. /\ rr.step \in {"handle", "reload"} /\ rr.entity = r.entity /\ rr.since = r.since
        BY <1>2, <3>1
      <3>3. HasPublished(r) <=> rr.published
        BY <3>1 DEF OneDone
      <3>4. r.since <= ll
        <4>1. ll \in Nat
          <5>1. hh = h \/ \E a \in Aggregate, e \in ChangeSet : hh = Added(h, a, e)
            BY ClientStepRecords, LogFacts
          <5>. QED
            BY <1>0, <5>1, AddedFacts
        <4>. HIDE DEF l, ll
        <4>. QED
          BY <1>0, <1>1, <1>3, <2>1, <4>1
      <3>. QED
        BY <1>1, <2>1, <2>2, <3>2, <3>3, <3>4 DEF CurrentOf
    <2>. QED
      BY <2>3, <2>4
  <1>. QED
    BY <1>4, <1>5, <1>6, <1>7, <1>8 DEF ClientStep

(* It implies the property. *)
LEMMA CurrentImplies ==
  ASSUME TypeInv, CurrentInv, ShownInv PROVE RepliesAreCurrent
  <1>1. SUFFICES ASSUME NEW c \in Client, Succeeded(c)
                 PROVE  /\ reply[c].entity.revision >= reply[c].since
                        /\ \A i \in RecordedFor(c, sent[c], AggregateOf[c]) :
                             i <= reply[c].entity.revision
    BY DEF RepliesAreCurrent
  <1>2. request[c].step = "idle" /\ reply[c].status \in Successes
    BY <1>1 DEF Succeeded, Answered, At, Successes
  <1>3. /\ reply[c].since <= reply[c].entity.revision
        /\ \A i \in DOMAIN history[AggregateOf[c]] :
             OfRequest(history[AggregateOf[c]][i], c, sent[c]) => i <= reply[c].entity.revision
    BY <1>2 DEF CurrentInv, CurrentOf
  <1>4. \A x, y : x <= y => y >= x
    OBVIOUS
  <1>. QED
    BY <1>3, <1>4 DEF RecordedFor, OfRequest

-----------------------------------------------------------------------------
(* The invariants hold initially. *)
LEMMA InitFacts ==
  ASSUME Init
  PROVE  OrderInv /\ ShownInv /\ CurrentInv
  <1>1. /\ request = [c \in Client |-> Idle] /\ reply = [c \in Client |-> NoReply]
        /\ history = [a \in Aggregate |-> <<>>]
    BY DEF Init, InitService
  <1>2. Idle.step = "idle" /\ NoReply.status = "none" /\ "none" \notin Successes
    BY DEF Idle, NoReply, Successes
  <1>3. \A c, n : EventsFor(<<>>, c, n) = <<>>
    <2>1. \A f, c, n : f = <<>> =>
            [i \in DOMAIN f |-> IF OfRequest(f[i], c, n) THEN f[i].events ELSE <<>>] = <<>>
      OBVIOUS
    <2>. QED
      BY <2>1, FlattenEmpty DEF EventsFor
  <1>4. OrderInv
    BY <1>1, <1>2, <1>3 DEF OrderInv, OrderOf
  <1>5. ShownInv
    BY <1>1, <1>2 DEF ShownInv, ShownOf
  <1>6. CurrentInv
    BY <1>1, <1>2 DEF CurrentInv, CurrentOf, NothingFor
  <1>. QED
    BY <1>4, <1>5, <1>6

(* The invariants are inductive. *)
LEMMA InvariantSteps ==
  ASSUME HandlersArePrograms, TypeInv, [Next]_vars
  PROVE  /\ OrderInv => OrderInv'
         /\ ShownInv => ShownInv'
         /\ ~StaleReads /\ ShownInv /\ CurrentInv => CurrentInv'
  <1>1. \A c \in Client : StepOf(c)
    BY StepKinds
  <1>2. /\ history \in [Aggregate -> Seq(ChangeSet)]
        /\ \A c \in Client : sent[c] \in Nat /\ RequestOK(c, request[c])
    BY TypeFacts DEF TypeInv
  <1>3. ASSUME OrderInv PROVE OrderInv'
    BY <1>3, NextRecords, RecordingKeepsOrder
  <1>4. ASSUME ShownInv PROVE ShownInv'
    <2>1. ASSUME NEW c \in Client PROVE ShownOf(c, request'[c], reply'[c], history')
      <3>1. ShownOf(c, request[c], reply[c], history)
        BY <1>4 DEF ShownInv
      <3>. QED
        BY <1>1, <1>2, <3>1, ShownStep DEF StepOf
    <2>. QED
      BY <2>1 DEF ShownInv
  <1>5. ASSUME ~StaleReads, ShownInv, CurrentInv PROVE CurrentInv'
    <2>1. ASSUME NEW c \in Client PROVE CurrentOf(c, request'[c], reply'[c], sent'[c], history')
      <3>1. /\ ShownOf(c, request[c], reply[c], history)
            /\ CurrentOf(c, request[c], reply[c], sent[c], history)
        BY <1>5 DEF ShownInv, CurrentInv
      <3>. QED
        BY <1>1, <1>2, <1>5, <3>1, CurrentStep DEF StepOf
    <2>. QED
      BY <2>1 DEF CurrentInv
  <1>. QED
    BY <1>3, <1>4, <1>5

-----------------------------------------------------------------------------
(***************************************************************************)
(* A command's publications take effect in order and at most once, all of  *)
(* them when it succeeds: for all handlers that are programs, also when    *)
(* replies are lost, publications are refused, loads are stale and         *)
(* processes stop.                                                         *)
(***************************************************************************)
THEOREM TakesEffectInOrder ==
  ASSUME HandlersArePrograms PROVE Spec => []CommandsTakeEffectInOrder
  <1>1. Init => TypeInv /\ OrderInv
    BY TypeInit, InitFacts
  <1>2. TypeInv /\ OrderInv /\ [Next]_vars => (TypeInv /\ OrderInv)'
    BY TypeStep, InvariantSteps
  <1>3. OrderInv => CommandsTakeEffectInOrder
    BY OrderImplies
  <1>. QED
    BY <1>1, <1>2, <1>3, PTL DEF Spec

(***************************************************************************)
(* The entity in every reply is the state after a beginning of the log,    *)
(* whatever the reducers make of the events.                               *)
(***************************************************************************)
THEOREM ConsistentReplies ==
  ASSUME HandlersArePrograms PROVE Spec => []RepliesAreConsistent
  <1>1. Init => TypeInv /\ ShownInv
    BY TypeInit, InitFacts
  <1>2. TypeInv /\ ShownInv /\ [Next]_vars => (TypeInv /\ ShownInv)'
    BY TypeStep, InvariantSteps
  <1>3. ShownInv => RepliesAreConsistent
    BY ShownImplies
  <1>. QED
    BY <1>1, <1>2, <1>3, PTL DEF Spec

(***************************************************************************)
(* On a store whose loads are not stale, the reply to a command shows what *)
(* the command recorded and what was recorded before it was sent.          *)
(***************************************************************************)
THEOREM CurrentReplies ==
  ASSUME HandlersArePrograms, ~StaleReads PROVE Spec => []RepliesAreCurrent
  <1>1. Init => TypeInv /\ ShownInv /\ CurrentInv
    BY TypeInit, InitFacts
  <1>2. TypeInv /\ ShownInv /\ CurrentInv /\ [Next]_vars => (TypeInv /\ ShownInv /\ CurrentInv)'
    BY TypeStep, InvariantSteps
  <1>3. TypeInv /\ ShownInv /\ CurrentInv => RepliesAreCurrent
    BY CurrentImplies
  <1>. QED
    BY <1>1, <1>2, <1>3, PTL DEF Spec
=============================================================================
