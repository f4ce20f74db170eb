------------------------------- MODULE Counter -------------------------------
(***************************************************************************)
(* samples/counter: the commands, events, handlers and reducers of a       *)
(* counter, the sample application of the entity service.                  *)
(***************************************************************************)
EXTENDS Integers

Names == {"increment", "decrement", "randomize"}

(* A command as it arrives; the payload of some does not decode. *)
CommandOf(name, amount) == [name |-> name, amount |-> amount, decodes |-> TRUE]

(* Each handler publishes one event, under no ExpectedRevision; that of    *)
(* randomize has a value its randomizer picks.                             *)
EventsOf(command, picks) ==
  IF command.name = "randomize" THEN [type : {"randomized"}, amount : picks]
  ELSE [type : {IF command.name = "increment" THEN "incremented" ELSE "decremented"},
        amount : {command.amount}]

Publish(a, event) == [aggregate |-> a, guarded |-> FALSE, events |-> <<event>>]

HandlerPrograms(a, command, picks) ==
  { [publications |-> <<Publish(a, event)>>, fails |-> FALSE] : event \in EventsOf(command, picks) }

(* An event of a type that has no reducer is skipped. *)
CounterReduce(current, event) ==
  CASE event.type = "incremented" -> current + event.amount
    [] event.type = "decremented" -> current - event.amount
    [] event.type = "randomized"  -> event.amount
    [] OTHER -> current
=============================================================================
