------------------------------ MODULE EventLog ------------------------------
(***************************************************************************)
(* What a we.EventStore promises the callers of Publish: every aggregate   *)
(* is an append-only log of change sets, each recorded as a whole or not   *)
(* at all, and a change set published with an ExpectedRevision directly    *)
(* follows the change set that carries this revision.                      *)
(*                                                                         *)
(* This is the abstract specification the stores are shown to implement.   *)
(***************************************************************************)
EXTENDS Integers, Sequences

CONSTANTS
  Aggregate,   \* aggregate ids
  Revision,    \* the revisions a store gives to change sets
  Removable    \* does the store have a Remove operation?

VARIABLE log   \* log[a]: the change sets of aggregate a, oldest first

NoRevision == -1        \* Revision(""): no ExpectedRevision given
InitialRevision == 0    \* the revision of an aggregate without events

Entry == [revision : Revision, expected : Revision \cup {NoRevision, InitialRevision}]

(* The revision an aggregate with this log is at. *)
RevisionOf(entries) ==
  IF entries = <<>> THEN InitialRevision ELSE entries[Len(entries)].revision

RevisionsOf(entries) == { entries[i].revision : i \in 1 .. Len(entries) }

(* One change set is added, after the revision its publisher expected. *)
Publish(a, entry) ==
  /\ entry.expected \in {NoRevision, RevisionOf(log[a])}
  /\ entry.revision \notin RevisionsOf(log[a])
  /\ log' = [log EXCEPT ![a] = Append(@, entry)]

(* The aggregate starts over at the initial revision. *)
Remove(a) ==
  /\ Removable
  /\ log' = [log EXCEPT ![a] = <<>>]

Init == log = [a \in Aggregate |-> <<>>]

Next ==
  \E a \in Aggregate :
    \/ \E entry \in Entry : Publish(a, entry)
    \/ Remove(a)

Spec == Init /\ [][Next]_log
=============================================================================
