-------------------------- MODULE RevisionGenerator --------------------------
(***************************************************************************)
(* we.RevisionGenerator: the source of the ULIDs that name the events and  *)
(* the change sets of the DynamoDB store.  A ULID is a 48 bit millisecond  *)
(* timestamp followed by 80 bits of entropy and compares as a string, so   *)
(* it is modelled as the number  ms * EntropyWidth + entropy  and compared *)
(* with <.  Every process that creates a store owns one generator.         *)
(*                                                                         *)
(* The entropy comes from ulid.Monotonic: a revision asked for in the      *)
(* millisecond of the previous one is an increment of it, any other        *)
(* millisecond, an earlier one included, reads fresh random entropy.       *)
(***************************************************************************)
EXTENDS Integers

CONSTANTS
  Process,       \* processes, each with a clock and a store instance
  MaxTime,       \* bound: the last millisecond of a run
  EntropyWidth,  \* bound: entropy values within one millisecond (2^80 in a ULID)
  MaxSkew        \* how far apart the wall clocks of two processes may be

ASSUME TimeAssumption ==
  /\ MaxTime \in Nat \ {0}
  /\ EntropyWidth \in Nat \ {0}
  /\ MaxSkew \in Nat

VARIABLES
  clock,   \* clock[p]: the millisecond time.Now() returns in process p
  last,    \* last[p]: the revision p's generator issued last, 0 if none
  issued   \* every revision issued so far (80 bits of entropy do not collide)

generatorVars == <<clock, last, issued>>

InitialRevision == 0                      \* "00000000000000000000000000"

Revision == EntropyWidth .. (MaxTime + 1) * EntropyWidth - 1

Millis(revision) == revision \div EntropyWidth

(* The revisions NewRevision(now) may return in process p. *)
NewRevisions(p, now) ==
  { r \in Revision \ issued :
      /\ Millis(r) = now
      /\ Millis(last[p]) = now => r > last[p] }

(***************************************************************************)
(* NewRevision runs under the generator's lock: one step per revision.     *)
(***************************************************************************)
NewRevision(p, r) ==
  /\ last' = [last EXCEPT ![p] = r]
  /\ issued' = issued \cup {r}
  /\ UNCHANGED clock

(* A process starts with NewRevisionGenerator: nothing issued yet. *)
ResetGenerator(p) ==
  /\ last' = [last EXCEPT ![p] = InitialRevision]
  /\ UNCHANGED <<clock, issued>>

(***************************************************************************)
(* The environment: wall clocks move on, never further apart than MaxSkew. *)
(***************************************************************************)
Tick ==
  \E running \in SUBSET Process \ {{}} :
    /\ clock' = [p \in Process |-> IF p \in running THEN clock[p] + 1 ELSE clock[p]]
    /\ \A p, q \in Process : clock'[p] <= MaxTime /\ clock'[p] - clock'[q] <= MaxSkew
    /\ UNCHANGED <<last, issued>>

InitGenerator ==
  /\ clock = [p \in Process |-> 1]
  /\ last = [p \in Process |-> InitialRevision]
  /\ issued = {}
=============================================================================
