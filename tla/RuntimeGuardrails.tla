-------------------------- MODULE RuntimeGuardrails --------------------------
(***************************************************************************)
(* The limit on simultaneously open responses that main.ts installs before *)
(* every other middleware (src/common/runtime-guardrails.ts).  A request   *)
(* beyond the limit is refused with 503 at once, an admitted one holds a   *)
(* slot until its response says `finish' or `close'.  Node says `close' of *)
(* every response in the end, `finish' only of one that was sent whole,    *)
(* and usually both.                                                       *)
(*                                                                         *)
(* A response is an object of its own: it is admitted or refused once.     *)
(***************************************************************************)
EXTENDS Integers, FiniteSets

CONSTANTS
  Responses,    \* the responses of the process' lifetime
  MaxInFlight   \* MAX_IN_FLIGHT_REQUESTS

ASSUME LimitAssumption == MaxInFlight \in Nat \ {0}

Events == {"finish", "close"}

VARIABLES
  admitted,     \* responses that went on to next()
  refused,      \* responses answered 503
  emitted,      \* the events each response has emitted
  listening,    \* the events each response still has a listener for
  active,
  peak,
  completed,
  rejected,
  timer,        \* whether snapshots are still being logged
  logged        \* what the logged snapshots add up to

vars == <<admitted, refused, emitted, listening, active, peak, completed,
          rejected, timer, logged>>

counters == <<active, peak, completed, rejected>>
logging == <<timer, logged>>

Open == {r \in admitted : emitted[r] = {}}
Ended == {r \in admitted : emitted[r] # {}}

\* Faulty variant: one response too many is admitted.
FullLate == active > MaxInFlight

Full == active >= MaxInFlight

-----------------------------------------------------------------------------
Init ==
  /\ admitted = {}
  /\ refused = {}
  /\ emitted = [r \in Responses |-> {}]
  /\ listening = [r \in Responses |-> {}]
  /\ active = 0
  /\ peak = 0
  /\ completed = 0
  /\ rejected = 0
  /\ timer = TRUE
  /\ logged = [completed |-> 0, rejected |-> 0]

Reject(r) ==
  /\ r \notin admitted \union refused
  /\ Full
  /\ rejected' = rejected + 1
  /\ refused' = refused \union {r}
  /\ UNCHANGED <<admitted, emitted, listening, active, peak, completed, logging>>

\* The events the middleware listens for with once().
Watched == {"finish", "close"}

Admit(r) ==
  /\ r \notin admitted \union refused
  /\ ~Full
  /\ active' = active + 1
  /\ peak' = IF active + 1 > peak THEN active + 1 ELSE peak
  /\ listening' = [listening EXCEPT ![r] = Watched]
  /\ admitted' = admitted \union {r}
  /\ UNCHANGED <<refused, emitted, completed, rejected, logging>>

\* Faulty variant: once() alone removes the listener of its own event only.
RestOnce(r, e) == listening[r] \ {e}

\* The listeners left after `release' has run for event e of r.
Rest(r, e) == {}

\* Faulty variant: an aborted response is counted but keeps its slot.
ReleasedSent(e) == IF e = "finish" THEN active - 1 ELSE active

\* The active responses after `release' has run for event e.
Released(e) == active - 1

\* Response r emits e for the first time; `release' runs if it listens.
Emit(r, e) ==
  /\ r \in admitted
  /\ e \notin emitted[r]
  /\ emitted' = [emitted EXCEPT ![r] = @ \union {e}]
  /\ IF e \in listening[r]
       THEN /\ listening' = [listening EXCEPT ![r] = Rest(r, e)]
            /\ active' = Released(e)
            /\ completed' = completed + 1
       ELSE UNCHANGED <<listening, active, completed>>
  /\ UNCHANGED <<admitted, refused, peak, rejected, logging>>

\* Faulty variant: the counters go on from one snapshot to the next.
SnapshotKeeps ==
  /\ timer
  /\ logged' = [completed |-> logged.completed + completed,
                rejected |-> logged.rejected + rejected]
  /\ peak' = active
  /\ UNCHANGED <<admitted, refused, emitted, listening, active, completed, rejected, timer>>

\* Faulty variant: a snapshot resets the peak with the other counters.
SnapshotClears ==
  /\ timer
  /\ logged' = [completed |-> logged.completed + completed,
                rejected |-> logged.rejected + rejected]
  /\ peak' = 0
  /\ completed' = 0
  /\ rejected' = 0
  /\ UNCHANGED <<admitted, refused, emitted, listening, active, timer>>

Snapshot ==
  /\ timer
  /\ logged' = [completed |-> logged.completed + completed,
                rejected |-> logged.rejected + rejected]
  /\ peak' = active
  /\ completed' = 0
  /\ rejected' = 0
  /\ UNCHANGED <<admitted, refused, emitted, listening, active, timer>>

\* The HTTP server has closed; open responses may still end.
Stop ==
  /\ timer
  /\ timer' = FALSE
  /\ UNCHANGED <<admitted, refused, emitted, listening, counters, logged>>

Next ==
  \/ \E r \in Responses : Reject(r) \/ Admit(r) \/ \E e \in Events : Emit(r, e)
  \/ Snapshot
  \/ Stop

Spec == Init /\ [][Next]_vars

\* Node closes every response in the end, whether it was sent or aborted.
FairSpec == Spec /\ \A r \in Responses : WF_vars(Emit(r, "close"))

-----------------------------------------------------------------------------
TypeOK ==
  /\ admitted \subseteq Responses
  /\ refused \subseteq Responses
  /\ emitted \in [Responses -> SUBSET Events]
  /\ listening \in [Responses -> SUBSET Events]
  /\ active \in Nat
  /\ peak \in Nat
  /\ completed \in Nat
  /\ rejected \in Nat
  /\ timer \in BOOLEAN
  /\ logged \in [completed : Nat, rejected : Nat]

\* No more responses are open at a time than the limit allows, however they
\* end: the memory bound docs/production-memory-recovery.md relies on.
WithinLimit == Cardinality(Open) <= MaxInFlight

\* The logged peak never falls below the responses open at that time, and
\* never exceeds the limit, although every snapshot resets it.
PeakCovers == Cardinality(Open) <= peak /\ peak <= MaxInFlight

\* Every response that ended and every refusal is counted in exactly one
\* snapshot, or waits for the next: finish and close do not count twice, and
\* resetting the counters loses nothing.
CountedOnce ==
  /\ logged.completed + completed = Cardinality(Ended)
  /\ logged.rejected + rejected = Cardinality(refused)

\* A server that refuses requests will admit some again: every admitted
\* response gives its slot back, also if the client goes away before it is sent.
SlotReturned == Full ~> ~Full

=============================================================================
