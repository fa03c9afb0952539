------------------------------ MODULE ProcessProofs ------------------------------
(***************************************************************************)
(* Proofs about what one process holds in memory, for any sizes: that the  *)
(* limit on open responses is kept and that its counters count; that the   *)
(* CRM is told of a lead at most twice; that visits are accepted for three *)
(* months; that Google is asked for reviews once per lifetime; and that    *)
(* the routes kept for the front end are those of the tables.  The last    *)
(* part is about what is answered from the same tables: that every page    *)
(* the sitemaps list is indexable where they list it.                      *)
(***************************************************************************)
EXTENDS RuntimeGuardrails, Leads, Reviews, SeoPages, FiniteSetTheorems, TLAPS

\* A response is listened to, for both its events, exactly while it is open.
ListensWhileOpen ==
  /\ \A r \in Responses : r \notin admitted => emitted[r] = {}
  /\ \A r \in Open : listening[r] = Watched
  /\ \A r \in Ended : listening[r] = {}

Finite == IsFiniteSet(Open) /\ IsFiniteSet(Ended) /\ IsFiniteSet(refused)

Bounds == active <= peak /\ peak <= MaxInFlight

IInv ==
  /\ TypeOK
  /\ ListensWhileOpen
  /\ Finite
  /\ active = Cardinality(Open)
  /\ Bounds
  /\ CountedOnce

\* The invariant speaks of the state's variables only.
LEMMA Unchanged ==
  ASSUME IInv, UNCHANGED vars
  PROVE  IInv'
BY DEF IInv, TypeOK, ListensWhileOpen, Finite, Bounds, CountedOnce, Open, Ended, vars

LEMMA InitInv ==
  ASSUME Init
  PROVE  IInv
<1>1. Open = {} /\ Ended = {} /\ refused = {}
  BY DEF Init, Open, Ended
<1>2. IsFiniteSet({}) /\ Cardinality({}) = 0
  BY FS_EmptySet
<1>3. TypeOK
  BY DEF Init, TypeOK, Events
<1>4. ListensWhileOpen
  BY <1>1 DEF Init, ListensWhileOpen
<1>5. Bounds
  BY LimitAssumption DEF Init, Bounds
<1> QED
  BY <1>1, <1>2, <1>3, <1>4, <1>5 DEF IInv, Finite, CountedOnce, Init

LEMMA RejectInv ==
  ASSUME IInv, NEW r \in Responses, Reject(r)
  PROVE  IInv'
<1> USE DEF IInv
<1>1. Open' = Open /\ Ended' = Ended
  BY DEF Reject, Open, Ended
<1>2. /\ IsFiniteSet(refused')
      /\ Cardinality(refused') = Cardinality(refused) + 1
  <2>1. refused' = refused \union {r} /\ r \notin refused
    BY DEF Reject
  <2> QED
    BY <2>1, FS_AddElement DEF Finite
<1>3. TypeOK'
  BY DEF TypeOK, Reject, logging
<1>4. ListensWhileOpen'
  BY <1>1 DEF ListensWhileOpen, Reject
<1>5. CountedOnce'
  <2>1. Cardinality(refused) \in Nat
    BY FS_CardinalityType DEF Finite
  <2> QED
    BY <1>1, <1>2, <2>1 DEF CountedOnce, Reject, logging, TypeOK
<1>6. Finite' /\ active' = active /\ Bounds'
  BY <1>1, <1>2 DEF Finite, Bounds, Reject
<1> QED
  BY <1>1, <1>3, <1>4, <1>5, <1>6

LEMMA AdmitInv ==
  ASSUME IInv, NEW r \in Responses, Admit(r)
  PROVE  IInv'
<1> USE DEF IInv
<1>1. Open' = Open \union {r} /\ r \notin Open
  BY DEF Admit, Open, ListensWhileOpen
<1>2. Ended' = Ended
  BY DEF Admit, Ended, ListensWhileOpen
<1>3. IsFiniteSet(Open') /\ Cardinality(Open') = Cardinality(Open) + 1
  BY <1>1, FS_AddElement DEF Finite
<1>4. TypeOK'
  <2>1. active + 1 \in Nat /\ peak' \in Nat /\ active' \in Nat
    BY DEF TypeOK, Admit
  <2>2. listening' \in [Responses -> SUBSET Events]
    BY DEF TypeOK, Admit, Watched, Events
  <2> QED
    BY <2>1, <2>2 DEF TypeOK, Admit, logging
<1>5. ListensWhileOpen'
  <2>1. \A q \in Open' : listening'[q] = Watched
    BY <1>1 DEF ListensWhileOpen, Admit, TypeOK, Open
  <2>2. \A q \in Ended' : listening'[q] = {}
    BY <1>2 DEF ListensWhileOpen, Admit, TypeOK, Ended
  <2> QED
    BY <2>1, <2>2 DEF ListensWhileOpen, Admit
<1>6. active' = Cardinality(Open)'
  BY <1>3 DEF Admit
<1>7. Bounds'
  BY LimitAssumption DEF Bounds, Admit, Full, TypeOK
<1>8. Finite' /\ CountedOnce'
  BY <1>2, <1>3 DEF Finite, CountedOnce, Admit, logging
<1> QED
  BY <1>4, <1>5, <1>6, <1>7, <1>8

\* The first event of a response gives its slot back, the second does nothing.
LEMMA EmitInv ==
  ASSUME IInv, NEW r \in Responses, NEW e \in Events, Emit(r, e)
  PROVE  IInv'
<1> USE DEF IInv
<1>1. emitted'[r] # {} /\ \A q \in Responses \ {r} : emitted'[q] = emitted[q]
  BY DEF Emit, TypeOK
<1>2. r \in admitted /\ admitted' = admitted /\ admitted \subseteq Responses
  BY DEF Emit, TypeOK
<1>3. Open' = Open \ {r} /\ Ended' = Ended \union {r}
  BY <1>1, <1>2 DEF Open, Ended
<1>4. CASE r \in Open
  <2>1. e \in listening[r]
    BY <1>4 DEF ListensWhileOpen, Watched, Events
  <2>2. /\ listening' = [listening EXCEPT ![r] = {}]
        /\ active' = active - 1
        /\ completed' = completed + 1
    BY <2>1 DEF Emit, Rest, Released
  <2>3. IsFiniteSet(Open') /\ Cardinality(Open') = Cardinality(Open) - 1
    BY <1>3, <1>4, FS_RemoveElement DEF Finite
  <2>4. IsFiniteSet(Ended') /\ Cardinality(Ended') = Cardinality(Ended) + 1
    <3>1. r \notin Ended
      BY <1>4 DEF Open, Ended
    <3> QED
      BY <1>3, <3>1, FS_AddElement DEF Finite
  <2>5. active' \in Nat
    <3>1. Cardinality(Open') \in Nat
      BY <2>3, FS_CardinalityType
    <3> QED
      BY <2>2, <2>3, <3>1
  <2>6. TypeOK'
    <3>1. emitted' \in [Responses -> SUBSET Events]
      BY DEF TypeOK, Emit
    <3>2. listening' \in [Responses -> SUBSET Events]
      BY <2>2 DEF TypeOK
    <3>3. completed' \in Nat
      BY <2>2 DEF TypeOK
    <3> QED
      BY <2>5, <3>1, <3>2, <3>3 DEF TypeOK, Emit, logging
  <2>7. ListensWhileOpen'
    <3>1. \A q \in Responses \ {r} : listening'[q] = listening[q]
      BY <2>2 DEF TypeOK
    <3>2. listening'[r] = {}
      BY <2>2 DEF TypeOK
    <3>3. \A q \in Responses : q \notin admitted' => emitted'[q] = {}
      BY <1>1, <1>2 DEF ListensWhileOpen
    <3>4. Open \subseteq Responses /\ Ended \subseteq Responses
      BY <1>2 DEF Open, Ended
    <3> QED
      BY <1>3, <3>1, <3>2, <3>3, <3>4 DEF ListensWhileOpen, Watched
  <2>8. Bounds'
    BY <2>2, LimitAssumption DEF Bounds, Emit, TypeOK
  <2>9. CountedOnce'
    <3>1. Cardinality(Ended) \in Nat
      BY FS_CardinalityType DEF Finite
    <3> QED
      BY <2>2, <2>4, <3>1 DEF CountedOnce, Emit, logging, TypeOK
  <2> QED
    BY <2>2, <2>3, <2>4, <2>6, <2>7, <2>8, <2>9 DEF Finite, Emit
<1>5. CASE r \notin Open
  <2>1. r \in Ended
    BY <1>2, <1>5 DEF Open, Ended
  <2>2. UNCHANGED <<listening, active, completed>>
    BY <2>1 DEF Emit, ListensWhileOpen
  <2>3. Open' = Open /\ Ended' = Ended
    BY <1>3, <1>5, <2>1
  <2>4. TypeOK'
    BY <2>2 DEF TypeOK, Emit, logging
  <2>5. ListensWhileOpen'
    BY <1>1, <1>2, <2>2, <2>3 DEF ListensWhileOpen, Watched
  <2> QED
    BY <2>2, <2>3, <2>4, <2>5 DEF Finite, Bounds, CountedOnce, Emit, logging
<1> QED
  BY <1>4, <1>5

LEMMA SnapshotInv ==
  ASSUME IInv, Snapshot
  PROVE  IInv'
<1> USE DEF IInv
<1>1. Open' = Open /\ Ended' = Ended
  BY DEF Snapshot, Open, Ended
<1>2. TypeOK'
  BY DEF TypeOK, Snapshot
<1>3. CountedOnce'
  BY <1>1 DEF CountedOnce, Snapshot, TypeOK
<1>4. Bounds'
  BY LimitAssumption DEF Bounds, Snapshot, TypeOK
<1> QED
  BY <1>1, <1>2, <1>3, <1>4 DEF Finite, ListensWhileOpen, Snapshot

LEMMA StopInv ==
  ASSUME IInv, Stop
  PROVE  IInv'
BY DEF IInv, TypeOK, ListensWhileOpen, Finite, Bounds, CountedOnce, Open, Ended, Stop, counters

LEMMA NextInv ==
  ASSUME IInv, [Next]_vars
  PROVE  IInv'
<1>1. CASE UNCHANGED vars
  BY <1>1, Unchanged
<1>2. CASE Next
  <2>1. ASSUME NEW r \in Responses, Reject(r)
        PROVE  IInv'
    BY <2>1, RejectInv
  <2>2. ASSUME NEW r \in Responses, Admit(r)
        PROVE  IInv'
    BY <2>2, AdmitInv
  <2>3. ASSUME NEW r \in Responses, NEW e \in Events, Emit(r, e)
        PROVE  IInv'
    BY <2>3, EmitInv
  <2> QED
    BY <1>2, <2>1, <2>2, <2>3, SnapshotInv, StopInv DEF Next
<1> QED
  BY <1>1, <1>2

THEOREM GuardrailInvariant == Spec => []IInv
<1>1. Init => IInv
  BY InitInv
<1>2. IInv /\ [Next]_vars => IInv'
  BY NextInv
<1> QED
  BY <1>1, <1>2, PTL DEF Spec

\* The state always has its type; in particular the middleware's count of
\* active responses never becomes negative.
THEOREM GuardrailTypes == Spec => []TypeOK
<1>1. IInv => TypeOK
  BY DEF IInv
<1> QED
  BY <1>1, GuardrailInvariant, PTL

\* Never more than MAX_IN_FLIGHT_REQUESTS responses are open, for any limit and
\* any number of responses ending in any way.
THEOREM LimitKept == Spec => []WithinLimit
<1>1. IInv => WithinLimit
  BY LimitAssumption DEF IInv, WithinLimit, Bounds, TypeOK
<1> QED
  BY <1>1, GuardrailInvariant, PTL

\* The logged peak covers the responses open since the last snapshot.
THEOREM PeakKept == Spec => []PeakCovers
<1>1. IInv => PeakCovers
  BY DEF IInv, PeakCovers, Bounds
<1> QED
  BY <1>1, GuardrailInvariant, PTL

\* Every ended response and every refusal is logged once.
THEOREM CountsKept == Spec => []CountedOnce
<1>1. IInv => CountedOnce
  BY DEF IInv
<1> QED
  BY <1>1, GuardrailInvariant, PTL

-----------------------------------------------------------------------------
(* Leads: what the CRM is told *)

Abouts == {About(f) : f \in Forms} \union {""}
Calls == [step : {"idle", "find", "insert", "forward"}, about : Abouts, lead : BOOLEAN, forward : BOOLEAN, id : Nat]
Jobs == [lead : Ids, attempt : {1, 2}, step : {"send", "sleep"}]

LeadTypes ==
  /\ nextId \in Nat
  /\ call \in [Visitors -> Calls]
  /\ jobs \subseteq Jobs
  /\ crm \in [Ids -> Nat]

\* Nobody has tried to tell the CRM of the lead.
Untold(i) == crm[i] = 0 /\ i \notin lost /\ \A j \in jobs : j.lead # i

\* Before the first attempt the CRM has nothing, afterwards what it did not answer.
Underway(j) ==
  /\ j.lead < nextId /\ j.lead \notin lost
  /\ crm[j.lead] <= 1
  /\ crm[j.lead] = 1 => j.lead \in unanswered /\ (j.attempt = 2 \/ j.step = "sleep")
  /\ j.attempt = 2 => j.step = "send"

\* The request has stored the lead and is about to forward it.
Holds(v, i) == call[v].step = "forward" /\ call[v].id = i

\* A lead is in the hands of one request or of one forwarding.
OneHand ==
  /\ \A v, w \in Visitors, i \in Ids : Holds(v, i) /\ Holds(w, i) => v = w
  /\ \A j, k \in jobs : j.lead = k.lead => j = k

LeadsInv ==
  /\ LeadTypes
  /\ OneHand
  /\ \A i \in Ids : i >= nextId => Untold(i)
  /\ \A v \in Visitors : call[v].step = "forward" => call[v].id \in Ids
  /\ \A v \in Visitors, i \in Ids : Holds(v, i) => i < nextId /\ Untold(i)
  /\ \A j \in jobs : Underway(j)
  /\ ToldAtMostTwice

LEMMA LeadsFirst == LeadsInit => LeadsInv
<1> SUFFICES ASSUME LeadsInit
             PROVE  LeadsInv
  OBVIOUS
<1>1. Idle \in Calls
  BY DEF Idle, Calls, Abouts
<1>2. LeadTypes
  BY <1>1 DEF LeadsInit, LeadTypes
<1>3. \A v \in Visitors : call[v].step # "forward"
  BY DEF LeadsInit, Idle
<1>4. \A i \in Ids : Untold(i)
  BY DEF LeadsInit, Untold
<1>5. ToldAtMostTwice
  BY DEF LeadsInit, ToldAtMostTwice, Ids
<1> QED  BY <1>2, <1>3, <1>4, <1>5 DEF LeadsInit, LeadsInv, OneHand, Holds

\* A step of a request that neither makes a row nor starts a forwarding.
LEMMA CallInv ==
  ASSUME LeadsInv, NEW v \in Visitors, NEW c \in Calls, c.step # "forward",
         call' = [call EXCEPT ![v] = c], UNCHANGED <<nextId, jobs, crm, unanswered, lost>>
  PROVE  LeadsInv'
<1>1. call' \in [Visitors -> Calls] /\ \A w \in Visitors : call'[w].step = "forward" => w # v /\ call'[w] = call[w]
  BY DEF LeadsInv, LeadTypes
<1> QED
  BY <1>1 DEF LeadsInv, LeadTypes, OneHand, Holds, Untold, Underway, ToldAtMostTwice

LEMMA SubmitInv ==
  ASSUME LeadsInv, NEW v \in Visitors, NEW f \in Forms, Submit(v, f)
  PROVE  LeadsInv'
<1> DEFINE c == [step |-> IF AboutPlace(f) THEN "find" ELSE "insert", about |-> About(f),
                 lead |-> f.kind # "submission", forward |-> Forwarded(f), id |-> 0]
<1>1. c \in Calls /\ c.step # "forward"
  BY DEF Calls, Abouts, Forwarded
<1> HIDE DEF c
<1> QED  BY <1>1, CallInv DEF Submit, c

LEMMA FindPlaceInv ==
  ASSUME LeadsInv, NEW v \in Visitors, FindPlace(v)
  PROVE  LeadsInv'
<1> DEFINE c == IF call[v].about \in places THEN [call[v] EXCEPT !.step = "insert"] ELSE Idle
<1>1. c \in Calls /\ c.step # "forward"
  BY DEF Calls, Abouts, Idle, LeadsInv, LeadTypes
<1>2. call' = [call EXCEPT ![v] = c] /\ UNCHANGED <<nextId, jobs, crm, unanswered, lost>>
  BY DEF FindPlace
<1> HIDE DEF c
<1> QED  BY <1>1, <1>2, CallInv

\* A new lead has an id that nobody knows.
LEMMA InsertLeadInv ==
  ASSUME LeadsInv, NEW v \in Visitors, InsertLead(v)
  PROVE  LeadsInv'
<1>1. nextId \in Ids /\ nextId \in Nat /\ UNCHANGED <<jobs, crm, unanswered, lost>>
  BY DEF InsertLead, LeadsInv, LeadTypes
<1>2. CASE call' = [call EXCEPT ![v] = Idle] /\ UNCHANGED nextId
  BY <1>1, <1>2, CallInv DEF Idle, Calls, Abouts
<1>3. CASE nextId' = nextId + 1 /\ call' = [call EXCEPT ![v].step = "forward", ![v].id = nextId]
  <2>1. call' \in [Visitors -> Calls]
    BY <1>1, <1>3 DEF LeadsInv, LeadTypes, Calls
  <2>2. call'[v].id = nextId /\ \A w \in Visitors \ {v} : call'[w] = call[w]
    BY <1>3 DEF LeadsInv, LeadTypes, Calls
  <2>3. \A i \in Ids : Untold(i)' <=> Untold(i)
    BY <1>1 DEF Untold
  <2>4. LeadTypes'
    BY <1>1, <1>3, <2>1 DEF LeadsInv, LeadTypes
  <2>5. \A i \in Ids : i \in Int
    BY BoundsAssumption DEF Ids
  <2>6. \A i \in Ids : i >= nextId' => Untold(i)'
    BY <1>1, <1>3, <2>3, <2>5 DEF LeadsInv
  <2>7. \A w \in Visitors : call'[w].step = "forward" => call'[w].id \in Ids
    BY <1>1, <2>2 DEF LeadsInv
  <2>10. ASSUME NEW w \in Visitors, NEW i \in Ids, Holds(w, i)'
         PROVE  i < nextId' /\ Untold(i)' /\ (w = v => i = nextId) /\ (w # v => Holds(w, i) /\ i < nextId)
    <3>1. CASE w = v
      <4>1. i = nextId /\ Untold(i)
        BY <1>1, <2>2, <2>5, <2>10, <3>1 DEF LeadsInv, Holds
      <4> QED  BY <1>1, <1>3, <2>3, <3>1, <4>1
    <3>2. CASE w # v
      <4>1. Holds(w, i)
        BY <2>2, <2>10, <3>2 DEF Holds
      <4>2. i < nextId /\ Untold(i)
        BY <4>1 DEF LeadsInv
      <4> QED  BY <1>1, <1>3, <2>3, <2>5, <3>2, <4>1, <4>2
    <3> QED  BY <3>1, <3>2
  <2>8. OneHand'
    <3>1. \A w, x \in Visitors, i \in Ids : Holds(w, i)' /\ Holds(x, i)' => w = x
      BY <1>1, <2>5, <2>10 DEF LeadsInv, OneHand
    <3> QED  BY <1>1, <3>1 DEF LeadsInv, OneHand
  <2>9. \A j \in jobs' : Underway(j)'
    <3>1. \A j \in jobs : j.lead \in Int
      BY <2>5 DEF LeadsInv, LeadTypes, Jobs
    <3> QED  BY <1>1, <1>3, <3>1 DEF LeadsInv, Underway
  <2>11. ToldAtMostTwice'
    BY <1>1 DEF LeadsInv, ToldAtMostTwice
  <2> QED  BY <2>4, <2>6, <2>7, <2>8, <2>9, <2>10, <2>11 DEF LeadsInv
<1> QED  BY <1>2, <1>3 DEF InsertLead

LEMMA StartForwardInv ==
  ASSUME LeadsInv, NEW v \in Visitors, StartForward(v)
  PROVE  LeadsInv'
<1>0. PICK i : i = call[v].id
  OBVIOUS
<1> DEFINE n == [lead |-> i, attempt |-> 1, step |-> "send"]
<1>1. call' = [call EXCEPT ![v] = Idle] /\ UNCHANGED <<nextId, crm, unanswered, lost>>
  BY DEF StartForward
<1>2. i \in Ids /\ i < nextId /\ Untold(i) /\ Holds(v, i)
  BY <1>0 DEF StartForward, LeadsInv, Holds
<1>3. CASE UNCHANGED jobs
  BY <1>1, <1>3, CallInv DEF Idle, Calls, Abouts
<1>4. CASE jobs' = jobs \union {n}
  <2>1. call' \in [Visitors -> Calls] /\ \A w \in Visitors : call'[w].step = "forward" => w # v /\ call'[w] = call[w]
    BY <1>1 DEF LeadsInv, LeadTypes, Calls, Abouts, Idle
  <2>2. LeadTypes'
    BY <1>1, <1>2, <1>4, <2>1 DEF LeadsInv, LeadTypes, Jobs
  <2>3. \A k \in Ids \ {i} : Untold(k) => Untold(k)'
    BY <1>1, <1>4 DEF Untold
  <2>4. \A k \in Ids : k >= nextId' => Untold(k)'
    <3>1. nextId \in Int /\ i \in Int
      BY <1>2, BoundsAssumption DEF LeadsInv, LeadTypes, Ids
    <3> QED  BY <1>1, <1>2, <2>3, <3>1 DEF LeadsInv
  <2>5. \A w \in Visitors, k \in Ids : Holds(w, k)' => w # v /\ Holds(w, k)
    BY <2>1 DEF Holds
  <2>6. \A w \in Visitors, k \in Ids : Holds(w, k)' => k < nextId' /\ Untold(k)'
    BY <1>1, <1>2, <2>3, <2>5 DEF LeadsInv, OneHand
  <2>7. \A w \in Visitors : call'[w].step = "forward" => call'[w].id \in Ids
    BY <2>1 DEF LeadsInv
  <2>8. \A j \in jobs : j.lead # i
    BY <1>2 DEF Untold
  <2>9. OneHand'
    BY <1>4, <2>5, <2>8 DEF LeadsInv, OneHand
  <2> HIDE DEF n
  <2>10. Underway(n)'
    BY <1>1, <1>2 DEF Underway, Untold, n
  <2>11. \A j \in jobs' : Underway(j)'
    BY <1>1, <1>4, <2>10 DEF LeadsInv, Underway
  <2>12. ToldAtMostTwice'
    BY <1>1 DEF LeadsInv, ToldAtMostTwice
  <2> QED  BY <2>2, <2>4, <2>6, <2>7, <2>9, <2>11, <2>12 DEF LeadsInv
<1> QED  BY <1>0, <1>3, <1>4 DEF StartForward

\* A step of the forwarding j: it goes on as n, if at all, and no other is touched.
LEMMA JobInv ==
  ASSUME LeadsInv, NEW j \in jobs, UNCHANGED <<nextId, call>>,
         LeadTypes', jobs' \subseteq (jobs \ {j}) \union {k \in Jobs : k.lead = j.lead},
         \A k, m \in jobs' : k.lead = j.lead /\ m.lead = j.lead => k = m,
         \A i \in Ids \ {j.lead} : /\ crm'[i] = crm[i] /\ (i \in lost' <=> i \in lost)
                                   /\ (i \in unanswered' <=> i \in unanswered),
         \A k \in jobs' : k.lead = j.lead => Underway(k)',
         crm'[j.lead] <= 2, crm'[j.lead] = 2 => j.lead \in unanswered', j.lead \in lost' => crm'[j.lead] = 0
  PROVE  LeadsInv'
<1>1. j.lead \in Ids /\ j.lead \in Int /\ nextId \in Int /\ j.lead < nextId
  BY BoundsAssumption DEF LeadsInv, LeadTypes, Jobs, Ids, Underway
<1>2. \A k \in jobs' : k.lead # j.lead => k \in jobs
  OBVIOUS
<1>3. \A k \in jobs : k \in Jobs
  BY DEF LeadsInv, LeadTypes
<1>4. OneHand'
  BY <1>2 DEF LeadsInv, OneHand, Holds
<1>5. \A i \in Ids \ {j.lead} : Untold(i) => Untold(i)'
  BY <1>2 DEF Untold
<1>6. \A i \in Ids : i >= nextId' => Untold(i)'
  BY <1>1, <1>5 DEF LeadsInv
<1>7. \A v \in Visitors, i \in Ids : Holds(v, i)' => i < nextId' /\ Untold(i)'
  <2> SUFFICES ASSUME NEW v \in Visitors, NEW i \in Ids, Holds(v, i)'
               PROVE  i < nextId' /\ Untold(i)'
    OBVIOUS
  <2>1. Holds(v, i) /\ i < nextId /\ Untold(i)
    BY DEF LeadsInv, Holds
  <2>2. i # j.lead
    BY <2>1 DEF Untold
  <2> QED  BY <1>5, <2>1, <2>2
<1>8. \A k \in jobs' : Underway(k)'
  <2> SUFFICES ASSUME NEW k \in jobs', k.lead # j.lead
               PROVE  Underway(k)'
    OBVIOUS
  <2>1. k \in jobs /\ k.lead \in Ids /\ Underway(k)
    BY <1>2, <1>3 DEF LeadsInv, Jobs
  <2> QED  BY <2>1 DEF Underway
<1>9. ToldAtMostTwice'
  <2> SUFFICES ASSUME NEW i \in Ids
               PROVE  crm'[i] <= 2 /\ (crm'[i] = 2 => i \in unanswered') /\ (i \in lost' => crm'[i] = 0)
    BY DEF ToldAtMostTwice, Ids
  <2>1. CASE i = j.lead
    BY <2>1
  <2>2. CASE i # j.lead
    BY <2>2 DEF LeadsInv, ToldAtMostTwice
  <2> QED  BY <2>1, <2>2
<1> QED  BY <1>4, <1>6, <1>7, <1>8, <1>9 DEF LeadsInv

LEMMA WakeInv ==
  ASSUME LeadsInv, NEW j \in jobs, Wake(j)
  PROVE  LeadsInv'
<1> DEFINE n == [j EXCEPT !.step = "send", !.attempt = j.attempt + 1]
<1>1. j \in Jobs /\ j.lead \in Ids /\ Underway(j) /\ j.step = "sleep"
  BY DEF LeadsInv, LeadTypes, Jobs, Wake
<1>2. j.attempt = 1 /\ j.attempt + 1 = 2
  BY <1>1 DEF Underway, Jobs
<1>3. n \in Jobs /\ n.lead = j.lead /\ n.attempt = 2 /\ n.step = "send"
  BY <1>1, <1>2 DEF Jobs
<1>4. jobs' = (jobs \ {j}) \union {n} /\ UNCHANGED <<nextId, call, crm, unanswered, lost>>
  BY DEF Wake
<1> HIDE DEF n
<1>5. LeadTypes'
  BY <1>3, <1>4 DEF LeadsInv, LeadTypes
<1>6. \A k \in jobs' : k.lead = j.lead => k = n
  BY <1>4 DEF LeadsInv, OneHand
<1>7. Underway(n)'
  BY <1>1, <1>3, <1>4 DEF Underway
<1>8. crm[j.lead] <= 2 /\ (crm[j.lead] = 2 => j.lead \in unanswered) /\ (j.lead \in lost => crm[j.lead] = 0)
  BY <1>1 DEF LeadsInv, ToldAtMostTwice, Ids
<1> QED  BY <1>3, <1>4, <1>5, <1>6, <1>7, <1>8, JobInv

\* The first attempt is followed by a pause, the second by nothing.
LEMMA SentInv ==
  ASSUME LeadsInv, NEW j \in jobs, Sent(j)
  PROVE  LeadsInv'
<1> DEFINE i == j.lead
           n == [j EXCEPT !.step = "sleep"]
<1>1. j \in Jobs /\ i \in Ids /\ Underway(j) /\ j.step = "send" /\ UNCHANGED <<nextId, call>>
  BY DEF LeadsInv, LeadTypes, Jobs, Sent
<1>2. /\ crm[i] \in Nat /\ crm[i] <= 1 /\ (crm[i] = 1 => i \in unanswered /\ j.attempt = 2)
      /\ i < nextId /\ i \notin lost
  BY <1>1 DEF Underway, LeadsInv, LeadTypes
<1>3. n \in Jobs /\ n.lead = i /\ n.attempt = j.attempt /\ n.step = "sleep"
  BY <1>1 DEF Jobs
<1> HIDE DEF n
<1>4. \A k \in jobs \ {j} : k.lead # i
  BY DEF LeadsInv, OneHand
<1>5. ASSUME crm' \in [Ids -> Nat], jobs' = jobs \ {j},
             \A h \in Ids \ {i} : /\ crm'[h] = crm[h] /\ (h \in lost' <=> h \in lost)
                                  /\ (h \in unanswered' <=> h \in unanswered),
             crm'[i] <= 2, crm'[i] = 2 => i \in unanswered', i \in lost' => crm'[i] = 0
      PROVE  LeadsInv'
  <2>1. LeadTypes'
    BY <1>1, <1>5 DEF LeadsInv, LeadTypes
  <2> QED  BY <1>1, <1>4, <1>5, <2>1, JobInv
<1>6. ASSUME crm' \in [Ids -> Nat], jobs' = (jobs \ {j}) \union {n}, UNCHANGED lost, j.attempt = 1,
             \A h \in Ids \ {i} : crm'[h] = crm[h] /\ (h \in unanswered' <=> h \in unanswered),
             crm'[i] <= 1, crm'[i] = 1 => i \in unanswered'
      PROVE  LeadsInv'
  <2>1. LeadTypes'
    BY <1>1, <1>3, <1>6 DEF LeadsInv, LeadTypes
  <2>2. Underway(n)'
    BY <1>1, <1>2, <1>3, <1>6 DEF Underway
  <2>3. \A k \in jobs' : k.lead = i => k = n
    BY <1>4, <1>6
  <2>4. crm'[i] <= 2 /\ crm'[i] # 2
    BY <1>1, <1>6
  <2> QED  BY <1>1, <1>2, <1>3, <1>6, <2>1, <2>2, <2>3, <2>4, JobInv
<1>7. CASE crm' = [crm EXCEPT ![i] = crm[i] + 1] /\ jobs' = jobs \ {j} /\ UNCHANGED <<unanswered, lost>>
  <2>1. crm' \in [Ids -> Nat] /\ crm'[i] = crm[i] + 1 /\ \A h \in Ids \ {i} : crm'[h] = crm[h]
    BY <1>1, <1>7 DEF LeadsInv, LeadTypes
  <2> QED  BY <1>2, <1>5, <1>7, <2>1
<1>8. CASE crm' = [crm EXCEPT ![i] = crm[i] + 1] /\ unanswered' = unanswered \union {i} /\ Again(j)
  <2>1. crm' \in [Ids -> Nat] /\ crm'[i] = crm[i] + 1 /\ \A h \in Ids \ {i} : crm'[h] = crm[h]
    BY <1>1, <1>8 DEF LeadsInv, LeadTypes
  <2>2. CASE j.attempt < 2
    <3>1. j.attempt = 1 /\ jobs' = (jobs \ {j}) \union {n} /\ UNCHANGED lost
      BY <1>1, <1>8, <2>2 DEF Again, Jobs, n
    <3> QED  BY <1>2, <1>6, <1>8, <2>1, <3>1
  <2>3. CASE ~(j.attempt < 2)
    <3>1. jobs' = jobs \ {j} /\ UNCHANGED lost
      BY <1>2, <1>8, <2>1, <2>3 DEF Again
    <3> QED  BY <1>2, <1>5, <1>8, <2>1, <3>1
  <2> QED  BY <2>2, <2>3
<1>9. CASE UNCHANGED <<crm, unanswered>> /\ Again(j)
  <2>1. crm' \in [Ids -> Nat] /\ crm' = crm
    BY <1>9 DEF LeadsInv, LeadTypes
  <2>2. CASE j.attempt < 2
    <3>1. j.attempt = 1 /\ jobs' = (jobs \ {j}) \union {n} /\ UNCHANGED lost
      BY <1>1, <1>9, <2>2 DEF Again, Jobs, n
    <3> QED  BY <1>2, <1>6, <1>9, <2>1, <3>1
  <2>3. CASE ~(j.attempt < 2)
    <3>1. jobs' = jobs \ {j} /\ lost' = IF crm[i] = 0 THEN lost \union {i} ELSE lost
      BY <1>9, <2>3 DEF Again
    <3>2. \A h \in Ids \ {i} : h \in lost' <=> h \in lost
      BY <3>1
    <3>3. i \in lost' => crm'[i] = 0
      BY <1>2, <2>1, <3>1
    <3> QED  BY <1>2, <1>5, <1>9, <2>1, <3>1, <3>2, <3>3
  <2> QED  BY <2>2, <2>3
<1> QED  BY <1>7, <1>8, <1>9 DEF Sent

\* What the process forgets is lost unless the CRM has it.
LEMMA RestartInv ==
  ASSUME LeadsInv, Restart
  PROVE  LeadsInv'
<1> DEFINE pending == {j.lead : j \in jobs} \union {call[v].id : v \in {w \in Visitors : call[w].step = "forward"}}
<1>1. /\ lost' = lost \union {i \in pending : crm[i] = 0} /\ jobs' = {} /\ call' = [v \in Visitors |-> Idle]
      /\ UNCHANGED <<nextId, crm, unanswered>>
  BY DEF Restart
<1>2. \A i \in pending : i < nextId
  BY DEF LeadsInv, Underway, Holds
<1> HIDE DEF pending
<1>3. LeadTypes'
  BY <1>1 DEF LeadsInv, LeadTypes, Calls, Abouts, Idle
<1>4. \A v \in Visitors : call'[v].step # "forward"
  BY <1>1 DEF Idle
<1>5. OneHand'
  BY <1>1, <1>4 DEF OneHand, Holds
<1>6. \A i \in Ids : i >= nextId' => Untold(i)'
  <2> SUFFICES ASSUME NEW i \in Ids, i >= nextId
               PROVE  Untold(i)'
    BY <1>1
  <2>1. Untold(i)
    BY DEF LeadsInv
  <2>2. i \in Int /\ nextId \in Int
    BY BoundsAssumption DEF Ids, LeadsInv, LeadTypes
  <2>3. i \notin pending
    BY <1>2, <2>2
  <2> QED  BY <1>1, <2>1, <2>3 DEF Untold
<1>7. ToldAtMostTwice'
  BY <1>1 DEF LeadsInv, ToldAtMostTwice
<1> QED  BY <1>1, <1>3, <1>4, <1>5, <1>6, <1>7 DEF LeadsInv, Holds

\* crm-forwarding: the CRM is told of a lead twice only if its first answer was lost,
\* and never more often; a lead that is given up is one it does not have.  For any
\* number of visitors, enquiries and restarts.
THEOREM ToldTwiceAtMost == LeadsSpec => []ToldAtMostTwice
<1>1. LeadsInv /\ [LeadsNext]_leadsVars => LeadsInv'
  <2> SUFFICES ASSUME LeadsInv, [LeadsNext]_leadsVars
               PROVE  LeadsInv'
    OBVIOUS
  <2>1. CASE Remove \/ UNCHANGED leadsVars
    <3>1. UNCHANGED <<nextId, call, jobs, crm, unanswered, lost>>
      BY <2>1 DEF Remove, leadsVars
    <3> QED  BY <3>1 DEF LeadsInv, LeadTypes, OneHand, Holds, Untold, Underway, ToldAtMostTwice
  <2> QED
    BY <2>1, SubmitInv, FindPlaceInv, InsertLeadInv, StartForwardInv, SentInv, WakeInv, RestartInv DEF LeadsNext
<1>2. LeadsInv => ToldAtMostTwice
  BY DEF LeadsInv
<1> QED
  BY <1>1, <1>2, LeadsFirst, PTL DEF LeadsSpec

-----------------------------------------------------------------------------
(* Leads: visit dates *)

Length(y) == IF Leap(y) THEN 366 ELSE 365

\* Days before the month.
First(y, m) == MonthStart[m] + IF m > 2 /\ Leap(y) THEN 1 ELSE 0

LEMMA Months ==
  ASSUME NEW y, NEW m \in 1..12
  PROVE  /\ First(y, m) \in Nat /\ DaysIn(y, m) \in 28..31
         /\ m < 12 => First(y, m + 1) = First(y, m) + DaysIn(y, m)
         /\ m = 12 => Length(y) = First(y, m) + DaysIn(y, m)
<1> DEFINE b == Leap(y)
<1>1. /\ MonthStart[1] = 0 /\ MonthStart[2] = 31 /\ MonthStart[3] = 59 /\ MonthStart[4] = 90
      /\ MonthStart[5] = 120 /\ MonthStart[6] = 151 /\ MonthStart[7] = 181 /\ MonthStart[8] = 212
      /\ MonthStart[9] = 243 /\ MonthStart[10] = 273 /\ MonthStart[11] = 304 /\ MonthStart[12] = 334
  BY DEF MonthStart
<1>2. m \in {1, 2, 3, 4, 5, 6, 7, 8, 9, 10, 11, 12}
  OBVIOUS
<1>3. CASE Leap(y)
  BY <1>1, <1>2, <1>3 DEF First, DaysIn, Length
<1>4. CASE ~Leap(y)
  BY <1>1, <1>2, <1>4 DEF First, DaysIn, Length
<1> QED  BY <1>3, <1>4

\* A later month begins after the earlier one has ended.
LEMMA MonthsInOrder ==
  ASSUME NEW y, NEW m \in 1..12, NEW n \in 1..12, m < n
  PROVE  First(y, m) + DaysIn(y, m) <= First(y, n)
<1>0. m + 1 \in 1..12 /\ First(y, m + 1) = First(y, m) + DaysIn(y, m) /\ First(y, m + 1) \in Nat
  <2>1. m + 1 \in 1..12 /\ m < 12
    OBVIOUS
  <2> QED  BY <2>1, Months
<1>1. /\ First(y, 2) = 31 /\ First(y, 3) >= 59 /\ First(y, 12) >= 334
      /\ First(y, 3) <= First(y, 4) /\ First(y, 4) <= First(y, 5) /\ First(y, 5) <= First(y, 6)
      /\ First(y, 6) <= First(y, 7) /\ First(y, 7) <= First(y, 8) /\ First(y, 8) <= First(y, 9)
      /\ First(y, 9) <= First(y, 10) /\ First(y, 10) <= First(y, 11) /\ First(y, 11) <= First(y, 12)
      /\ \A k \in 1..12 : First(y, k) \in Nat
  BY Months DEF First, MonthStart
<1>2. PICK k \in 1..12 : k = m + 1
  BY <1>0
<1>3. k <= n /\ k # 1
  BY <1>2
<1>4. First(y, k) <= First(y, n)
  <2>1. k \in {2, 3, 4, 5, 6, 7, 8, 9, 10, 11, 12} /\ n \in {2, 3, 4, 5, 6, 7, 8, 9, 10, 11, 12}
    BY <1>3
  <2>2. CASE n \in {2, 3, 4, 5, 6, 7}
    BY <1>1, <1>3, <2>1, <2>2
  <2>3. CASE n \in {8, 9, 10, 11, 12}
    BY <1>1, <1>3, <2>1, <2>3
  <2> QED  BY <2>1, <2>2, <2>3
<1> QED  BY <1>0, <1>2, <1>4

LEMMA DayTyped ==
  ASSUME NEW e \in Date
  PROVE  /\ e[1] \in Nat /\ e[2] \in 1..12 /\ e[3] \in 1..31 /\ e[3] <= DaysIn(e[1], e[2]) /\ e # NoDate
         /\ DayOfYear(e) = First(e[1], e[2]) + e[3]
         /\ DayOfYear(e) \in 1..Length(e[1])
<1>1. e \in Nat \X (1..12) \X (1..31) /\ e[3] <= DaysIn(e[1], e[2])
  BY DEF Date, DateText
<1>2. e[1] \in Nat /\ e[2] \in 1..12 /\ e[3] \in 1..31 /\ e # NoDate
  BY <1>1 DEF NoDate
<1>3. PICK y, m, d : y = e[1] /\ m = e[2] /\ d = e[3]
  OBVIOUS
<1>4. /\ First(y, m) \in Nat /\ DaysIn(y, m) \in 28..31 /\ (m = 12 => Length(y) = First(y, m) + DaysIn(y, m))
      /\ Length(y) = First(y, 12) + DaysIn(y, 12) /\ First(y, 12) \in Nat /\ DaysIn(y, 12) \in 28..31
  BY <1>2, <1>3, Months
<1>5. m < 12 => First(y, m) + DaysIn(y, m) <= First(y, 12)
  BY <1>2, <1>3, MonthsInOrder
<1>6. DayOfYear(e) = First(y, m) + d
  <2>1. MonthStart[m] \in Int
    BY <1>2, <1>3 DEF MonthStart
  <2> QED  BY <1>2, <1>3, <2>1 DEF DayOfYear, First
<1>7. DayOfYear(e) \in 1..Length(y)
  <2>1. CASE m = 12
    BY <1>1, <1>2, <1>3, <1>4, <1>6, <2>1
  <2>2. CASE m < 12
    BY <1>1, <1>2, <1>3, <1>4, <1>5, <1>6, <2>2
  <2> QED  BY <1>2, <1>3, <2>1, <2>2
<1> QED  BY <1>1, <1>2, <1>3, <1>6, <1>7

\* Days since the beginning of the year y.
Since(y, e) == DayOfYear(e) + IF e[1] = y THEN 0 ELSE Length(y)

LEMMA EarlierIs ==
  ASSUME NEW y \in Nat, NEW e \in Date, NEW f \in Date, e[1] - y \in {0, 1}, f[1] - y \in {0, 1}
  PROVE  /\ Since(y, e) \in Nat /\ Since(y, f) \in Nat
         /\ Earlier(e, f) <=> Since(y, e) < Since(y, f)
<1>1. ASSUME NEW a \in Date, NEW b \in Date, a[1] - y \in {0, 1}, b[1] - y \in {0, 1}, Earlier(a, b)
      PROVE  Since(y, a) < Since(y, b)
  <2>0. Length(y) \in {365, 366}
    BY DEF Length
  <2>1. CASE a[1] < b[1]
    <3>1. a[1] = y /\ b[1] = y + 1 /\ a[1] # b[1] /\ b[1] # y
      BY <1>1, <2>1, DayTyped
    <3>2. DayOfYear(a) \in 1..Length(y) /\ DayOfYear(b) \in 1..Length(b[1]) /\ Length(b[1]) \in {365, 366}
      BY <3>1, DayTyped DEF Length
    <3> QED  BY <2>0, <3>1, <3>2 DEF Since
  <2>2. CASE a[1] = b[1] /\ a[2] < b[2]
    <3>1. First(a[1], a[2]) + DaysIn(a[1], a[2]) <= First(a[1], b[2])
      BY <2>2, DayTyped, MonthsInOrder
    <3>2. First(a[1], a[2]) \in Nat /\ First(a[1], b[2]) \in Nat /\ DaysIn(a[1], a[2]) \in 28..31
      BY DayTyped, Months
    <3>3. DayOfYear(a) < DayOfYear(b) /\ DayOfYear(a) \in Nat /\ DayOfYear(b) \in Nat
      BY <2>2, <3>1, <3>2, DayTyped
    <3> QED  BY <2>0, <2>2, <3>3 DEF Since
  <2>3. CASE a[1] = b[1] /\ a[2] = b[2] /\ a[3] < b[3]
    <3>1. First(a[1], a[2]) \in Nat
      BY DayTyped, Months
    <3>2. DayOfYear(a) < DayOfYear(b) /\ DayOfYear(a) \in Nat /\ DayOfYear(b) \in Nat
      BY <2>3, <3>1, DayTyped
    <3> QED  BY <2>0, <2>3, <3>2 DEF Since
  <2> QED  BY <1>1, <2>1, <2>2, <2>3 DEF Earlier
<1>2. Since(y, e) \in Nat /\ Since(y, f) \in Nat
  BY DayTyped DEF Since, Length
<1>3. CASE Earlier(e, f)
  BY <1>1, <1>2, <1>3
<1>4. CASE Earlier(f, e)
  <2>1. ~Earlier(e, f)
    BY <1>4, DayTyped DEF Earlier
  <2> QED  BY <1>1, <1>2, <1>4, <2>1
<1>5. CASE ~Earlier(e, f) /\ ~Earlier(f, e)
  <2>1. e[1] = f[1] /\ e[2] = f[2] /\ e[3] = f[3]
    BY <1>5, DayTyped DEF Earlier
  <2>2. Since(y, e) = Since(y, f)
    BY <2>1 DEF Since, DayOfYear
  <2> QED  BY <1>2, <1>5, <2>2
<1> QED  BY <1>3, <1>4, <1>5

\* The last day that can be booked.
LEMMA ThreeMonths ==
  ASSUME NEW t \in Date
  PROVE  /\ MaxVisitDate(t) \in Date /\ MaxVisitDate(t)[1] - t[1] \in {0, 1}
         /\ Since(t[1], MaxVisitDate(t)) - DayOfYear(t) \in 89..92
<1> DEFINE y == t[1]
           m == t[2]
           d == t[3]
           Y == IF m <= 9 THEN y ELSE y + 1
           M == IF m <= 9 THEN m + 3 ELSE m - 9
<1>1. y \in Nat /\ m \in 1..12 /\ d \in 1..31 /\ d <= DaysIn(y, m) /\ DayOfYear(t) = First(y, m) + d
  BY DayTyped
<1>2. y + (m + 2) \div 12 = Y /\ ((m + 2) % 12) + 1 = M /\ Y \in Nat /\ M \in 1..12
  <2>1. m \in {1, 2, 3, 4, 5, 6, 7, 8, 9, 10, 11, 12}
    BY <1>1
  <2> QED  BY <1>1, <2>1
<1>3. PICK g : g = MaxVisitDate(t)
  OBVIOUS
<1>4. g = IF d <= DaysIn(Y, M) THEN <<Y, M, d>> ELSE <<Y, M + 1, d - DaysIn(Y, M)>>
  BY <1>2, <1>3 DEF MaxVisitDate
<1>5. First(y, m) \in Nat /\ First(Y, M) \in Nat /\ DaysIn(Y, M) \in 28..31
  BY <1>1, <1>2, Months
<1>6. (First(Y, M) + IF Y = y THEN 0 ELSE Length(y)) - First(y, m) \in 89..92
  <2>1. \A x : /\ First(x, 1) = 0 /\ First(x, 2) = 31 /\ First(x, 3) \in {59, 60} /\ First(x, 4) = First(x, 3) + 31
               /\ First(x, 5) = First(x, 3) + 61 /\ First(x, 6) = First(x, 3) + 92 /\ First(x, 7) = First(x, 3) + 122
               /\ First(x, 8) = First(x, 3) + 153 /\ First(x, 9) = First(x, 3) + 184 /\ First(x, 10) = First(x, 3) + 214
               /\ First(x, 11) = First(x, 3) + 245 /\ First(x, 12) = First(x, 3) + 275
               /\ Length(x) = First(x, 3) + 306
    BY DEF First, MonthStart, Length
  <2>2. CASE m <= 9
    <3>1. Y = y /\ M = m + 3 /\ m \in {1, 2, 3, 4, 5, 6, 7, 8, 9}
      BY <1>1, <2>2
    <3> QED  BY <2>1, <3>1
  <2>3. CASE m > 9
    <3>1. Y = y + 1 /\ Y # y /\ M = m - 9 /\ m \in {10, 11, 12}
      BY <1>1, <2>3
    <3> QED  BY <2>1, <3>1
  <2> QED  BY <1>1, <2>2, <2>3
<1>7. g \in Date /\ g[1] = Y /\ DayOfYear(g) = First(Y, M) + d
  <2>1. CASE d <= DaysIn(Y, M)
    <3>1. g = <<Y, M, d>> /\ g \in Date
      BY <1>1, <1>2, <1>4, <2>1 DEF Date, DateText
    <3> QED  BY <3>1, DayTyped
  <2>2. CASE ~(d <= DaysIn(Y, M))
    <3>1. M < 12 /\ M + 1 \in 1..12 /\ d - DaysIn(Y, M) \in 1..3
      BY <1>1, <1>2, <1>5, <2>2 DEF DaysIn
    <3>2. DaysIn(Y, M + 1) \in 28..31
      BY <3>1, Months
    <3>3. g = <<Y, M + 1, d - DaysIn(Y, M)>> /\ g \in Date
      BY <1>2, <1>4, <2>2, <3>1, <3>2 DEF Date, DateText
    <3>4. First(Y, M + 1) = First(Y, M) + DaysIn(Y, M)
      BY <1>2, <3>1, Months
    <3>5. DayOfYear(g) = First(Y, M + 1) + (d - DaysIn(Y, M))
      BY <3>3, DayTyped
    <3> QED  BY <1>1, <1>5, <3>3, <3>4, <3>5
  <2> QED  BY <2>1, <2>2
<1>8. Y - y \in {0, 1}
  BY <1>1
<1>9. Since(y, g) - DayOfYear(t) \in 89..92
  <2>1. Length(y) \in Nat
    BY DEF Length
  <2> QED  BY <1>1, <1>5, <1>6, <1>7, <2>1 DEF Since
<1> QED  BY <1>3, <1>7, <1>8, <1>9

RealDay == today \in Days

\* createPropertyEnquiry: a visit can be booked for each of the next 89 days and for
\* none after 92, whatever day it is and however long the months are.
THEOREM VisitDays == LeadsSpec => []VisitsNear
<1>1. LeadsInit => RealDay
  BY DEF LeadsInit, RealDay
<1>2. RealDay /\ [LeadsNext]_leadsVars => RealDay'
  BY DEF RealDay, LeadsNext, leadsVars, Remove, Restart, Submit, FindPlace, InsertLead, StartForward, Sent, Wake
<1>3. RealDay => VisitsNear
  <2> SUFFICES ASSUME RealDay, NEW f \in Forms,
                      f.intent = "site_visit", f.slot, f.date \in Date, f.date[1] - today[1] \in {0, 1}
               PROVE  /\ ~Earlier(f.date, today) /\ DaysBetween(today, f.date) <= 89 => VisitAccepted(f)
                      /\ VisitAccepted(f) => DaysBetween(today, f.date) \in 0..92
    BY DEF VisitsNear
  <2>1. PICK t, d, g : t = today /\ d = f.date /\ g = MaxVisitDate(today)
    OBVIOUS
  <2>2. t \in Date /\ d \in Date
    BY <2>1, DatesAssumption DEF RealDay
  <2>3. t[1] \in Nat /\ d[1] \in Nat /\ DayOfYear(t) \in Nat /\ DayOfYear(d) \in Nat /\ d # NoDate
    BY <2>2, DayTyped
  <2>4. g \in Date /\ g[1] - t[1] \in {0, 1} /\ Since(t[1], g) - DayOfYear(t) \in 89..92
    BY <2>1, <2>2, ThreeMonths
  <2>5. t[1] - t[1] \in {0, 1} /\ d[1] - t[1] \in {0, 1}
    BY <2>1, <2>3
  <2>6. DaysBetween(t, d) = Since(t[1], d) - DayOfYear(t) /\ Since(t[1], t) = DayOfYear(t)
    BY <2>3 DEF DaysBetween, Since, Length
  <2>7. /\ Earlier(d, t) <=> Since(t[1], d) < Since(t[1], t)
        /\ Earlier(g, d) <=> Since(t[1], g) < Since(t[1], d)
        /\ Since(t[1], d) \in Nat /\ Since(t[1], g) \in Nat
    BY <2>2, <2>3, <2>4, <2>5, EarlierIs
  <2>8. VisitAccepted(f) <=> ~Earlier(d, t) /\ ~Earlier(g, d)
    BY <2>1, <2>3 DEF VisitAccepted
  <2>9. /\ ~Earlier(d, t) /\ DaysBetween(t, d) <= 89 => VisitAccepted(f)
        /\ VisitAccepted(f) => DaysBetween(t, d) \in 0..92
    <3>1. PICK a, b, c : a = Since(t[1], d) /\ b = Since(t[1], g) /\ c = DayOfYear(t)
      OBVIOUS
    <3> QED  BY <2>3, <2>4, <2>6, <2>7, <2>8, <3>1
  <2> QED  BY <2>1, <2>9
<1> QED
  BY <1>1, <1>2, <1>3, PTL DEF LeadsSpec

-----------------------------------------------------------------------------
(* Reviews: how often Google is asked *)

\* The cache expires when the lifetime of the last answer has passed.
Remembered ==
  asked.ever => cache.expires = asked.at + (IF asked.found THEN CacheTtl ELSE FailureRetry)

Clock == now \in Nat /\ cache.expires \in Nat

LEMMA RememberedStays == Clock /\ Remembered /\ [ReviewsNext]_reviewsVars => Clock' /\ Remembered'
<1> SUFFICES ASSUME Clock, Remembered, [ReviewsNext]_reviewsVars
             PROVE  Clock' /\ Remembered'
  OBVIOUS
<1>1. CASE Fetched
  <2>1. PICK value : /\ cache' = [value |-> value, expires |-> now + Lifetime(value)]
                     /\ asked' = [at |-> now, found |-> value # Nothing, ever |-> TRUE] /\ UNCHANGED now
    BY <1>1 DEF Fetched
  <2>2. /\ cache'.expires = now + Lifetime(value) /\ asked'.at = now
        /\ asked'.found <=> value # Nothing
    BY <2>1
  <2>3. CASE value = Nothing
    BY <2>1, <2>2, <2>3, LifetimesAssumption DEF Lifetime, Clock, Remembered
  <2>4. CASE value # Nothing
    BY <2>1, <2>2, <2>4, LifetimesAssumption DEF Lifetime, Clock, Remembered
  <2> QED  BY <2>3, <2>4
<1>2. CASE Tick
  BY <1>2 DEF Tick, Clock, Remembered
<1>3. CASE UNCHANGED <<now, cache, asked>>
  BY <1>3 DEF Clock, Remembered
<1> QED
  BY <1>1, <1>2, <1>3 DEF ReviewsNext, reviewsVars, DetailsThrows, GetCached, Get, Details

\* GoogleReviewsService.get: however many readers come, Google is asked again only when
\* the lifetime of the last answer has passed.
THEOREM GoogleAskedSeldom == ReviewsSpec => AskedSeldom
<1> DEFINE Patient == inFlight = Nothing /\ inFlight' # Nothing /\ asked.ever =>
                        now >= asked.at + (IF asked.found THEN CacheTtl ELSE FailureRetry)
<1>1. ReviewsInit => Clock /\ Remembered
  BY DEF ReviewsInit, Clock, Remembered
<1>2. Clock /\ Remembered /\ [ReviewsNext]_reviewsVars => [Patient]_reviewsVars
  <2> SUFFICES ASSUME Clock, Remembered, ReviewsNext, inFlight = Nothing, inFlight' # Nothing, asked.ever
               PROVE  now >= asked.at + (IF asked.found THEN CacheTtl ELSE FailureRetry)
    OBVIOUS
  <2>1. ~Cached
    BY DEF ReviewsNext, Tick, Fetched, DetailsThrows, GetCached, Get, Details
  <2> QED  BY <2>1 DEF Cached, Clock, Remembered
<1> QED
  BY <1>1, <1>2, RememberedStays, PTL DEF ReviewsSpec, AskedSeldom

-----------------------------------------------------------------------------
(* The routes kept in memory *)

\* What a request has read while nobody committed a change is what the tables
\* say; a request that is not under way has read nothing.
ReadsFresh ==
  \A c \in Callers :
    /\ DOMAIN calls[c] = {"under", "redirects", "paths", "raced"}
    /\ calls[c].under \in BOOLEAN /\ calls[c].raced \in BOOLEAN
    /\ ~calls[c].under => calls[c].redirects = {} /\ calls[c].paths = {}
    /\ ~calls[c].raced => /\ calls[c].redirects \in {{}, {redirects}}
                          /\ calls[c].paths \in {{}, {Routes.paths}}

RoutesInv ==
  /\ clock \in Nat /\ unseen \in Nat
  /\ DOMAIN calls = Callers /\ calls = [c \in Callers |-> calls[c]]
  /\ routingCache = [routes |-> routingCache.routes, expires |-> routingCache.expires, raced |-> routingCache.raced]
  /\ routingCache.expires \in Nat /\ routingCache.raced \in BOOLEAN
  /\ ReadsFresh
  /\ RoutesFresh

\* The CRM's own changes are not about routes.
LEMMA RoutesKept ==
  ASSUME RoutesInv, UNCHANGED <<configs, redirects, routing>>
  PROVE  RoutesInv'
<1>1. Routes' = Routes
  BY DEF Routes, Exists
<1> QED  BY <1>1 DEF RoutesInv, ReadsFresh, RoutesFresh, routing

\* Whoever commits a change is waited for, and races all that are reading.
LEMMA CommittedRoutes ==
  ASSUME RoutesInv, Committed
  PROVE  RoutesInv'
<1>1. /\ unseen' = unseen + 1 /\ UNCHANGED <<routingCache, clock>>
      /\ calls' = [c \in Callers |-> [calls[c] EXCEPT !.raced = calls[c].under]]
  BY DEF Committed
<1>2. unseen' > 0 /\ unseen' \in Nat
  BY <1>1 DEF RoutesInv
<1>3. \A c \in Callers : calls'[c] = [calls[c] EXCEPT !.raced = calls[c].under]
  BY <1>1
<1>4. ReadsFresh'
  <2> SUFFICES ASSUME NEW c \in Callers
               PROVE  /\ DOMAIN calls'[c] = {"under", "redirects", "paths", "raced"}
                      /\ calls'[c].under \in BOOLEAN /\ calls'[c].raced \in BOOLEAN
                      /\ ~calls'[c].under => calls'[c].redirects = {} /\ calls'[c].paths = {}
                      /\ ~calls'[c].raced => /\ calls'[c].redirects \in {{}, {redirects'}}
                                             /\ calls'[c].paths \in {{}, {Routes'.paths}}
    BY DEF ReadsFresh
  <2>1. /\ DOMAIN calls[c] = {"under", "redirects", "paths", "raced"}
        /\ ~calls[c].under => calls[c].redirects = {} /\ calls[c].paths = {}
    BY DEF RoutesInv, ReadsFresh
  <2>2. CASE calls[c].under = TRUE
    BY <1>3, <2>1, <2>2
  <2>3. CASE calls[c].under = FALSE
    BY <1>3, <2>1, <2>3
  <2> QED  BY <2>2, <2>3 DEF RoutesInv, ReadsFresh
<1>5. DOMAIN calls' = Callers /\ calls' = [c \in Callers |-> calls'[c]]
  BY <1>1
<1> QED  BY <1>1, <1>2, <1>4, <1>5 DEF RoutesInv, RoutesFresh

\* A request under way goes on, and changes nothing but what it has read.
LEMMA CallRoutes ==
  ASSUME RoutesInv, NEW c \in Callers, NEW q, calls' = [calls EXCEPT ![c] = q],
         DOMAIN q = {"under", "redirects", "paths", "raced"},
         q.under \in BOOLEAN, q.raced \in BOOLEAN,
         ~q.under => q.redirects = {} /\ q.paths = {},
         ~q.raced => q.redirects \in {{}, {redirects}} /\ q.paths \in {{}, {Routes.paths}},
         UNCHANGED tables
  PROVE  /\ ReadsFresh' /\ Routes' = Routes
         /\ DOMAIN calls' = Callers /\ calls' = [d \in Callers |-> calls'[d]]
<1>1. Routes' = Routes /\ redirects' = redirects
  BY DEF Routes, Exists, tables
<1>2. \A d \in Callers : calls'[d] = IF d = c THEN q ELSE calls[d]
  BY DEF RoutesInv
<1>3. ASSUME NEW d \in Callers
      PROVE  /\ DOMAIN calls'[d] = {"under", "redirects", "paths", "raced"}
             /\ calls'[d].under \in BOOLEAN /\ calls'[d].raced \in BOOLEAN
             /\ ~calls'[d].under => calls'[d].redirects = {} /\ calls'[d].paths = {}
             /\ ~calls'[d].raced => /\ calls'[d].redirects \in {{}, {redirects}}
                                    /\ calls'[d].paths \in {{}, {Routes.paths}}
  <2>1. CASE d = c
    BY <1>2, <2>1
  <2>2. CASE d # c
    BY <1>2, <2>2 DEF RoutesInv, ReadsFresh
  <2> QED  BY <2>1, <2>2
<1>4. ReadsFresh'
  <2>1. \A d \in Callers :
          /\ calls'[d].redirects \in {{}, {redirects}} <=> calls'[d].redirects \in {{}, {redirects'}}
          /\ calls'[d].paths \in {{}, {Routes.paths}} <=> calls'[d].paths \in {{}, {Routes'.paths}}
    BY <1>1
  <2> QED  BY <1>3, <2>1 DEF ReadsFresh
<1>5. DOMAIN calls' = Callers /\ calls' = [d \in Callers |-> calls'[d]]
  BY DEF RoutesInv
<1> QED  BY <1>1, <1>4, <1>5

LEMMA RouteStepRoutes ==
  ASSUME RoutesInv, Route
  PROVE  RoutesInv'
<1>1. CASE ClockTick
  <2>1. Routes' = Routes /\ redirects' = redirects
    BY <1>1 DEF ClockTick, tables, Routes, Exists
  <2>2. clock' = clock + 1 /\ UNCHANGED <<routingCache, calls, unseen>>
    BY <1>1 DEF ClockTick
  <2>3. ReadsFresh'
    BY <2>1, <2>2 DEF RoutesInv, ReadsFresh
  <2> QED  BY <2>1, <2>2, <2>3 DEF RoutesInv, RoutesFresh
<1>2. CASE Invalidate
  <2>1. Routes' = Routes /\ redirects' = redirects
    BY <1>2 DEF Invalidate, tables, Routes, Exists
  <2>2. /\ unseen > 0 /\ unseen' = unseen - 1 /\ UNCHANGED <<calls, clock>>
        /\ routingCache' = [routes |-> routingCache.routes, expires |-> 0, raced |-> routingCache.raced]
    BY <1>2 DEF Invalidate, RoutesInv
  <2>3. ReadsFresh'
    BY <2>1, <2>2 DEF RoutesInv, ReadsFresh
  <2> QED  BY <2>1, <2>2, <2>3 DEF RoutesInv, RoutesFresh
<1>3. ASSUME NEW c \in Callers, StartRouting(c)
      PROVE  RoutesInv'
  <2> DEFINE q == [NoCall EXCEPT !.under = TRUE]
  <2>1. calls' = [calls EXCEPT ![c] = q] /\ UNCHANGED <<tables, routingCache, unseen, clock>>
    BY <1>3 DEF StartRouting
  <2>9. /\ DOMAIN q = {"under", "redirects", "paths", "raced"}
        /\ q.under = TRUE /\ q.raced = FALSE /\ q.redirects = {} /\ q.paths = {}
    BY DEF NoCall
  <2> HIDE DEF q
  <2>2. /\ ReadsFresh' /\ Routes' = Routes
        /\ DOMAIN calls' = Callers /\ calls' = [d \in Callers |-> calls'[d]]
    BY <2>1, <2>9, CallRoutes
  <2> QED  BY <2>1, <2>2 DEF RoutesInv, RoutesFresh
<1>4. ASSUME NEW c \in Callers, ReadRedirects(c)
      PROVE  RoutesInv'
  <2> DEFINE q == [calls[c] EXCEPT !.redirects = {redirects}]
  <2>1. /\ calls[c].under /\ UNCHANGED <<tables, routingCache, unseen, clock>>
        /\ calls' = [calls EXCEPT ![c] = q]
    BY <1>4 DEF ReadRedirects
  <2>2. /\ DOMAIN q = {"under", "redirects", "paths", "raced"} /\ q.redirects = {redirects}
        /\ q.under = calls[c].under /\ q.raced = calls[c].raced /\ q.paths = calls[c].paths
    BY DEF RoutesInv, ReadsFresh
  <2> HIDE DEF q
  <2>3. /\ ReadsFresh' /\ Routes' = Routes
        /\ DOMAIN calls' = Callers /\ calls' = [d \in Callers |-> calls'[d]]
    BY <2>1, <2>2, CallRoutes DEF RoutesInv, ReadsFresh
  <2> QED  BY <2>1, <2>3 DEF RoutesInv, RoutesFresh
<1>5. ASSUME NEW c \in Callers, ReadPaths(c)
      PROVE  RoutesInv'
  <2> DEFINE q == [calls[c] EXCEPT !.paths = {Routes.paths}]
  <2>1. /\ calls[c].under /\ UNCHANGED <<tables, routingCache, unseen, clock>>
        /\ calls' = [calls EXCEPT ![c] = q]
    BY <1>5 DEF ReadPaths
  <2>2. /\ DOMAIN q = {"under", "redirects", "paths", "raced"} /\ q.paths = {Routes.paths}
        /\ q.under = calls[c].under /\ q.raced = calls[c].raced /\ q.redirects = calls[c].redirects
    BY DEF RoutesInv, ReadsFresh
  <2> HIDE DEF q
  <2>3. /\ ReadsFresh' /\ Routes' = Routes
        /\ DOMAIN calls' = Callers /\ calls' = [d \in Callers |-> calls'[d]]
    BY <2>1, <2>2, CallRoutes DEF RoutesInv, ReadsFresh
  <2> QED  BY <2>1, <2>3 DEF RoutesInv, RoutesFresh
<1>6. ASSUME NEW c \in Callers, StoreRoutes(c)
      PROVE  RoutesInv'
  <2> DEFINE q == [under |-> FALSE, redirects |-> {}, paths |-> {}, raced |-> FALSE]
             routes == [redirects |-> CHOOSE r \in calls[c].redirects : TRUE,
                        paths |-> CHOOSE p \in calls[c].paths : TRUE]
  <2>1. /\ calls[c].redirects # {} /\ calls[c].paths # {} /\ UNCHANGED <<tables, unseen, clock>>
        /\ calls' = [calls EXCEPT ![c] = q]
        /\ routingCache' = [routes |-> routes, expires |-> clock + Life, raced |-> calls[c].raced]
    BY <1>6 DEF StoreRoutes, NoCall
  <2>2. /\ ReadsFresh' /\ Routes' = Routes
        /\ DOMAIN calls' = Callers /\ calls' = [d \in Callers |-> calls'[d]]
    BY <2>1, CallRoutes
  <2>3. calls[c].raced \in BOOLEAN /\ clock + Life \in Nat
    <3>1. Life \in Nat
      BY SeoPagesAssumption
    <3>2. calls[c].raced \in BOOLEAN /\ clock \in Nat
      BY DEF RoutesInv, ReadsFresh
    <3> QED  BY <3>1, <3>2
  <2>4. ~calls[c].raced => routes = Routes
    <3> SUFFICES ASSUME ~calls[c].raced PROVE routes = Routes
      OBVIOUS
    <3>1. calls[c].redirects = {redirects} /\ calls[c].paths = {Routes.paths}
      BY <2>1 DEF RoutesInv, ReadsFresh
    <3>2. (CHOOSE r \in calls[c].redirects : TRUE) = redirects /\ (CHOOSE p \in calls[c].paths : TRUE) = Routes.paths
      BY <3>1
    <3> QED  BY <3>2 DEF Routes
  <2> HIDE DEF routes
  <2> QED  BY <2>1, <2>2, <2>3, <2>4 DEF RoutesInv, RoutesFresh
<1> QED  BY <1>1, <1>2, <1>3, <1>4, <1>5, <1>6 DEF Route

LEMMA EditStepRoutes ==
  ASSUME RoutesInv, Edit
  PROVE  RoutesInv'
<1>1. Committed \/ UNCHANGED <<configs, redirects, routing>>
  BY DEF Edit, CrmSave, CrmDelete, CrmArea, Save, SavePage, SaveTemplate, SaveListing,
         RemoveListing, SaveRedirect, RemoveRedirect
<1> QED  BY <1>1, RoutesKept, CommittedRoutes

\* The routes the process keeps for the front end are those of the tables as
\* soon as the change has emptied the cache, but for what was read while a
\* change was committed: whatever is edited, and however many requests ask.
THEOREM FreshRoutes == SeoPagesSpec => []RoutesFresh
<1>1. SeoPagesInit => RoutesInv
  <2> SUFFICES ASSUME SeoPagesInit PROVE RoutesInv
    OBVIOUS
  <2>1. calls = [c \in Callers |-> NoCall] /\ unseen = 0 /\ clock = 0
    BY DEF SeoPagesInit
  <2>2. routingCache = [routes |-> Routes, expires |-> 0, raced |-> FALSE]
    BY DEF SeoPagesInit
  <2>3. ReadsFresh
    BY <2>1 DEF ReadsFresh, NoCall
  <2>4. RoutesFresh
    BY <2>1, <2>2 DEF RoutesFresh
  <2> QED  BY <2>1, <2>2, <2>3, <2>4 DEF RoutesInv
<1>2. RoutesInv /\ [SeoPagesNext]_seoVars => RoutesInv'
  <2> SUFFICES ASSUME RoutesInv, [SeoPagesNext]_seoVars PROVE RoutesInv'
    OBVIOUS
  <2>1. CASE UNCHANGED seoVars
    BY <2>1, RoutesKept DEF seoVars, tables
  <2> QED  BY <2>1, EditStepRoutes, RouteStepRoutes DEF SeoPagesNext
<1>3. RoutesInv => RoutesFresh
  BY DEF RoutesInv
<1> QED  BY <1>1, <1>2, <1>3, PTL DEF SeoPagesSpec

-----------------------------------------------------------------------------
(* What the sitemaps list *)

\* Records have addresses of their own: slugs end in the record's code, which
\* no other record has and no automatic page; and nobody has named a project
\* by such a slug or by the address of an automatic page.
SlugsApart ==
  /\ \A i, j \in Inventory : Slug[i] \in Slugs(j) => i = j
  /\ \A i \in Inventory, g \in Automated \X Areas : AutoPath[g] \notin Slugs(i)

\* No editor gives a record the address of an automatic page.
OwnPages == \A i \in Inventory, g \in Automated \X Areas : configs[i].path # AutoPath[g]

\* No two pages have one path, and none has the slug of another's record.
AddressesApart ==
  /\ \A j, k \in Keys : Exists(j) /\ Exists(k) /\ configs[j].path = configs[k].path => j = k
  /\ \A k \in Keys, i \in Inventory : Exists(k) /\ InStock(i) /\ configs[k].path \in Slugs(i) => k = i

AddressInv ==
  /\ DOMAIN configs = Keys /\ DOMAIN stock = Inventory /\ activeAreas \subseteq Areas
  /\ \A k \in Keys : Exists(k) \/ configs[k] = NoConfig
  /\ \A k \in Keys : configs[k].index \in BOOLEAN
  /\ AddressesApart

\* A saved page has the address its form names, if nobody else has it.
LEMMA SavedAddress ==
  ASSUME AddressInv, NEW k \in Keys, NEW f \in PageForms, Free(f.path, k), NEW c,
         c.path = f.path, c.index = f.index, configs' = [configs EXCEPT ![k] = c], UNCHANGED <<stock, activeAreas>>
  PROVE  AddressInv'
<1>1. /\ DOMAIN configs' = Keys
      /\ \A j \in Keys : configs'[j] = IF j = k THEN c ELSE configs[j]
  BY DEF AddressInv
<1>2. f.path # NoPath /\ f.path \in Paths /\ f.index \in BOOLEAN
  BY SeoPagesAssumption
<1>3. Exists(k)' /\ \A j \in Keys \ {k} : Exists(j)' <=> Exists(j)
  BY <1>1, <1>2 DEF Exists
<1>4. \A i \in Inventory : InStock(i)' <=> InStock(i)
  BY DEF InStock
<1>5. AddressesApart'
  <2>1. ASSUME NEW j \in Keys, NEW l \in Keys, Exists(j)', Exists(l)', configs'[j].path = configs'[l].path
        PROVE  j = l
    BY <1>1, <1>3, <2>1 DEF AddressInv, AddressesApart, Free
  <2>2. ASSUME NEW j \in Keys, NEW i \in Inventory, Exists(j)', InStock(i)', configs'[j].path \in Slugs(i)
        PROVE  j = i
    BY <1>1, <1>3, <1>4, <2>2 DEF AddressInv, AddressesApart, Free
  <2> QED  BY <2>1, <2>2 DEF AddressesApart
<1>6. \A j \in Keys : (Exists(j) \/ configs[j] = NoConfig)' /\ configs'[j].index \in BOOLEAN
  BY <1>1, <1>2, <1>3 DEF AddressInv
<1> QED  BY <1>1, <1>5, <1>6 DEF AddressInv

LEMMA InventoryKeys == Inventory \subseteq Keys /\ Listings \subseteq Keys /\ Inventory \cap Listings = {}
BY SeoPagesAssumption DEF Keys

LEMMA AddressStep ==
  ASSUME AddressInv, [SeoPagesNext]_seoVars
  PROVE  AddressInv'
<1>1. CASE UNCHANGED <<configs, stock>> /\ activeAreas' \subseteq Areas
  BY <1>1 DEF AddressInv, AddressesApart, Exists, InStock
<1>2. ASSUME NEW i \in Inventory, NEW row, InStock(i), stock' = [stock EXCEPT ![i] = row], UNCHANGED <<configs, activeAreas>>
      PROVE  AddressInv'
  <2>1. DOMAIN stock' = Inventory /\ \A j \in Inventory : InStock(j)' => InStock(j)
    BY <1>2 DEF AddressInv, InStock
  <2>2. \A k \in Keys : Exists(k)' <=> Exists(k)
    BY <1>2 DEF Exists
  <2> QED  BY <1>2, <2>1, <2>2 DEF AddressInv, AddressesApart
<1>3. ASSUME NEW k \in Keys, NEW f \in PageForms, NEW parts, NEW rule, Save(k, f, parts, rule)
      PROVE  AddressInv'
  <2> DEFINE c == [path |-> f.path, index |-> f.index, canonical |-> f.canonical, auto |-> f.auto,
                   sections |-> parts, rule |-> rule]
  <2>1. Free(f.path, k) /\ configs' = [configs EXCEPT ![k] = c] /\ UNCHANGED <<stock, activeAreas>>
    BY <1>3 DEF Save, Committed
  <2>2. c.path = f.path /\ c.index = f.index
    OBVIOUS
  <2> HIDE DEF c
  <2> QED  BY <2>1, <2>2, SavedAddress
<1>4. ASSUME NEW k \in Keys, NEW f \in PageForms, SavePage(k, f)
      PROVE  AddressInv'
  BY <1>3, <1>4 DEF SavePage
<1>9. ASSUME NEW k \in Listings, NEW f \in PageForms, NEW rule \in Rules, SaveListing(k, f, rule)
      PROVE  AddressInv'
  BY <1>3, <1>9, InventoryKeys DEF SaveListing
<1>5. ASSUME NEW k \in Listings, RemoveListing(k)
      PROVE  AddressInv'
  <2>1. configs' = [configs EXCEPT ![k] = NoConfig] /\ UNCHANGED <<stock, activeAreas>>
    BY <1>5 DEF RemoveListing, Committed
  <2>2. /\ DOMAIN configs' = Keys
        /\ \A j \in Keys : configs'[j] = IF j = k THEN NoConfig ELSE configs[j]
    BY <2>1 DEF AddressInv
  <2>3. NoConfig.path = NoPath /\ NoConfig.index = TRUE
    BY DEF NoConfig
  <2>4. ~Exists(k)' /\ \A j \in Keys \ {k} : Exists(j)' <=> Exists(j)
    BY <2>2, <2>3, InventoryKeys DEF Exists
  <2>5. \A i \in Inventory : InStock(i)' <=> InStock(i)
    BY <2>1 DEF InStock
  <2>6. AddressesApart'
    BY <2>2, <2>4, <2>5 DEF AddressInv, AddressesApart
  <2>7. \A j \in Keys : (Exists(j) \/ configs[j] = NoConfig)' /\ configs'[j].index \in BOOLEAN
    BY <2>2, <2>3, <2>4 DEF AddressInv
  <2> QED  BY <2>1, <2>2, <2>6, <2>7 DEF AddressInv
<1>6. CASE Route
  <2>1. UNCHANGED tables
    BY <1>6 DEF Route, ClockTick, Invalidate, StartRouting, ReadRedirects, ReadPaths, StoreRoutes
  <2> QED  BY <1>1, <2>1 DEF tables, AddressInv
<1>7. CASE Edit
  <2>1. ASSUME NEW i \in Inventory, CrmDelete(i)
        PROVE  AddressInv'
    BY <1>2, <2>1 DEF CrmDelete
  <2>2. ASSUME NEW i \in Inventory, NEW row \in Rows[i], CrmSave(i, row)
        PROVE  AddressInv'
    BY <1>2, <2>2 DEF CrmSave
  <2>3. CASE \/ \E a \in Areas : CrmArea(a)
             \/ \E g \in Groups, f \in PageForms : SaveTemplate(g, f.sections)
             \/ \E source, dest \in Paths : SaveRedirect(source, dest)
             \/ \E source \in Paths : RemoveRedirect(source)
    BY <1>1, <2>3 DEF AddressInv, CrmArea, SaveTemplate, SaveRedirect, RemoveRedirect, Committed
  <2> QED  BY <1>4, <1>5, <1>7, <1>9, <2>1, <2>2, <2>3 DEF Edit
<1>8. CASE UNCHANGED seoVars
  BY <1>1, <1>8 DEF seoVars, tables, AddressInv
<1> QED  BY <1>6, <1>7, <1>8 DEF SeoPagesNext

LEMMA AddressTypes == SeoPagesSpec => []AddressInv
<1>1. SeoPagesInit => AddressInv
  <2> SUFFICES ASSUME SeoPagesInit PROVE AddressInv
    OBVIOUS
  <2>1. configs = [k \in Keys |-> NoConfig] /\ DOMAIN stock = Inventory /\ activeAreas = Areas
    BY DEF SeoPagesInit
  <2>2. NoConfig.path = NoPath /\ NoConfig.index = TRUE
    BY DEF NoConfig
  <2> QED  BY <2>1, <2>2 DEF AddressInv, AddressesApart, Exists
<1> QED  BY <1>1, AddressStep, PTL DEF SeoPagesSpec

-----------------------------------------------------------------------------
\* What resolve answers for the address of a record that is listed.
LEMMA ItemRoot ==
  ASSUME AddressInv, SlugsApart, NEW i \in Inventory, Listed(i), redirects[PathOf(i)] = NoPath
  PROVE  LET page == Resolve(PathOf(i)) IN
         page = [kind |-> "page", path |-> PathOf(i), item |-> i, index |-> TRUE, self |-> TRUE]
<1> DEFINE p == PathOf(i)
           own == {k \in Keys : Exists(k) /\ configs[k].path = p}
           slugged == {j \in Inventory : InStock(j) /\ p \in Slugs(j)}
           first == IF slugged \cap Properties # {} THEN slugged \cap Properties ELSE slugged
<1>1. i \in Keys /\ i \notin Listings /\ InStock(i)
  BY InventoryKeys DEF Listed
<1>2. Resolve(p) = ItemPage(i, p)
  <2>1. CASE Exists(i)
    <3>1. p = configs[i].path
      BY <2>1 DEF PathOf
    <3>2. own = {i}
      BY <1>1, <2>1, <3>1 DEF AddressInv, AddressesApart
    <3>3. (CHOOSE x \in own : TRUE) = i /\ own # {}
      BY <3>2
    <3> QED  BY <1>1, <3>3 DEF Resolve
  <2>2. CASE ~Exists(i)
    <3>1. p = Slug[i]
      BY <2>2 DEF PathOf
    <3>2. own = {}
      BY <1>1, <2>2, <3>1 DEF AddressInv, AddressesApart, Slugs
    <3>3. slugged = {i}
      BY <1>1, <3>1 DEF SlugsApart, Slugs
    <3>4. (CHOOSE j \in first : TRUE) = i /\ slugged # {}
      BY <3>3
    <3> QED  BY <3>2, <3>4 DEF Resolve
  <2> QED  BY <2>1, <2>2
<1>3. ~Hidden(i) /\ configs[i].index = TRUE /\ configs[i].canonical = "self"
  BY <1>1 DEF Listed, Hidden, AddressInv
<1>4. ItemPage(i, p) = [kind |-> "page", path |-> p, item |-> i, index |-> TRUE, self |-> TRUE]
  BY <1>3 DEF ItemPage
<1> QED  BY <1>2, <1>4

\* And for the address of an automatic page with two live properties, in a
\* city and locality that are active.
LEMMA AutomaticRoot ==
  ASSUME AddressInv, SlugsApart, OwnPages, NEW g \in Automatic, g[2] \in activeAreas, City \in activeAreas,
         redirects[AutoPath[g]] = NoPath, AutoPath[g] \notin ExplicitPaths
  PROVE  LET page == Resolve(AutoPath[g]) IN
         page.kind = "page" /\ page.path = AutoPath[g] /\ page.index /\ page.self
<1> DEFINE p == AutoPath[g]
           own == {k \in Keys : Exists(k) /\ configs[k].path = p}
           slugged == {j \in Inventory : InStock(j) /\ p \in Slugs(j)}
           rule == [group |-> g[1], place |-> g[2], min |-> 2, guard |-> TRUE, pinned |-> FALSE]
           alive == {i \in Properties : Live(i) /\ Group[i] = g[1] /\ g[2] \in {City, Place[i]}}
<1>1. g \in Automated \X Areas /\ Cardinality(alive) >= 2
  BY DEF Automatic
<1>2. own = {}
  <2> SUFFICES ASSUME NEW k \in Keys, Exists(k), configs[k].path = p PROVE FALSE
    OBVIOUS
  <2>1. CASE k \in Listings
    BY <2>1 DEF ExplicitPaths
  <2>2. CASE k \in Inventory
    BY <1>1, <2>2 DEF OwnPages
  <2> QED  BY <2>1, <2>2 DEF Keys
<1>3. slugged = {}
  BY <1>1 DEF SlugsApart
<1>4. Inferred(p) = {rule}
  <2>1. g \in Automated \X activeAreas
    BY <1>1
  <2>2. \A h \in Automated \X activeAreas : h \in Automated \X Areas /\ AutoPath[h] = p => h = g
    BY <1>1, SeoPagesAssumption
  <2>3. {h \in Automated \X activeAreas : AutoPath[h] = p /\ City \in activeAreas} = {g}
    BY <2>1, <2>2 DEF Areas, AddressInv
  <2> QED  BY <2>3 DEF Inferred
<1>5. (CHOOSE r \in Inferred(p) : TRUE) = rule /\ Inferred(p) # {}
  BY <1>4
<1>6. Resolve(p) = ListingPage(rule, NoConfig, p)
  BY <1>2, <1>3, <1>5 DEF Resolve
<1>7. ~Thin(rule)
  <2>1. Matching(rule) = {i \in Inventory : Live(i) /\ Group[i] = g[1] /\ g[2] \in {City, Place[i]}}
    BY DEF Matching
  <2>2. alive \subseteq Matching(rule)
    BY <2>1 DEF Inventory
  <2> DEFINE all == Matching(rule)
  <2>3. IsFiniteSet(all)
    <3>1. all \subseteq Inventory
      BY <2>1
    <3> QED  BY <3>1, SeoPagesAssumption, FS_Subset
  <2>4. rule.min = 2
    OBVIOUS
  <2> HIDE DEF all, alive, rule
  <2>5. IsFiniteSet(alive) /\ Cardinality(alive) <= Cardinality(all)
    BY <2>2, <2>3, FS_Subset DEF all
  <2>6. Cardinality(alive) \in Nat /\ Cardinality(all) \in Nat
    BY <2>3, <2>5, FS_CardinalityType
  <2>7. ~(Cardinality(all) < 2)
    BY <1>1, <2>5, <2>6
  <2> QED  BY <2>4, <2>7 DEF Thin, all
<1>8. NoConfig.index = TRUE /\ NoConfig.canonical = "self"
  BY DEF NoConfig
<1>9. ListingPage(rule, NoConfig, p) = [kind |-> "page", path |-> p, item |-> NoPath, index |-> TRUE, self |-> TRUE]
  BY <1>7, <1>8 DEF ListingPage
<1> QED  BY <1>6, <1>9

\* A page that says it is itself has the address it was asked for.
LEMMA SelfAddress ==
  ASSUME NEW p, Resolve(p).kind = "page", Resolve(p).self
  PROVE  Resolve(p).path = p
<1>1. \A q : RedirectTo(q).kind = "redirect"
  BY DEF RedirectTo, None
<1>2. Gone.kind = "gone" /\ None.kind = "none"
  BY DEF Gone, None
<1>3. ASSUME NEW i, ItemPage(i, p).kind = "page", ItemPage(i, p).self
      PROVE  ItemPage(i, p).path = p
  BY <1>1, <1>2, <1>3 DEF ItemPage
<1>4. \A r, c : ListingPage(r, c, p).path = p
  BY DEF ListingPage
<1>5. \/ \E q : Resolve(p) = RedirectTo(q)
      \/ \E r, c : Resolve(p) = ListingPage(r, c, p)
      \/ \E i : Resolve(p) = ItemPage(i, p)
      \/ Resolve(p) = None
  BY DEF Resolve
<1> QED  BY <1>1, <1>2, <1>3, <1>4, <1>5

LEMMA ListedIndexable ==
  ASSUME AddressInv, SlugsApart, OwnPages
  PROVE  SitemapIndexable
<1> DEFINE Good(e) ==
      \/ LET page == IF e.section = "" THEN Resolve(e.path) ELSE ResolveSection(e.path, e.section)
         IN page.kind = "page" /\ page.path = e.path /\ page.index /\ page.self
      \/ e.section # "" /\ redirects[e.path] # NoPath
      \/ \E g \in Automatic : AutoPath[g] = e.path /\ {g[2], City} \ activeAreas # {}
<1>1. ASSUME NEW p \in LocalityPaths, redirects[p] = NoPath
      PROVE  Good([path |-> p, section |-> ""])
  <2>1. CASE p \in ExplicitPaths /\ Resolve(p).kind = "page" /\ Resolve(p).index /\ Resolve(p).self
    BY <2>1, SelfAddress
  <2>2. ASSUME NEW g \in Automatic, p = AutoPath[g], p \notin ExplicitPaths
        PROVE  Good([path |-> p, section |-> ""])
    BY <1>1, <2>2, AutomaticRoot
  <2> QED  BY <2>1, <2>2 DEF LocalityPaths
<1>2. ASSUME NEW i \in Inventory, Listed(i), redirects[PathOf(i)] = NoPath
      PROVE  Good([path |-> PathOf(i), section |-> ""])
  BY <1>2, ItemRoot
<1>3. ASSUME NEW i \in Inventory, Listed(i), NEW s \in Sections, SectionListed(i, s)
      PROVE  Good([path |-> PathOf(i), section |-> s])
  <2>1. s # ""
    BY SeoPagesAssumption
  <2>2. CASE redirects[PathOf(i)] = NoPath
    <3> DEFINE root == [kind |-> "page", path |-> PathOf(i), item |-> i, index |-> TRUE, self |-> TRUE]
               page == [root EXCEPT !.index = TRUE, !.self = TRUE]
    <3>1. Resolve(PathOf(i)) = root
      BY <1>3, <2>2, ItemRoot
    <3>2. Merged(i, s).index = TRUE /\ Merged(i, s).self = TRUE
      BY <1>3 DEF SectionListed, Merged
    <3>3. root.kind = "page" /\ root.item = i /\ i # NoPath
      BY SeoPagesAssumption
    <3>4. ResolveSection(PathOf(i), s) = page
      <4>1. root.index = TRUE
        OBVIOUS
      <4> HIDE DEF root
      <4>2. ResolveSection(PathOf(i), s) = [root EXCEPT !.index = root.index /\ Merged(i, s).index, !.self = Merged(i, s).self]
        BY <3>1, <3>3, Zenon DEF ResolveSection
      <4>3. (root.index /\ Merged(i, s).index) = TRUE
        BY <3>2, <4>1
      <4> QED  BY <3>2, <4>2, <4>3, Zenon
    <3>5. page.kind = "page" /\ page.path = PathOf(i) /\ page.index /\ page.self
      OBVIOUS
    <3> QED  BY <2>1, <3>4, <3>5
  <2> QED  BY <2>1, <2>2
<1> HIDE DEF Good
<1> DEFINE items == {i \in Inventory : Listed(i)}
           entries(i) == {[path |-> PathOf(i), section |-> s] : s \in {t \in Sections : SectionListed(i, t)}}
<1>4. ASSUME NEW e \in Sitemap
      PROVE  Good(e)
  <2> DEFINE pages == {[path |-> p, section |-> ""] : p \in LocalityPaths \union {PathOf(i) : i \in items}}
  <2>1. \/ e \in pages /\ redirects[e.path] = NoPath
        \/ \E i \in items : e \in entries(i)
    <3>1. Sitemap = {x \in pages : redirects[x.path] = NoPath} \union UNION {entries(i) : i \in items}
      BY Zenon DEF Sitemap
    <3> HIDE DEF pages, entries, items
    <3> QED  BY <3>1, <1>4
  <2>2. ASSUME NEW i \in items, e \in entries(i)
        PROVE  Good(e)
    BY <1>3, <2>2
  <2>3. ASSUME e \in pages, redirects[e.path] = NoPath
        PROVE  Good(e)
    <3>1. PICK p \in LocalityPaths \union {PathOf(i) : i \in items} : e = [path |-> p, section |-> ""]
      BY <2>3
    <3>2. e.path = p
      BY <3>1
    <3>3. CASE p \in LocalityPaths
      BY <1>1, <2>3, <3>1, <3>2, <3>3
    <3>4. ASSUME NEW i \in items, p = PathOf(i)
          PROVE  Good(e)
      BY <1>2, <2>3, <3>1, <3>2, <3>4
    <3> QED  BY <3>1, <3>3, <3>4
  <2> QED  BY <2>1, <2>2, <2>3
<1> QED  BY <1>4 DEF SitemapIndexable, Good

\* Every page a sitemap lists is one that crawlers may index at that very
\* address, as resolve computes it, whatever editors and the CRM have done:
\* as long as no record has the address of an automatic page.
THEOREM ListedIsIndexable ==
  ASSUME SlugsApart
  PROVE  SeoPagesSpec /\ []OwnPages => []SitemapIndexable
<1>1. AddressInv /\ OwnPages => SitemapIndexable
  BY ListedIndexable
<1> QED  BY <1>1, AddressTypes, PTL
=============================================================================
