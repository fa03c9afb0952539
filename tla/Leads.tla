--------------------------------- MODULE Leads ---------------------------------
(***************************************************************************)
(* Enquiries of visitors (src/modules/leads): each is stored as a row of   *)
(* `leads' and then handed to the CRM by a promise nobody waits for, which *)
(* tries twice.  The process may restart between any two steps and forgets *)
(* what it has not sent.                                                   *)
(***************************************************************************)
EXTENDS Naturals, FiniteSets

CONSTANTS
  Visitors,
  Places,       \* properties and projects
  Forms,        \* what visitors may send: [kind, place, named, phone, intent, date, slot]
  Days,         \* the dates on which a behaviour may take place: <<year, month, day>>
  MaxLeads, MaxRestarts   \* bounds of the model

NoDate == <<0, 0, 0>>

ASSUME BoundsAssumption == MaxLeads \in Nat /\ MaxRestarts \in Nat

\* Property 999, which stands for no property; a migration inserts it.
Orphan == "orphan"

VARIABLES
  today,
  key,          \* whether SITE_TO_CRM_SERVICE_KEY is set
  places,       \* rows of properties and projects
  leads,        \* rows: [id, about, forward]
  nextId,
  call,         \* the request each visitor waits for
  jobs,         \* forwardings under way: [lead, attempt, step]
  crm,          \* how often the CRM was told of each lead
  unanswered,   \* leads the CRM was told of without its answer arriving
  lost,         \* leads stored, but forgotten or given up before the CRM had them
  restarts

leadsVars == <<today, key, places, leads, nextId, call, jobs, crm, unanswered, lost, restarts>>

Ids == 1..MaxLeads
Idle == [step |-> "idle", about |-> "", lead |-> FALSE, forward |-> FALSE, id |-> 0]

-----------------------------------------------------------------------------
(* Visit dates *)

Leap(y) == y % 4 = 0 /\ (y % 100 = 0 => y % 400 = 0)
DaysIn(y, m) == IF m = 2 THEN (IF Leap(y) THEN 29 ELSE 28) ELSE IF m \in {4, 6, 9, 11} THEN 30 ELSE 31

\* What the format of a date lets through: 2027-02-30 too.
DateText == Nat \X (1..12) \X (1..31)
Date == {d \in DateText : d[3] <= DaysIn(d[1], d[2])}

ASSUME DatesAssumption == Days \subseteq Date /\ \A f \in Forms : f.date \in DateText \union {NoDate}

\* Faulty variant: the month is moved without the year.
MaxVisitDateSameYear(d) == <<d[1], d[2] + 3, d[3]>>

\* setMonth(getMonth() + 3): a day that month does not have runs into the next.
MaxVisitDate(d) ==
  LET y == d[1] + (d[2] + 2) \div 12
      m == ((d[2] + 2) % 12) + 1
  IN IF d[3] <= DaysIn(y, m) THEN <<y, m, d[3]>> ELSE <<y, m + 1, d[3] - DaysIn(y, m)>>

\* The texts compare like the dates.
Earlier(a, b) ==
  \/ a[1] < b[1]
  \/ a[1] = b[1] /\ a[2] < b[2]
  \/ a[1] = b[1] /\ a[2] = b[2] /\ a[3] < b[3]

VisitAccepted(f) ==
  /\ f.date # NoDate /\ f.slot
  /\ ~Earlier(f.date, today)
  /\ ~Earlier(MaxVisitDate(today), f.date)

-----------------------------------------------------------------------------
AboutPlace(f) == f.kind \in {"property", "project"}

Accepted(f) ==
  CASE AboutPlace(f) -> f.named /\ f.phone # "none" /\ (f.intent = "site_visit" => VisitAccepted(f))
    [] f.kind = "whatsapp_popup" -> f.named /\ f.phone # "none"
    [] OTHER -> TRUE

\* A general enquiry goes to the CRM if its phone has digits, a WhatsApp one
\* and one about a listing always; a submission of a property never.
Forwarded(f) ==
  /\ f.kind # "submission"
  /\ f.kind = "general" => f.phone = "digits"

About(f) == IF AboutPlace(f) THEN f.place ELSE Orphan

LeadsInit ==
  /\ today \in Days
  /\ key \in BOOLEAN
  /\ places = Places \union {Orphan}
  /\ leads = {} /\ nextId = 1
  /\ call = [v \in Visitors |-> Idle]
  /\ jobs = {}
  /\ crm = [i \in Ids |-> 0]
  /\ unanswered = {} /\ lost = {}
  /\ restarts = 0

\* The CRM removes a listing, and with it the leads about it.
Remove ==
  /\ \E p \in places \ {Orphan} :
       /\ places' = places \ {p}
       /\ leads' = {l \in leads : l.about # p}
  /\ UNCHANGED <<today, key, nextId, call, jobs, crm, unanswered, lost, restarts>>

Submit(v, f) ==
  /\ call[v] = Idle /\ Accepted(f)
  /\ call' = [call EXCEPT ![v] = [step |-> IF AboutPlace(f) THEN "find" ELSE "insert", about |-> About(f),
                                   lead |-> f.kind # "submission", forward |-> Forwarded(f), id |-> 0]]
  /\ UNCHANGED <<today, key, places, leads, nextId, jobs, crm, unanswered, lost, restarts>>

\* The listing is looked up by its id; without it the enquiry is refused.
FindPlace(v) ==
  /\ call[v].step = "find"
  /\ call' = [call EXCEPT ![v] = IF @.about \in places THEN [@ EXCEPT !.step = "insert"] ELSE Idle]
  /\ UNCHANGED <<today, key, places, leads, nextId, jobs, crm, unanswered, lost, restarts>>

\* The insert fails if the listing was removed in between (foreign key).
\* Submissions have a table of their own, from which nothing is forwarded.
InsertLead(v) ==
  /\ call[v].step = "insert" /\ nextId \in Ids
  /\ LET c == call[v] IN
     IF c.lead => c.about \in places
       THEN /\ leads' = IF ~c.lead THEN leads
                        ELSE leads \union {[id |-> nextId, about |-> c.about, forward |-> c.forward]}
            /\ nextId' = nextId + 1
            /\ call' = [call EXCEPT ![v].step = "forward", ![v].id = nextId]
       ELSE /\ call' = [call EXCEPT ![v] = Idle]
            /\ UNCHANGED <<leads, nextId>>
  /\ UNCHANGED <<today, key, places, jobs, crm, unanswered, lost, restarts>>

\* The forwarding is started, and the visitor has the answer.
StartForward(v) ==
  /\ call[v].step = "forward"
  /\ jobs' = IF key /\ call[v].forward
             THEN jobs \union {[lead |-> call[v].id, attempt |-> 1, step |-> "send"]} ELSE jobs
  /\ call' = [call EXCEPT ![v] = Idle]
  /\ UNCHANGED <<today, key, places, leads, nextId, crm, unanswered, lost, restarts>>

\* Faulty variant: a third attempt.
AgainThrice(j) ==
  IF j.attempt < 3 THEN /\ jobs' = (jobs \ {j}) \union {[j EXCEPT !.step = "sleep"]} /\ UNCHANGED lost
  ELSE jobs' = jobs \ {j} /\ lost' = IF crm'[j.lead] = 0 THEN lost \union {j.lead} ELSE lost

\* The CRM's answer is an error, or does not come.
Again(j) ==
  IF j.attempt < 2 THEN /\ jobs' = (jobs \ {j}) \union {[j EXCEPT !.step = "sleep"]} /\ UNCHANGED lost
  ELSE jobs' = jobs \ {j} /\ lost' = IF crm'[j.lead] = 0 THEN lost \union {j.lead} ELSE lost

Sent(j) ==
  /\ j.step = "send"
  /\ \/ /\ crm' = [crm EXCEPT ![j.lead] = @ + 1]
        /\ jobs' = jobs \ {j}
        /\ UNCHANGED <<unanswered, lost>>
     \/ /\ crm' = [crm EXCEPT ![j.lead] = @ + 1]
        /\ unanswered' = unanswered \union {j.lead}
        /\ Again(j)
     \/ UNCHANGED <<crm, unanswered>> /\ Again(j)
  /\ UNCHANGED <<today, key, places, leads, nextId, call, restarts>>

\* Faulty variant: after the pause nothing is tried again.
WakeIdly(j) ==
  /\ j.step = "sleep"
  /\ jobs' = jobs \ {j}
  /\ UNCHANGED <<today, key, places, leads, nextId, call, crm, unanswered, lost, restarts>>

\* A second later.
Wake(j) ==
  /\ j.step = "sleep"
  /\ jobs' = (jobs \ {j}) \union {[j EXCEPT !.step = "send", !.attempt = @ + 1]}
  /\ UNCHANGED <<today, key, places, leads, nextId, call, crm, unanswered, lost, restarts>>

\* Requests and forwardings are only in memory.
Restart ==
  /\ restarts < MaxRestarts
  /\ LET pending == {j.lead : j \in jobs} \union {call[v].id : v \in {w \in Visitors : call[w].step = "forward"}}
     IN lost' = lost \union {i \in pending : crm[i] = 0}
  /\ call' = [v \in Visitors |-> Idle]
  /\ jobs' = {}
  /\ restarts' = restarts + 1
  /\ UNCHANGED <<today, key, places, leads, nextId, crm, unanswered>>

LeadsNext ==
  \/ Remove \/ Restart
  \/ \E v \in Visitors :
       \/ \E f \in Forms : Submit(v, f)
       \/ FindPlace(v) \/ InsertLead(v) \/ StartForward(v)
  \/ \E j \in jobs : Sent(j) \/ Wake(j)

\* Statements, requests and timers that the process has begun end.
Serve(v) == FindPlace(v) \/ InsertLead(v) \/ StartForward(v)
Forward(i) == \E j \in jobs : j.lead = i /\ (Sent(j) \/ Wake(j))

LeadsSpec == LeadsInit /\ [][LeadsNext]_leadsVars
FairLeads == LeadsSpec /\ (\A v \in Visitors : WF_leadsVars(Serve(v))) /\ \A i \in Ids : WF_leadsVars(Forward(i))

-----------------------------------------------------------------------------
(* Properties *)

\* With the service key set, every lead that is to be forwarded reaches the
\* CRM, unless the process restarts before, or the CRM fails it twice.
Told ==
  \A i \in Ids :
    (key /\ \E l \in leads : l.id = i /\ l.forward) ~> (crm[i] > 0 \/ i \in lost)

\* The CRM has a lead twice only if its first answer was lost, and never more
\* often; a lead that is given up is one it does not have.
ToldAtMostTwice ==
  \A i \in Ids :
    /\ crm[i] <= 2
    /\ crm[i] = 2 => i \in unanswered
    /\ i \in lost => crm[i] = 0

MonthStart == <<0, 31, 59, 90, 120, 151, 181, 212, 243, 273, 304, 334>>
DayOfYear(d) == MonthStart[d[2]] + d[3] + IF d[2] > 2 /\ Leap(d[1]) THEN 1 ELSE 0

DaysBetween(a, b) ==
  IF a[1] = b[1] THEN DayOfYear(b) - DayOfYear(a)
  ELSE (IF Leap(a[1]) THEN 366 ELSE 365) - DayOfYear(a) + DayOfYear(b)

\* A visit can be booked for each of the next 89 days, the shortest that three
\* months may be, and for none after 92, the longest; never for a past day.
VisitsNear ==
  \A f \in Forms :
    f.intent = "site_visit" /\ f.slot /\ f.date \in Date /\ f.date[1] - today[1] \in {0, 1} =>
      /\ ~Earlier(f.date, today) /\ DaysBetween(today, f.date) <= 89 => VisitAccepted(f)
      /\ VisitAccepted(f) => DaysBetween(today, f.date) \in 0..92
=============================================================================
