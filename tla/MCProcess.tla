------------------------------ MODULE MCProcess ------------------------------
(***************************************************************************)
(* What one process keeps in memory, each part on its own: the responses   *)
(* it has open, the leads it forwards, the reviews it caches.              *)
(***************************************************************************)
EXTENDS RuntimeGuardrails, Leads, Reviews, TLC

VARIABLE
  part     \* which part a behaviour is about; the others rest

all == <<vars, leadsVars, reviewsVars, part>>

ProcessInit ==
  /\ part \in {"responses", "leads", "reviews"}
  /\ Init /\ LeadsInit /\ ReviewsInit
  /\ part # "leads" => ~key
  /\ key \/ part # "leads" => today = CHOOSE d \in Days : TRUE   \* forwarding knows no dates
  /\ part # "reviews" => ~apiKey

ProcessNext ==
  \/ part = "responses" /\ Next /\ UNCHANGED <<leadsVars, reviewsVars, part>>
  \/ part = "leads" /\ LeadsNext /\ UNCHANGED <<vars, reviewsVars, part>>
  \/ part = "reviews" /\ ReviewsNext /\ UNCHANGED <<vars, leadsVars, part>>

ProcessSpec ==
  /\ ProcessInit /\ [][ProcessNext]_all
  /\ \A r \in Responses : WF_all(part = "responses" /\ Emit(r, "close") /\ UNCHANGED <<leadsVars, reviewsVars, part>>)
  /\ \A v \in Visitors : WF_all(part = "leads" /\ Serve(v) /\ UNCHANGED <<vars, reviewsVars, part>>)
  /\ \A i \in 1..MaxLeads : WF_all(part = "leads" /\ Forward(i) /\ UNCHANGED <<vars, reviewsVars, part>>)

-----------------------------------------------------------------------------
Form(kind, place, phone) ==
  [kind |-> kind, place |-> place, named |-> TRUE, phone |-> phone, intent |-> "enquiry", date |-> <<0, 0, 0>>, slot |-> FALSE]
Visit(place, date) == [Form("property", place, "digits") EXCEPT !.intent = "site_visit", !.date = date, !.slot = TRUE]

\* The last day of November and one of August, whose third months are short.
SomeDays == {<<2026, 8, 31>>, <<2026, 11, 30>>, <<2027, 11, 30>>}
SomeForms ==
  {Form("general", "", "digits"), Form("general", "", "letters"), Form("whatsapp_popup", "", "letters"),
   Form("submission", "", "none"), Form("project", "p1", "digits"), [Form("property", "p1", "digits") EXCEPT !.named = FALSE]}
  \union {Visit("p1", d) : d \in {<<2026, 8, 30>>, <<2026, 11, 30>>, <<2027, 2, 27>>, <<2027, 3, 2>>, <<2027, 3, 3>>, <<2028, 2, 29>>, <<2028, 3, 1>>, <<2028, 3, 2>>}}

SomeRaw ==
  {[key |-> 1, rating |-> 5, length |-> 80, time |-> 1], [key |-> 2, rating |-> 4, length |-> 90, time |-> 2],
   [key |-> 3, rating |-> 3, length |-> 90, time |-> 3]}
=============================================================================
