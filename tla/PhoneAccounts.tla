----------------------------- MODULE PhoneAccounts -----------------------------
(***************************************************************************)
(* What is stored of the accounts of visitors and of the one-time codes    *)
(* sent to their phones (src/database/entities, src/modules/auth), what a  *)
(* request under way knows, and what is promised of both.  Accounts says   *)
(* how they change.                                                        *)
(***************************************************************************)
EXTENDS Naturals, Sequences, FiniteSets

CONSTANTS
  Clients,      \* those who send requests, each one at a time
  Phones,       \* canonical numbers, as normalizePhone gives them
  Emails,       \* addresses, trimmed and in lower case
  Limit,        \* RESEND_HOURLY_LIMIT
  Window,       \* the hour it counts in
  Cooldown,     \* RESEND_MIN_SECONDS
  TTL,          \* LOGIN_TTL_SECONDS, REGISTER_TTL_SECONDS
  MaxAttempts,  \* MAX_VERIFY_ATTEMPTS
  Failing,      \* what may fail: "provider", "database"
  MaxTime, MaxCodes   \* bounds of the model: clock, codes stored

Purposes == {"register", "login"}

AccountsAssumption ==
  /\ IsFiniteSet(Clients) /\ Clients # {}
  /\ Limit \in Nat \ {0} /\ MaxAttempts \in Nat \ {0}
  /\ Window \in Nat /\ Cooldown \in Nat /\ TTL \in [Purposes -> Nat]

VARIABLES
  now,
  rows,       \* phone_otps, oldest first
  users,      \* the account of an address, or NoUser
  op,         \* the request of each client
  told,       \* history: the row of the last request answered "otpSent"
  proven      \* history: phones for which a code was accepted

NoUser == [phone |-> "", verified |-> FALSE]
NoRow == 0

Idle == [step |-> "idle", phone |-> "", purpose |-> "login", email |-> "",
         row |-> 0, n |-> 0]

\* The codes of a phone for one purpose: all, those of the last hour, those
\* that no newer one has put aside.
Of(p, u) == {i \in DOMAIN rows : rows[i].phone = p /\ rows[i].purpose = u}
Latest(S) == CHOOSE i \in S : \A j \in S : j <= i
Recent(p, u) == {i \in Of(p, u) : now - rows[i].at <= Window}
Current(p, u) == {i \in Of(p, u) : ~rows[i].superseded}

\* The requests that passed the limits and have not stored a code yet.
Sending == {c \in Clients : op[c].step \in {"send", "supersede", "insert"}}

Passed(p, u) == {c \in Sending : op[c].phone = p /\ op[c].purpose = u}

\* Within an hour a phone gets at most five stored codes for one purpose, and
\* as many more as other requests overlap the one that passed the limit last:
\* the limit is asked long before the code it counts is stored.
CodesPerWindow ==
  \A p \in Phones, u \in Purposes :
    Cardinality(Recent(p, u)) + Cardinality(Passed(p, u)) <= Limit + Cardinality(Clients) - 1

\* The code of the last request that was answered "otpSent" is the one a
\* verification compares with, whatever later requests the limits refused or
\* the provider did not send; only one that is just storing its own code, or
\* failed while doing so, has put it aside.
LastAnsweredWorks ==
  \A p \in Phones, u \in Purposes :
    \/ told[p][u] = NoRow
    \/ \E c \in Clients : op[c].step = "insert" /\ op[c].phone = p /\ op[c].purpose = u
    \/ /\ Current(p, u) # {}
       /\ Latest(Current(p, u)) = told[p][u]

\* A verified account belongs to a phone for which somebody has entered the
\* code it received, however registrations with and without a code overlap.
VerifiedHasProof == \A e \in Emails : users[e].verified => users[e].phone \in proven

=============================================================================
