------------------------------- MODULE Accounts -------------------------------
(***************************************************************************)
(* Accounts of visitors and the one-time codes sent to their phones        *)
(* (src/modules/auth, src/modules/sms).  A request for a code asks the     *)
(* limits, has the code sent by the SMS provider, supersedes the unused    *)
(* codes and stores the new one, each in a statement of its own; the       *)
(* provider can refuse, fail, or deliver a code without its answer coming  *)
(* back.  A verification reads the newest code, compares, and writes what  *)
(* it has read; only then the account is looked up and made.               *)
(*                                                                         *)
(* Sign-in with a password and the accounts of staff are left out.         *)
(***************************************************************************)
EXTENDS PhoneAccounts

vars == <<now, rows, users, op, told, proven>>

Holders(p) == {e \in Emails : users[e] # NoUser /\ users[e].phone = p}

Init ==
  /\ now = 0
  /\ rows = <<>>
  /\ users = [e \in Emails |-> NoUser]
  /\ op = [c \in Clients |-> Idle]
  /\ told = [p \in Phones |-> [u \in Purposes |-> NoRow]]
  /\ proven = {}

Tick ==
  /\ now < MaxTime
  /\ now' = now + 1
  /\ UNCHANGED <<rows, users, op, told, proven>>

Answer(c) == op' = [op EXCEPT ![c] = Idle]
Goto(c, step) == op' = [op EXCEPT ![c].step = step]

-----------------------------------------------------------------------------
(* Requests for a code *)

\* requestRegisterOtp and requestLoginOtp: the phone has no account, or one.
Request(c, p, u) ==
  /\ op[c].step = "idle"
  /\ (u = "register") = (Holders(p) = {})
  /\ op' = [op EXCEPT ![c] = [Idle EXCEPT !.step = "limits", !.phone = p, !.purpose = u]]
  /\ UNCHANGED <<now, rows, users, told, proven>>

\* The newest code of any state, superseded and used ones too.
CoolingDown(p, u) == Of(p, u) # {} /\ now - rows[Latest(Of(p, u))].at < Cooldown

\* Faulty variant: the count is compared as if it included this request.
OverLimitLate(p, u) == Cardinality(Recent(p, u)) > Limit

OverLimit(p, u) == Cardinality(Recent(p, u)) >= Limit

\* enforceResendLimits, its two queries in one step.
EnforceResendLimits(c) ==
  /\ op[c].step = "limits"
  /\ IF CoolingDown(op[c].phone, op[c].purpose) \/ OverLimit(op[c].phone, op[c].purpose)
       THEN Answer(c)
       ELSE Len(rows) + Cardinality(Sending) < MaxCodes /\ Goto(c, "send")
  /\ UNCHANGED <<now, rows, users, told, proven>>

Superseded(p, u) ==
  [i \in DOMAIN rows |->
     IF i \in Of(p, u) /\ ~rows[i].used THEN [rows[i] EXCEPT !.superseded = TRUE] ELSE rows[i]]

\* Faulty variant: the old codes are superseded before the new one is sent.
SendOtpAfterwards(c) ==
  /\ op[c].step = "send"
  /\ \/ op' = [op EXCEPT ![c].step = "supersede", ![c].n = now + TTL[op[c].purpose]]
     \/ "provider" \in Failing /\ Answer(c)
  /\ rows' = Superseded(op[c].phone, op[c].purpose)
  /\ UNCHANGED <<now, users, told, proven>>

\* The provider takes the code, or refuses it, or gives no answer in time: the
\* phone may then have a code that is stored nowhere.
SendOtp(c) ==
  /\ op[c].step = "send"
  /\ \/ op' = [op EXCEPT ![c].step = "supersede", ![c].n = now + TTL[op[c].purpose]]
     \/ "provider" \in Failing /\ Answer(c)
  /\ UNCHANGED <<now, rows, users, told, proven>>

Supersede(c) ==
  /\ op[c].step = "supersede"
  /\ rows' = Superseded(op[c].phone, op[c].purpose)
  /\ Goto(c, "insert")
  /\ UNCHANGED <<now, users, told, proven>>

Insert(c) ==
  /\ op[c].step = "insert"
  /\ rows' = Append(rows, [phone |-> op[c].phone, purpose |-> op[c].purpose,
                           at |-> now, expires |-> op[c].n, attempts |-> 0,
                           used |-> FALSE, superseded |-> FALSE])
  /\ told' = [told EXCEPT ![op[c].phone][op[c].purpose] = Len(rows) + 1]
  /\ Answer(c)
  /\ UNCHANGED <<now, users, proven>>

\* Between the statements nothing is undone; without a code nothing was told.
RequestFails(c) ==
  /\ "database" \in Failing
  /\ op[c].step \in {"supersede", "insert"}
  /\ told' = IF op[c].step = "insert"
               THEN [told EXCEPT ![op[c].phone][op[c].purpose] = NoRow] ELSE told
  /\ Answer(c)
  /\ UNCHANGED <<now, rows, users, proven>>

-----------------------------------------------------------------------------
(* Verification of a code *)

Acceptable(i) ==
  /\ ~rows[i].used
  /\ rows[i].expires >= now
  /\ rows[i].attempts < MaxAttempts

\* verifyOtp reads the newest code and compares; e is for the new account.
Verify(c, p, u, matches, e) ==
  /\ op[c].step = "idle"
  /\ Current(p, u) # {}
  /\ LET i == Latest(Current(p, u)) IN
       /\ Acceptable(i)
       /\ op' = [op EXCEPT ![c] = [step |-> IF matches THEN "use" ELSE "miss", phone |-> p,
                              purpose |-> u, email |-> e, row |-> i, n |-> rows[i].attempts]]
  /\ UNCHANGED <<now, rows, users, told, proven>>

\* One more attempt than was read.
Miss(c) ==
  /\ op[c].step = "miss"
  /\ rows' = [rows EXCEPT ![op[c].row].attempts = op[c].n + 1]
  /\ Answer(c)
  /\ UNCHANGED <<now, users, told, proven>>

Use(c) ==
  /\ op[c].step = "use"
  /\ rows' = [rows EXCEPT ![op[c].row].used = TRUE]
  /\ proven' = proven \union {op[c].phone}
  /\ op' = [op EXCEPT ![c].step = IF op[c].purpose = "login" THEN "mark" ELSE "check",
                      ![c].row = 0, ![c].n = 0]
  /\ UNCHANGED <<now, users, told>>

-----------------------------------------------------------------------------
(* Accounts *)

\* loginUserWithPhone: some account of the phone becomes a verified one; there
\* is one, as there was when the code was requested.
Mark(c) ==
  /\ op[c].step = "mark"
  /\ \E e \in Holders(op[c].phone) : users' = [users EXCEPT ![e].verified = TRUE]
  /\ Answer(c)
  /\ UNCHANGED <<now, rows, told, proven>>

\* registerUser, with a password: the phone is what the visitor types.
Register(c, e, p) ==
  /\ op[c].step = "idle"
  /\ op' = [op EXCEPT ![c] = [Idle EXCEPT !.step = "check", !.email = e, !.phone = p]]
  /\ UNCHANGED <<now, rows, users, told, proven>>

\* Both ways look for the address, registerUserWithPhone for the phone too.
CheckTaken(c) ==
  /\ op[c].step = "check"
  /\ IF \/ users[op[c].email] # NoUser
        \/ op[c].purpose = "register" /\ Holders(op[c].phone) # {}
       THEN Answer(c) ELSE Goto(c, "save")
  /\ UNCHANGED <<now, rows, users, told, proven>>

\* Faulty variant: whoever registers counts as verified.
VerifiedAll(o) == TRUE

Verified(o) == o.purpose = "register"

\* The insert; an address that was taken meanwhile breaks the unique key.
SaveUser(c) ==
  /\ op[c].step = "save"
  /\ users' = IF users[op[c].email] # NoUser THEN users
                ELSE [users EXCEPT ![op[c].email] =
                        [phone |-> op[c].phone, verified |-> Verified(op[c])]]
  /\ Answer(c)
  /\ UNCHANGED <<now, rows, told, proven>>

-----------------------------------------------------------------------------
Next ==
  \/ Tick
  \/ \E c \in Clients :
       \/ \E p \in Phones, u \in Purposes :
            \/ Request(c, p, u)
            \/ \E matches \in BOOLEAN, e \in Emails : Verify(c, p, u, matches, e)
       \/ \E e \in Emails, p \in Phones : Register(c, e, p)
       \/ EnforceResendLimits(c) \/ SendOtp(c) \/ Supersede(c) \/ Insert(c)
       \/ RequestFails(c) \/ Miss(c) \/ Use(c) \/ Mark(c)
       \/ CheckTaken(c) \/ SaveUser(c)

Spec == Init /\ [][Next]_vars
=============================================================================
