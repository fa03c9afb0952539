--------------------------- MODULE StatementsProofs ---------------------------
(***************************************************************************)
(* Code whose statements commit one by one.                                *)
(*                                                                         *)
(* Accounts: codes are limited, the last one answered is the one a         *)
(* verification compares with, and the phone of a verified account was     *)
(* proven, for any number of clients, phones and addresses, any limit, and *)
(* whatever fails.                                                         *)
(*                                                                         *)
(* LegacyImport: the old site's posts survive crashes and reverts, and an  *)
(* import that is through has copied whatever it should, for any rows and  *)
(* any of the old tables, and wherever it stopped and started again.       *)
(***************************************************************************)
EXTENDS Accounts, LegacyImport, FiniteSetTheorems, SequenceTheorems, WellFoundedInduction, TLAPS

Steps == {"idle", "limits", "send", "supersede", "insert", "use", "miss", "mark", "check", "save"}
Row == [phone : Phones, purpose : Purposes, at : Nat, expires : Nat, attempts : Nat,
        used : BOOLEAN, superseded : BOOLEAN]
Op == [step : Steps, phone : Phones \cup {""}, purpose : Purposes, email : Emails \cup {""},
       row : Nat, n : Nat]

\* A request under way has a phone; a comparison has the row it was made with,
\* and one that may lead to an account its address.
Busy(o) ==
  /\ o.step # "idle" => o.phone \in Phones
  /\ o.step \in {"miss", "use"} => o.row \in DOMAIN rows
  /\ o.step \in {"use", "check", "save"} => o.email \in Emails

Typed ==
  /\ now \in Nat
  /\ rows \in Seq(Row)
  /\ users \in [Emails -> [phone : Phones \cup {""}, verified : BOOLEAN]]
  /\ op \in [Clients -> Op]
  /\ told \in [Phones -> [Purposes -> Nat]]
  /\ \A c \in Clients : Busy(op[c])

\* Who is about to write a verified account has had a code of the phone accepted.
HasProof ==
  \A c \in Clients :
    op[c].step = "mark" \/ (op[c].step \in {"check", "save"} /\ op[c].purpose = "register")
      => op[c].phone \in proven

Inserting(p, u) ==
  \E c \in Clients : op[c].step = "insert" /\ op[c].phone = p /\ op[c].purpose = u

\* The last code that was answered is the newest of those not put aside.
LastCounts(p, u) ==
  \/ told[p][u] = NoRow
  \/ Inserting(p, u)
  \/ told[p][u] \in Current(p, u) /\ \A i \in Current(p, u) : i <= told[p][u]
Answered == \A p \in Phones, u \in Purposes : LastCounts(p, u)

IInv == Typed /\ HasProof /\ VerifiedHasProof /\ Answered /\ CodesPerWindow

-----------------------------------------------------------------------------
(* Largest elements and counts *)

\* A set of numbers up to n has a largest one.
LEMMA Largest ==
  ASSUME NEW n \in Nat, NEW S \in SUBSET (1..n), S # {}
  PROVE  \E i \in S : \A j \in S : j <= i
<1> DEFINE From(i) == i..n
           T == {From(i) : i \in S}
<1>1. T \subseteq FiniteSubsetsOf(1..n)
  <2>1. \A i \in S : From(i) \in SUBSET (1..n) /\ IsFiniteSet(From(i))
    BY FS_Interval
  <2> QED
    BY <2>1 DEF FiniteSubsetsOf
<1>2. T # {}
  OBVIOUS
<1>3. \E x \in T : \A y \in T : <<y, x>> \notin StrictSubsetOrdering(1..n)
  BY <1>1, <1>2, FS_StrictSubsetOrderingWellFounded, WFMin, Zenon
<1>4. PICK i \in S : \A j \in S : <<From(j), From(i)>> \notin StrictSubsetOrdering(1..n)
  BY <1>3, Zenon
<1>5. ASSUME NEW j \in S, i < j
      PROVE  FALSE
  <2>1. /\ From(j) \subseteq From(i) /\ From(j) # From(i)
        /\ From(j) \in SUBSET (1..n) /\ From(i) \in SUBSET (1..n)
    BY <1>5
  <2>2. <<From(j), From(i)>> \in StrictSubsetOrdering(1..n)
    <3> HIDE DEF From
    <3> QED
      BY <2>1, Zenon DEF StrictSubsetOrdering
  <2> QED
    BY <1>4, <2>2
<1> QED
  BY <1>5

\* Latest is what its name says.
LEMMA LatestIs ==
  ASSUME NEW n \in Nat, NEW S \in SUBSET (1..n), NEW i \in S, \A j \in S : j <= i
  PROVE  Latest(S) = i
<1>1. Latest(S) \in S /\ \A j \in S : j <= Latest(S)
  BY DEF Latest
<1> DEFINE k == Latest(S)
<1>2. k \in S /\ i <= k /\ k <= i
  BY <1>1
<1> HIDE DEF k
<1>3. k = i
  BY <1>2
<1> QED
  BY <1>3 DEF k

LEMMA LatestIn ==
  ASSUME NEW n \in Nat, NEW S \in SUBSET (1..n), S # {}
  PROVE  Latest(S) \in S
BY Largest DEF Latest

LEMMA RowsTyped ==
  ASSUME Typed
  PROVE  /\ Len(rows) \in Nat /\ DOMAIN rows = 1..Len(rows)
         /\ \A i \in DOMAIN rows : rows[i] \in Row
<1>1. rows \in Seq(Row)
  BY DEF Typed
<1> QED
  BY <1>1, LenProperties, ElementOfSeq

\* The codes of a phone are some of the rows.
LEMMA OfRows ==
  ASSUME Typed, NEW p, NEW u
  PROVE  /\ Len(rows) \in Nat
         /\ Of(p, u) \in SUBSET (1..Len(rows))
         /\ Current(p, u) \in SUBSET (1..Len(rows))
         /\ Recent(p, u) \in SUBSET (1..Len(rows))
BY RowsTyped DEF Of, Current, Recent

LEMMA Countable ==
  ASSUME Typed, IsFiniteSet(Clients), NEW p, NEW u
  PROVE  /\ IsFiniteSet(Recent(p, u)) /\ Cardinality(Recent(p, u)) \in Nat
         /\ IsFiniteSet(Passed(p, u)) /\ Cardinality(Passed(p, u)) \in Nat
         /\ Cardinality(Clients) \in Nat
         /\ Cardinality(Passed(p, u)) <= Cardinality(Clients)
<1>1. IsFiniteSet(1..Len(rows))
  BY OfRows, FS_Interval
<1>2. IsFiniteSet(Recent(p, u))
  BY <1>1, OfRows, FS_Subset
<1>3. Passed(p, u) \in SUBSET Clients
  BY DEF Passed, Sending
<1> QED
  BY <1>2, <1>3, FS_Subset, FS_CardinalityType

\* Fewer codes and fewer requests keep the limit.
LEMMA FewerCodes ==
  ASSUME Typed, AccountsAssumption, NEW p \in Phones, NEW u \in Purposes,
         Cardinality(Recent(p, u)) + Cardinality(Passed(p, u)) <= Limit + Cardinality(Clients) - 1,
         Recent(p, u)' \subseteq Recent(p, u), Passed(p, u)' \subseteq Passed(p, u)
  PROVE  (Cardinality(Recent(p, u)) + Cardinality(Passed(p, u)) <= Limit + Cardinality(Clients) - 1)'
<1>1. IsFiniteSet(Clients) /\ Limit \in Nat
  BY DEF AccountsAssumption
<1>2. /\ IsFiniteSet(Recent(p, u)) /\ Cardinality(Recent(p, u)) \in Nat
      /\ IsFiniteSet(Passed(p, u)) /\ Cardinality(Passed(p, u)) \in Nat
      /\ Cardinality(Clients) \in Nat
  BY <1>1, Countable
<1>3. /\ Cardinality(Recent(p, u)') <= Cardinality(Recent(p, u)) /\ Cardinality(Recent(p, u)') \in Nat
      /\ Cardinality(Passed(p, u)') <= Cardinality(Passed(p, u)) /\ Cardinality(Passed(p, u)') \in Nat
  BY <1>2, FS_Subset, FS_CardinalityType
<1> QED
  BY <1>1, <1>2, <1>3

-----------------------------------------------------------------------------
LEMMA InitInv ==
  ASSUME AccountsAssumption, Init
  PROVE  IInv
<1>1. Typed
  <2>1. Idle \in Op /\ Idle.step = "idle"
    BY DEF Idle, Op, Steps, Purposes
  <2>2. rows \in Seq(Row) /\ now \in Nat
    BY DEF Init
  <2>3. users \in [Emails -> [phone : Phones \cup {""}, verified : BOOLEAN]]
    BY DEF Init, NoUser
  <2>4. told \in [Phones -> [Purposes -> Nat]]
    BY DEF Init, NoRow
  <2> QED
    BY <2>1, <2>2, <2>3, <2>4 DEF Init, Typed, Busy
<1>2. HasProof /\ VerifiedHasProof
  BY DEF Init, HasProof, VerifiedHasProof, Idle, NoUser
<1>3. Answered
  BY DEF Init, Answered, LastCounts
<1>4. CodesPerWindow
  <2> SUFFICES ASSUME NEW p \in Phones, NEW u \in Purposes
               PROVE  Cardinality(Recent(p, u)) + Cardinality(Passed(p, u)) <= Limit + Cardinality(Clients) - 1
    BY DEF CodesPerWindow
  <2>1. Recent(p, u) = {} /\ Passed(p, u) = {}
    <3>1. DOMAIN rows = {}
      BY DEF Init
    <3>2. Passed(p, u) = {}
      BY DEF Init, Passed, Sending, Idle
    <3> QED
      BY <3>1, <3>2 DEF Recent, Of
  <2>2. Cardinality(Clients) \in Nat /\ Limit \in Nat \ {0}
    BY FS_CardinalityType DEF AccountsAssumption
  <2> QED
    BY <2>1, <2>2, FS_EmptySet
<1> QED
  BY <1>1, <1>2, <1>3, <1>4 DEF IInv

-----------------------------------------------------------------------------
(* What a step that answers or moves on one request leaves as it was *)

\* The others' requests stay well formed.
LEMMA OpTyped ==
  ASSUME Typed, NEW c \in Clients, NEW o \in Op, op' = [op EXCEPT ![c] = o],
         DOMAIN rows \subseteq DOMAIN rows', Busy(o)'
  PROVE  /\ op' \in [Clients -> Op]
         /\ op'[c] = o /\ \A d \in Clients \ {c} : op'[d] = op[d]
         /\ \A d \in Clients : Busy(op[d])'
<1>1. op' \in [Clients -> Op] /\ op'[c] = o /\ \A d \in Clients \ {c} : op'[d] = op[d]
  BY DEF Typed
<1>2. \A d \in Clients \ {c} : Busy(op[d])'
  BY <1>1 DEF Typed, Busy
<1> QED
  BY <1>1, <1>2 DEF Busy

LEMMA IdleTyped ==
  /\ Idle \in Op /\ Idle.step = "idle"
  /\ Busy(Idle)'
BY DEF Idle, Op, Steps, Purposes, Busy

\* Who has proven a phone is about to use it.
Proves(o) == o.step = "mark" \/ (o.step \in {"check", "save"} /\ o.purpose = "register")

LEMMA ProofKept ==
  ASSUME Typed, HasProof, NEW c \in Clients, NEW o, op' = [op EXCEPT ![c] = o],
         proven \subseteq proven', Proves(o) => o.phone \in proven'
  PROVE  HasProof'
<1>1. op'[c] = o /\ \A d \in Clients \ {c} : op'[d] = op[d]
  BY DEF Typed
<1> QED
  BY <1>1 DEF HasProof, Proves

\* Requests leave or stay among those that passed the limits.
LEMMA PassedKept ==
  ASSUME Typed, NEW c \in Clients, NEW o, op' = [op EXCEPT ![c] = o], NEW p, NEW u,
         o.step \in {"send", "supersede", "insert"} =>
           /\ op[c].step \in {"send", "supersede", "insert"}
           /\ o.phone = op[c].phone /\ o.purpose = op[c].purpose
  PROVE  Passed(p, u)' \subseteq Passed(p, u)
<1>1. op'[c] = o /\ \A d \in Clients \ {c} : op'[d] = op[d]
  BY DEF Typed
<1> QED
  BY <1>1 DEF Passed, Sending

\* The codes of a phone are as they were when no row changes but in what a
\* comparison writes.
SameRows ==
  /\ DOMAIN rows' = DOMAIN rows
  /\ \A i \in DOMAIN rows :
       /\ rows'[i].phone = rows[i].phone /\ rows'[i].purpose = rows[i].purpose
       /\ rows'[i].at = rows[i].at /\ rows'[i].superseded = rows[i].superseded

LEMMA CodesKept ==
  ASSUME SameRows, now' = now, NEW p, NEW u
  PROVE  Recent(p, u)' = Recent(p, u) /\ Current(p, u)' = Current(p, u)
BY DEF SameRows, Of, Recent, Current

\* The answered code stays current while nobody else's code is stored or put aside.
LEMMA AnsweredKept ==
  ASSUME Typed, Answered, SameRows, now' = now, told' = told, NEW c \in Clients, NEW o,
         op' = [op EXCEPT ![c] = o], op[c].step # "insert"
  PROVE  Answered'
<1>1. op'[c] = o /\ \A d \in Clients \ {c} : op'[d] = op[d]
  BY DEF Typed
<1>2. ASSUME NEW p \in Phones, NEW u \in Purposes
      PROVE  LastCounts(p, u)'
  <2>1. Current(p, u)' = Current(p, u)
    BY CodesKept
  <2>2. Inserting(p, u) => Inserting(p, u)'
    BY <1>1 DEF Inserting
  <2> QED
    BY <2>1, <2>2 DEF Answered, LastCounts
<1> QED
  BY <1>2 DEF Answered

LEMMA LimitKept ==
  ASSUME Typed, AccountsAssumption, CodesPerWindow, SameRows, now' = now, NEW c \in Clients, NEW o,
         op' = [op EXCEPT ![c] = o],
         o.step \in {"send", "supersede", "insert"} =>
           /\ op[c].step \in {"send", "supersede", "insert"}
           /\ o.phone = op[c].phone /\ o.purpose = op[c].purpose
  PROVE  CodesPerWindow'
<1> SUFFICES ASSUME NEW p \in Phones, NEW u \in Purposes
             PROVE  (Cardinality(Recent(p, u)) + Cardinality(Passed(p, u)) <= Limit + Cardinality(Clients) - 1)'
  BY DEF CodesPerWindow
<1>1. Recent(p, u)' \subseteq Recent(p, u) /\ Passed(p, u)' \subseteq Passed(p, u)
  BY CodesKept, PassedKept
<1> QED
  BY <1>1, FewerCodes DEF CodesPerWindow

-----------------------------------------------------------------------------
\* A request moves on, and nothing else changes.
LEMMA MoveInv ==
  ASSUME AccountsAssumption, IInv, NEW c \in Clients, NEW o \in Op, op' = [op EXCEPT ![c] = o],
         UNCHANGED <<now, rows, users, told, proven>>, Busy(o), op[c].step # "insert",
         Proves(o) => o.phone \in proven,
         o.step \in {"send", "supersede", "insert"} =>
           /\ op[c].step \in {"send", "supersede", "insert"}
           /\ o.phone = op[c].phone /\ o.purpose = op[c].purpose
  PROVE  IInv'
<1>1. SameRows
  BY DEF SameRows
<1>2. Typed'
  <2>1. Busy(o)'
    BY DEF Busy
  <2> QED
    BY <2>1, OpTyped DEF IInv, Typed
<1>3. HasProof'
  BY ProofKept DEF IInv
<1>4. VerifiedHasProof'
  BY DEF IInv, VerifiedHasProof
<1>5. Answered' /\ CodesPerWindow'
  BY <1>1, AnsweredKept, LimitKept DEF IInv
<1> QED
  BY <1>2, <1>3, <1>4, <1>5 DEF IInv

LEMMA TickInv ==
  ASSUME AccountsAssumption, IInv, Tick
  PROVE  IInv'
<1>0. now' = now + 1 /\ now \in Nat /\ UNCHANGED <<rows, users, op, told, proven>>
  BY DEF Tick, IInv, Typed
<1>1. Typed'
  <2>1. now' \in Nat
    BY <1>0
  <2>2. \A c \in Clients : Busy(op[c])'
    BY <1>0 DEF IInv, Typed, Busy
  <2> QED
    BY <1>0, <2>1, <2>2 DEF IInv, Typed
<1>2. HasProof' /\ VerifiedHasProof'
  BY <1>0 DEF IInv, HasProof, VerifiedHasProof
<1>3. Answered'
  BY <1>0 DEF IInv, Answered, LastCounts, Inserting, Current, Of
<1>4. CodesPerWindow'
  <2> SUFFICES ASSUME NEW p \in Phones, NEW u \in Purposes
               PROVE  (Cardinality(Recent(p, u)) + Cardinality(Passed(p, u)) <= Limit + Cardinality(Clients) - 1)'
    BY DEF CodesPerWindow
  <2>1. \A i \in DOMAIN rows : rows[i].at \in Nat
    BY RowsTyped DEF IInv, Row
  <2>2. Recent(p, u)' \subseteq Recent(p, u)
    BY <1>0, <2>1 DEF Recent, Of, AccountsAssumption
  <2>3. Passed(p, u)' \subseteq Passed(p, u)
    BY <1>0 DEF Passed, Sending
  <2> QED
    BY <2>2, <2>3, FewerCodes DEF IInv, CodesPerWindow
<1> QED
  BY <1>1, <1>2, <1>3, <1>4 DEF IInv

\* Requests and answers that change no table.
LEMMA RequestsInv ==
  ASSUME AccountsAssumption, IInv, NEW c \in Clients,
         \/ \E p \in Phones, u \in Purposes :
              \/ Request(c, p, u)
              \/ \E matches \in BOOLEAN, e \in Emails : Verify(c, p, u, matches, e)
         \/ \E e \in Emails, p \in Phones : Register(c, e, p)
         \/ SendOtp(c) \/ CheckTaken(c)
  PROVE  IInv'
<1>0. op[c] \in Op /\ Busy(op[c])
  BY DEF IInv, Typed
<1>1. ASSUME NEW p \in Phones, NEW u \in Purposes, Request(c, p, u)
      PROVE  IInv'
  <2> DEFINE o == [Idle EXCEPT !.step = "limits", !.phone = p, !.purpose = u]
  <2>1. o \in Op /\ Busy(o) /\ ~Proves(o) /\ o.step = "limits" /\ op[c].step # "insert"
    BY <1>1 DEF Idle, Op, Steps, Busy, Proves, Request
  <2>2. op' = [op EXCEPT ![c] = o] /\ UNCHANGED <<now, rows, users, told, proven>>
    BY <1>1 DEF Request
  <2> HIDE DEF o
  <2> QED
    BY <2>1, <2>2, MoveInv
<1>2. ASSUME NEW p \in Phones, NEW u \in Purposes, NEW matches \in BOOLEAN, NEW e \in Emails,
             Verify(c, p, u, matches, e)
      PROVE  IInv'
  <2> DEFINE i == Latest(Current(p, u))
             o == [step |-> IF matches THEN "use" ELSE "miss", phone |-> p,
                   purpose |-> u, email |-> e, row |-> i, n |-> rows[i].attempts]
  <2>1. i \in DOMAIN rows /\ i \in Nat
    <3>1. Current(p, u) # {} /\ Current(p, u) \in SUBSET (1..Len(rows)) /\ Len(rows) \in Nat
      BY <1>2, OfRows DEF Verify, IInv
    <3>2. i \in Current(p, u)
      BY <3>1, LatestIn
    <3> HIDE DEF i
    <3> QED
      BY <3>1, <3>2, RowsTyped DEF IInv
  <2>2. rows[i].attempts \in Nat
    BY <2>1, RowsTyped DEF IInv, Row
  <2>3. op' = [op EXCEPT ![c] = o] /\ UNCHANGED <<now, rows, users, told, proven>>
    BY <1>2 DEF Verify
  <2>4. op[c].step # "insert"
    BY <1>2 DEF Verify
  <2> HIDE DEF i
  <2>5. o \in Op /\ Busy(o) /\ ~Proves(o) /\ o.step \in {"use", "miss"}
    BY <2>1, <2>2 DEF Op, Steps, Busy, Proves
  <2> HIDE DEF o
  <2> QED
    BY <2>3, <2>4, <2>5, MoveInv
<1>3. ASSUME NEW e \in Emails, NEW p \in Phones, Register(c, e, p)
      PROVE  IInv'
  <2> DEFINE o == [Idle EXCEPT !.step = "check", !.email = e, !.phone = p]
  <2>1. o \in Op /\ Busy(o) /\ ~Proves(o) /\ o.step = "check" /\ op[c].step # "insert"
    BY <1>3 DEF Idle, Op, Steps, Busy, Proves, Register, Purposes
  <2>2. op' = [op EXCEPT ![c] = o] /\ UNCHANGED <<now, rows, users, told, proven>>
    BY <1>3 DEF Register
  <2> HIDE DEF o
  <2> QED
    BY <2>1, <2>2, MoveInv
<1>4. ASSUME op' = [op EXCEPT ![c] = Idle], UNCHANGED <<now, rows, users, told, proven>>,
             op[c].step # "insert"
      PROVE  IInv'
  <2>1. Idle \in Op /\ Busy(Idle) /\ ~Proves(Idle) /\ Idle.step = "idle"
    BY DEF Idle, Op, Steps, Purposes, Busy, Proves
  <2> QED
    BY <1>4, <2>1, MoveInv
<1>5. CASE SendOtp(c)
  <2> DEFINE o == [op[c] EXCEPT !.step = "supersede", !.n = now + TTL[op[c].purpose]]
  <2>1. op[c].step = "send" /\ UNCHANGED <<now, rows, users, told, proven>>
    BY <1>5 DEF SendOtp
  <2>2. now + TTL[op[c].purpose] \in Nat
    <3>1. op[c].purpose \in Purposes /\ now \in Nat
      BY <1>0 DEF IInv, Typed, Op
    <3>2. TTL[op[c].purpose] \in Nat
      BY <3>1 DEF AccountsAssumption
    <3> QED
      BY <3>1, <3>2
  <2>3. o \in Op /\ Busy(o) /\ ~Proves(o) /\ o.step = "supersede" /\ o.phone = op[c].phone /\ o.purpose = op[c].purpose
    BY <1>0, <2>1, <2>2 DEF Op, Steps, Busy, Proves
  <2>4. op' = [op EXCEPT ![c] = o] \/ op' = [op EXCEPT ![c] = Idle]
    BY <1>5 DEF SendOtp, Answer
  <2> HIDE DEF o
  <2> QED
    BY <1>4, <2>1, <2>3, <2>4, MoveInv
<1>6. CASE CheckTaken(c)
  <2> DEFINE o == [op[c] EXCEPT !.step = "save"]
  <2>1. op[c].step = "check" /\ UNCHANGED <<now, rows, users, told, proven>>
    BY <1>6 DEF CheckTaken
  <2>2. o \in Op /\ Busy(o) /\ o.step = "save" /\ o.phone = op[c].phone /\ o.purpose = op[c].purpose
    BY <1>0, <2>1 DEF Op, Steps, Busy
  <2>3. Proves(o) => o.phone \in proven
    BY <2>1, <2>2 DEF Proves, IInv, HasProof
  <2>4. op' = [op EXCEPT ![c] = o] \/ op' = [op EXCEPT ![c] = Idle]
    BY <1>6 DEF CheckTaken, Answer, Goto
  <2> HIDE DEF o
  <2> QED
    BY <1>4, <2>1, <2>2, <2>3, <2>4, MoveInv
<1> QED
  BY <1>1, <1>2, <1>3, <1>5, <1>6

\* A request passes the limits: it has counted fewer codes than the limit, and
\* whoever else has passed is one of the other clients.
LEMMA LimitsInv ==
  ASSUME AccountsAssumption, IInv, NEW c \in Clients, EnforceResendLimits(c)
  PROVE  IInv'
<1> DEFINE sent == [op[c] EXCEPT !.step = "send"]
<1>0. /\ op[c] \in Op /\ Busy(op[c]) /\ op[c].step = "limits"
      /\ UNCHANGED <<now, rows, users, told, proven>>
  BY DEF IInv, Typed, EnforceResendLimits
<1>1. CASE op' = [op EXCEPT ![c] = Idle]
  <2>1. Idle \in Op /\ Busy(Idle) /\ ~Proves(Idle) /\ Idle.step = "idle"
    BY DEF Idle, Op, Steps, Purposes, Busy, Proves
  <2> QED
    BY <1>0, <1>1, <2>1, MoveInv
<1>2. CASE op' = [op EXCEPT ![c] = sent] /\ ~OverLimit(op[c].phone, op[c].purpose)
  <2>0. PICK o \in Op : o = sent
    BY <1>0 DEF Op, Steps
  <2>1. Busy(o)' /\ ~Proves(o) /\ o.step = "send" /\ o.phone = op[c].phone /\ o.purpose = op[c].purpose
    BY <1>0, <2>0 DEF Op, Steps, Busy, Proves
  <2>9. op' = [op EXCEPT ![c] = o]
    BY <1>2, <2>0
  <2> HIDE DEF sent
  <2>2. SameRows
    BY <1>0 DEF SameRows
  <2>3. Typed'
    BY <1>0, <2>1, <2>9, OpTyped DEF IInv, Typed
  <2>4. HasProof' /\ VerifiedHasProof'
    <3>1. HasProof'
      BY <1>0, <2>1, <2>9, ProofKept DEF IInv
    <3> QED
      BY <1>0, <3>1 DEF IInv, VerifiedHasProof
  <2>5. Answered'
    BY <1>0, <2>2, <2>9, AnsweredKept DEF IInv
  <2>6. ASSUME NEW p \in Phones, NEW u \in Purposes
        PROVE  (Cardinality(Recent(p, u)) + Cardinality(Passed(p, u)) <= Limit + Cardinality(Clients) - 1)'
    <3>1. Recent(p, u)' = Recent(p, u)
      BY <1>0, <2>2, CodesKept
    <3>2. CASE p = op[c].phone /\ u = op[c].purpose
      <4>1. Limit \in Nat \ {0} /\ IsFiniteSet(Clients)
        BY DEF AccountsAssumption
      <4>2. Cardinality(Recent(p, u)) \in Nat /\ Cardinality(Clients) \in Nat
        BY <4>1, Countable DEF IInv
      <4>3. Cardinality(Passed(p, u)') \in Nat /\ Cardinality(Passed(p, u)') <= Cardinality(Clients)
        <5>1. Passed(p, u)' \in SUBSET Clients
          BY DEF Passed, Sending
        <5> QED
          BY <4>1, <5>1, FS_Subset, FS_CardinalityType
      <4>4. ~(Cardinality(Recent(p, u)) >= Limit)
        BY <1>2, <3>2 DEF OverLimit
      <4> QED
        BY <3>1, <4>1, <4>2, <4>3, <4>4
    <3>3. CASE ~(p = op[c].phone /\ u = op[c].purpose)
      <4>1. Passed(p, u)' \subseteq Passed(p, u)
        <5>1. op'[c] = o /\ \A d \in Clients \ {c} : op'[d] = op[d]
          BY <2>9 DEF IInv, Typed
        <5> QED
          BY <2>1, <3>3, <5>1 DEF Passed, Sending
      <4> QED
        BY <3>1, <4>1, FewerCodes DEF IInv, CodesPerWindow
    <3> QED
      BY <3>2, <3>3
  <2>7. CodesPerWindow'
    BY <2>6 DEF CodesPerWindow
  <2> QED
    BY <2>3, <2>4, <2>5, <2>7 DEF IInv
<1> QED
  BY <1>1, <1>2 DEF EnforceResendLimits, Answer, Goto

-----------------------------------------------------------------------------
\* A comparison writes what it has read; an accepted code proves the phone.
LEMMA CompareInv ==
  ASSUME AccountsAssumption, IInv, NEW c \in Clients, Miss(c) \/ Use(c)
  PROVE  IInv'
<1>0. /\ op[c] \in Op /\ Busy(op[c]) /\ op[c].step \in {"miss", "use"}
      /\ UNCHANGED <<now, users, told>> /\ proven \subseteq proven'
  BY DEF IInv, Typed, Miss, Use
<1> DEFINE i == op[c].row
           after == IF op[c].step = "miss" THEN Idle
                    ELSE [op[c] EXCEPT !.step = IF op[c].purpose = "login" THEN "mark" ELSE "check",
                                       !.row = 0, !.n = 0]
           row == IF op[c].step = "miss" THEN [rows[i] EXCEPT !.attempts = op[c].n + 1]
                  ELSE [rows[i] EXCEPT !.used = TRUE]
<1>1. op' = [op EXCEPT ![c] = after] /\ rows' = [rows EXCEPT ![i] = row]
  <2>1. CASE Miss(c)
    BY <2>1 DEF Miss, Answer
  <2>2. CASE Use(c)
    BY <2>2 DEF Use
  <2> QED
    BY <2>1, <2>2
<1>2. i \in DOMAIN rows
  BY <1>0 DEF Busy
<1>3. rows[i] \in Row /\ DOMAIN rows = 1..Len(rows) /\ Len(rows) \in Nat
  BY <1>2, RowsTyped DEF IInv
<1>4. row \in Row /\ row.phone = rows[i].phone /\ row.purpose = rows[i].purpose
      /\ row.at = rows[i].at /\ row.superseded = rows[i].superseded
  <2>1. CASE op[c].step = "miss"
    <3>2. op[c].n \in Nat
      BY <1>0 DEF Op
    <3>1. op[c].n + 1 \in Nat
      BY <3>2
    <3> QED
      BY <1>3, <2>1, <3>1 DEF Row
  <2>2. CASE op[c].step # "miss"
    BY <1>3, <2>2 DEF Row
  <2> QED
    BY <2>1, <2>2
<1>5. SameRows
  <2> HIDE DEF row, i
  <2> QED
    BY <1>1, <1>2, <1>4 DEF SameRows
<1>6. rows' \in Seq(Row)
  <2>1. rows \in Seq(Row)
    BY DEF IInv, Typed
  <2> HIDE DEF row, i
  <2> QED
    BY <1>1, <1>2, <1>3, <1>4, <2>1, ExceptSeq
<1>7. PICK o \in Op : o = after
  BY <1>0 DEF Op, Steps, Idle, Purposes
<1>8. /\ op' = [op EXCEPT ![c] = o] /\ op[c].step # "insert"
      /\ o.step \in {"idle", "mark", "check"}
      /\ Busy(o)' /\ (Proves(o) => o.phone \in proven')
  <2>1. op' = [op EXCEPT ![c] = o] /\ op[c].step # "insert"
    BY <1>0, <1>1, <1>7
  <2>2. o.step \in {"idle", "mark", "check"} /\ Busy(o)'
    <3>1. CASE op[c].step = "miss"
      <4>1. o = Idle
        BY <1>7, <3>1
      <4> QED
        BY <4>1, IdleTyped DEF Busy
    <3>2. CASE op[c].step = "use"
      <4>1. o.step \in {"mark", "check"} /\ o.phone = op[c].phone /\ o.email = op[c].email
        BY <1>0, <1>7, <3>2 DEF Op
      <4> QED
        BY <1>0, <3>2, <4>1 DEF Busy
    <3> QED
      BY <1>0, <3>1, <3>2
  <2>3. Proves(o) => op[c].step = "use" /\ o.phone = op[c].phone
    BY <1>0, <1>7 DEF Proves, Idle, Op
  <2>4. op[c].step = "use" => op[c].phone \in proven'
    BY DEF Miss, Use
  <2> QED
    BY <2>1, <2>2, <2>3, <2>4
<1> HIDE DEF after, row, i
<1>9. Typed'
  <2>1. DOMAIN rows \subseteq DOMAIN rows'
    BY <1>5 DEF SameRows
  <2> QED
    BY <1>0, <1>6, <1>7, <1>8, <2>1, OpTyped DEF IInv, Typed
<1>10. HasProof'
  BY <1>0, <1>8, ProofKept DEF IInv
<1>11. VerifiedHasProof'
  BY <1>0 DEF IInv, VerifiedHasProof
<1>12. Answered'
  BY <1>0, <1>5, <1>8, AnsweredKept DEF IInv
<1>13. CodesPerWindow'
  BY <1>0, <1>5, <1>8, LimitKept DEF IInv
<1> QED
  BY <1>9, <1>10, <1>11, <1>12, <1>13 DEF IInv

\* An account is written: verified only for a phone that was proven.
LEMMA AccountInv ==
  ASSUME AccountsAssumption, IInv, NEW c \in Clients, Mark(c) \/ SaveUser(c)
  PROVE  IInv'
<1>0. /\ op[c] \in Op /\ Busy(op[c]) /\ op[c].step \in {"mark", "save"}
      /\ UNCHANGED <<now, rows, told, proven>> /\ op' = [op EXCEPT ![c] = Idle]
  BY DEF IInv, Typed, Mark, SaveUser, Answer
<1>1. /\ users' \in [Emails -> [phone : Phones \cup {""}, verified : BOOLEAN]]
      /\ VerifiedHasProof'
  <2>1. CASE Mark(c)
    <3>1. PICK e \in Holders(op[c].phone) : users' = [users EXCEPT ![e].verified = TRUE]
      BY <2>1 DEF Mark
    <3>2. e \in Emails /\ users[e].phone = op[c].phone
      BY <3>1 DEF Holders
    <3>3. op[c].phone \in proven
      BY <2>1 DEF Mark, IInv, HasProof
    <3> DEFINE user == [users[e] EXCEPT !.verified = TRUE]
    <3>4. users' = [users EXCEPT ![e] = user]
      BY <3>1
    <3>5. user \in [phone : Phones \cup {""}, verified : BOOLEAN] /\ user.phone = op[c].phone
      BY <3>2 DEF IInv, Typed
    <3> HIDE DEF user
    <3> QED
      BY <1>0, <3>2, <3>3, <3>4, <3>5 DEF IInv, Typed, VerifiedHasProof
  <2>2. CASE SaveUser(c)
    <3> DEFINE user == [phone |-> op[c].phone, verified |-> Verified(op[c])]
    <3>1. users' = users \/ users' = [users EXCEPT ![op[c].email] = user]
      BY <2>2 DEF SaveUser
    <3>2. user \in [phone : Phones \cup {""}, verified : BOOLEAN] /\ op[c].email \in Emails
      BY <1>0, <2>2 DEF Verified, Op, Busy, SaveUser
    <3>3. user.verified => user.phone \in proven
      BY <2>2 DEF Verified, SaveUser, IInv, HasProof
    <3> HIDE DEF user
    <3>4. CASE users' = users
      BY <1>0, <3>4 DEF IInv, Typed, VerifiedHasProof
    <3>5. CASE users' = [users EXCEPT ![op[c].email] = user]
      BY <1>0, <3>2, <3>3, <3>5 DEF IInv, Typed, VerifiedHasProof
    <3> QED
      BY <3>1, <3>4, <3>5
  <2> QED
    BY <2>1, <2>2
<1>2. /\ Idle \in Op /\ ~Proves(Idle) /\ Idle.step = "idle" /\ Busy(Idle)'
      /\ op[c].step # "insert"
  BY <1>0, IdleTyped DEF Proves
<1>3. PICK o \in Op : o = Idle
  BY <1>2
<1>4. op' = [op EXCEPT ![c] = o] /\ ~Proves(o) /\ o.step = "idle" /\ Busy(o)'
  BY <1>0, <1>2, <1>3 DEF Busy
<1>5. SameRows
  BY <1>0 DEF SameRows
<1>6. Typed'
  BY <1>0, <1>1, <1>4, OpTyped DEF IInv, Typed
<1>7. HasProof'
  BY <1>0, <1>4, ProofKept DEF IInv
<1>8. Answered'
  BY <1>0, <1>2, <1>4, <1>5, AnsweredKept DEF IInv
<1>9. CodesPerWindow'
  BY <1>0, <1>4, <1>5, LimitKept DEF IInv
<1> QED
  BY <1>1, <1>6, <1>7, <1>8, <1>9 DEF IInv

-----------------------------------------------------------------------------
\* The old codes are put aside, and the request is about to store its own.
LEMMA SupersedeInv ==
  ASSUME AccountsAssumption, IInv, NEW c \in Clients, Supersede(c)
  PROVE  IInv'
<1> DEFINE p0 == op[c].phone
           u0 == op[c].purpose
           after == [op[c] EXCEPT !.step = "insert"]
<1>0. /\ op[c] \in Op /\ Busy(op[c]) /\ op[c].step = "supersede"
      /\ UNCHANGED <<now, users, told, proven>>
      /\ op' = [op EXCEPT ![c] = after] /\ rows' = Superseded(p0, u0)
  BY DEF IInv, Typed, Supersede, Goto
<1>1. PICK o \in Op : o = after
  BY <1>0 DEF Op, Steps
<1>2. /\ op' = [op EXCEPT ![c] = o] /\ ~Proves(o) /\ o.step = "insert"
      /\ o.phone = p0 /\ o.purpose = u0 /\ p0 \in Phones
  BY <1>0, <1>1 DEF Op, Proves, Busy
<1> HIDE DEF after
<1>3. /\ DOMAIN rows' = DOMAIN rows /\ DOMAIN rows = 1..Len(rows) /\ Len(rows) \in Nat
      /\ \A i \in DOMAIN rows : rows[i] \in Row
  BY <1>0, RowsTyped DEF Superseded, IInv
<1>4. ASSUME NEW i \in DOMAIN rows
      PROVE  /\ rows'[i] \in Row
             /\ rows'[i].phone = rows[i].phone /\ rows'[i].purpose = rows[i].purpose
             /\ rows'[i].at = rows[i].at
             /\ i \notin Of(p0, u0) => rows'[i] = rows[i]
  <2>1. rows'[i] = rows[i] \/ (i \in Of(p0, u0) /\ rows'[i] = [rows[i] EXCEPT !.superseded = TRUE])
    BY <1>0 DEF Superseded
  <2>2. rows[i] \in Row
    BY <1>3
  <2> QED
    BY <2>1, <2>2 DEF Row
<1>5. rows' \in Seq(Row)
  <2>1. rows' \in [1..Len(rows) -> Row]
    BY <1>0, <1>3, <1>4 DEF Superseded
  <2> QED
    BY <1>3, <2>1, SeqDef
<1>6. Typed'
  <2>1. Busy(o)'
    BY <1>2 DEF Busy
  <2> QED
    BY <1>0, <1>2, <1>3, <1>5, <2>1, OpTyped DEF IInv, Typed
<1>7. HasProof' /\ VerifiedHasProof'
  <2>1. HasProof'
    BY <1>0, <1>2, ProofKept DEF IInv
  <2> QED
    BY <1>0, <2>1 DEF IInv, VerifiedHasProof
<1>8. op'[c] = o /\ \A d \in Clients \ {c} : op'[d] = op[d]
  BY <1>2 DEF IInv, Typed
<1>9. ASSUME NEW p \in Phones, NEW u \in Purposes
      PROVE  LastCounts(p, u)'
  <2>1. CASE p = p0 /\ u = u0
    BY <1>2, <1>8, <2>1 DEF LastCounts, Inserting
  <2>2. CASE ~(p = p0 /\ u = u0)
    <3>1. Current(p, u)' = Current(p, u)
      BY <1>3, <1>4, <2>2 DEF Current, Of
    <3>2. Inserting(p, u) => Inserting(p, u)'
      BY <1>0, <1>8 DEF Inserting
    <3> QED
      BY <1>0, <3>1, <3>2 DEF IInv, Answered, LastCounts
  <2> QED
    BY <2>1, <2>2
<1>10. Answered'
  BY <1>9 DEF Answered
<1>11. ASSUME NEW p \in Phones, NEW u \in Purposes
       PROVE  (Cardinality(Recent(p, u)) + Cardinality(Passed(p, u)) <= Limit + Cardinality(Clients) - 1)'
  <2>1. Recent(p, u)' \subseteq Recent(p, u)
    BY <1>0, <1>3, <1>4 DEF Recent, Of
  <2>2. Passed(p, u)' \subseteq Passed(p, u)
    BY <1>0, <1>2, PassedKept DEF IInv
  <2> QED
    BY <2>1, <2>2, FewerCodes DEF IInv, CodesPerWindow
<1>12. CodesPerWindow'
  BY <1>11 DEF CodesPerWindow
<1> QED
  BY <1>6, <1>7, <1>10, <1>12 DEF IInv

\* The code is stored and answered: one more code, and one request less that
\* has passed the limits.
LEMMA InsertInv ==
  ASSUME AccountsAssumption, IInv, NEW c \in Clients, Insert(c)
  PROVE  IInv'
<1> DEFINE p0 == op[c].phone
           u0 == op[c].purpose
           n == Len(rows) + 1
           row == [phone |-> p0, purpose |-> u0, at |-> now, expires |-> op[c].n, attempts |-> 0,
                   used |-> FALSE, superseded |-> FALSE]
<1>0. /\ op[c] \in Op /\ Busy(op[c]) /\ op[c].step = "insert"
      /\ UNCHANGED <<now, users, proven>>
      /\ op' = [op EXCEPT ![c] = Idle] /\ rows' = Append(rows, row)
      /\ told' = [told EXCEPT ![p0][u0] = n]
  BY DEF IInv, Typed, Insert, Answer
<1>1. /\ p0 \in Phones /\ u0 \in Purposes /\ now \in Nat /\ op[c].n \in Nat
      /\ rows \in Seq(Row) /\ told \in [Phones -> [Purposes -> Nat]]
  BY <1>0 DEF Busy, Op, IInv, Typed
<1>2. row \in Row /\ row.phone = p0 /\ row.purpose = u0 /\ ~row.superseded
  BY <1>1 DEF Row
<1>3. DOMAIN rows = 1..Len(rows) /\ Len(rows) \in Nat
  BY RowsTyped DEF IInv
<1> HIDE DEF row
<1>4. /\ rows' \in Seq(Row) /\ DOMAIN rows' = 1..n
      /\ rows'[n] = row /\ \A i \in DOMAIN rows : rows'[i] = rows[i]
  BY <1>0, <1>1, <1>2, <1>3, AppendProperties, LenProperties
<1>5. /\ told' \in [Phones -> [Purposes -> Nat]] /\ told'[p0][u0] = n
      /\ \A p \in Phones, u \in Purposes : ~(p = p0 /\ u = u0) => told'[p][u] = told[p][u]
  <2>1. n \in Nat
    BY <1>3
  <2> HIDE DEF n
  <2> QED
    BY <1>0, <1>1, <2>1
<1>6. PICK o \in Op : o = Idle
  BY IdleTyped
<1>7. op' = [op EXCEPT ![c] = o] /\ ~Proves(o) /\ o.step = "idle" /\ Busy(o)'
  BY <1>0, <1>6, IdleTyped DEF Busy, Proves
<1>8. Typed'
  <2>1. DOMAIN rows \subseteq DOMAIN rows'
    BY <1>3, <1>4
  <2> QED
    BY <1>0, <1>4, <1>5, <1>7, <2>1, OpTyped DEF IInv, Typed
<1>9. HasProof' /\ VerifiedHasProof'
  <2>1. HasProof'
    BY <1>0, <1>7, ProofKept DEF IInv
  <2> QED
    BY <1>0, <2>1 DEF IInv, VerifiedHasProof
<1>10. op'[c] = o /\ \A d \in Clients \ {c} : op'[d] = op[d]
  BY <1>7 DEF IInv, Typed
<1>11. ASSUME NEW p \in Phones, NEW u \in Purposes
       PROVE  LastCounts(p, u)'
  <2>1. CASE p = p0 /\ u = u0
    <3>1. n \in Current(p, u)'
      BY <1>2, <1>3, <1>4, <2>1 DEF Current, Of
    <3>2. \A i \in Current(p, u)' : i <= n
      BY <1>3, <1>4 DEF Current, Of
    <3> QED
      BY <1>5, <2>1, <3>1, <3>2 DEF LastCounts
  <2>2. CASE ~(p = p0 /\ u = u0)
    <3>1. Current(p, u)' = Current(p, u)
      <4>1. \A i \in 1..n : i \in DOMAIN rows \/ i = n
        BY <1>3
      <4>2. n \notin Current(p, u)'
        BY <1>2, <1>4, <2>2 DEF Current, Of
      <4>3. DOMAIN rows \subseteq DOMAIN rows'
        BY <1>3, <1>4
      <4> HIDE DEF n
      <4> QED
        BY <1>4, <4>1, <4>2, <4>3 DEF Current, Of
    <3>2. Inserting(p, u) => Inserting(p, u)'
      BY <1>0, <1>10, <2>2 DEF Inserting
    <3>3. told'[p][u] = told[p][u]
      BY <1>5, <2>2
    <3> QED
      BY <3>1, <3>2, <3>3 DEF IInv, Answered, LastCounts
  <2> QED
    BY <2>1, <2>2
<1>12. Answered'
  BY <1>11 DEF Answered
<1>13. ASSUME NEW p \in Phones, NEW u \in Purposes
       PROVE  (Cardinality(Recent(p, u)) + Cardinality(Passed(p, u)) <= Limit + Cardinality(Clients) - 1)'
  <2>1. Passed(p, u)' \subseteq Passed(p, u)
    BY <1>7, PassedKept DEF IInv
  <2>2. ASSUME NEW i \in Recent(p, u)'
        PROVE  i \in Recent(p, u) \/ (i = n /\ p = p0 /\ u = u0)
    <3>1. i \in 1..n
      BY <1>4 DEF Recent, Of
    <3>2. CASE i = n
      BY <1>2, <1>4, <3>2 DEF Recent, Of
    <3>3. CASE i \in DOMAIN rows
      BY <1>0, <1>4, <3>3 DEF Recent, Of
    <3> QED
      BY <1>3, <3>1, <3>2, <3>3
  <2>3. CASE p = p0 /\ u = u0
    <3>1. Recent(p, u)' \in SUBSET (Recent(p, u) \cup {n})
      BY <2>2
    <3>2. c \in Passed(p, u) /\ Passed(p, u)' \in SUBSET (Passed(p, u) \ {c})
      BY <1>0, <1>7, <1>10, <2>1, <2>3 DEF Passed, Sending
    <3>3. /\ IsFiniteSet(Recent(p, u)) /\ Cardinality(Recent(p, u)) \in Nat
          /\ IsFiniteSet(Passed(p, u)) /\ Cardinality(Passed(p, u)) \in Nat
          /\ Cardinality(Clients) \in Nat
      BY Countable DEF IInv, AccountsAssumption
    <3>4. /\ IsFiniteSet(Recent(p, u) \cup {n})
          /\ Cardinality(Recent(p, u) \cup {n}) <= Cardinality(Recent(p, u)) + 1
      <4> HIDE DEF n
      <4>1. /\ IsFiniteSet(Recent(p, u) \cup {n})
            /\ Cardinality(Recent(p, u) \cup {n}) =
                 IF n \in Recent(p, u) THEN Cardinality(Recent(p, u)) ELSE Cardinality(Recent(p, u)) + 1
        BY <3>3, FS_AddElement
      <4> QED
        BY <3>3, <4>1
    <3>5. /\ IsFiniteSet(Passed(p, u) \ {c})
          /\ Cardinality(Passed(p, u) \ {c}) = Cardinality(Passed(p, u)) - 1
      BY <3>2, <3>3, FS_RemoveElement
    <3>6. /\ Cardinality(Recent(p, u)') \in Nat
          /\ Cardinality(Recent(p, u)') <= Cardinality(Recent(p, u) \cup {n})
          /\ Cardinality(Recent(p, u) \cup {n}) \in Nat
      BY <3>1, <3>4, FS_Subset, FS_CardinalityType
    <3>7. /\ Cardinality(Passed(p, u)') \in Nat
          /\ Cardinality(Passed(p, u)') <= Cardinality(Passed(p, u) \ {c})
      BY <3>2, <3>5, FS_Subset, FS_CardinalityType
    <3>8. Cardinality(Recent(p, u)) + Cardinality(Passed(p, u)) <= Limit + Cardinality(Clients) - 1
      BY DEF IInv, CodesPerWindow
    <3>9. Limit \in Nat
      BY DEF AccountsAssumption
    <3> QED
      BY <3>3, <3>4, <3>5, <3>6, <3>7, <3>8, <3>9
  <2>4. CASE ~(p = p0 /\ u = u0)
    <3>1. Recent(p, u)' \subseteq Recent(p, u)
      BY <2>2, <2>4
    <3> QED
      BY <2>1, <3>1, FewerCodes DEF IInv, CodesPerWindow
  <2> QED
    BY <2>3, <2>4
<1>14. CodesPerWindow'
  BY <1>13 DEF CodesPerWindow
<1> QED
  BY <1>8, <1>9, <1>12, <1>14 DEF IInv

\* A statement fails: the old codes may be put aside and none takes their place.
LEMMA FailsInv ==
  ASSUME AccountsAssumption, IInv, NEW c \in Clients, RequestFails(c)
  PROVE  IInv'
<1> DEFINE p0 == op[c].phone
           u0 == op[c].purpose
<1>0. /\ op[c] \in Op /\ Busy(op[c]) /\ op[c].step \in {"supersede", "insert"}
      /\ UNCHANGED <<now, rows, users, proven>>
      /\ op' = [op EXCEPT ![c] = Idle]
      /\ told' = IF op[c].step = "insert" THEN [told EXCEPT ![p0][u0] = NoRow] ELSE told
  BY DEF IInv, Typed, RequestFails, Answer
<1>1. p0 \in Phones /\ u0 \in Purposes /\ told \in [Phones -> [Purposes -> Nat]]
  BY <1>0 DEF Busy, Op, IInv, Typed
<1>2. PICK o \in Op : o = Idle
  BY IdleTyped
<1>3. op' = [op EXCEPT ![c] = o] /\ ~Proves(o) /\ o.step = "idle" /\ Busy(o)'
  BY <1>0, <1>2, IdleTyped DEF Busy, Proves
<1>4. told' \in [Phones -> [Purposes -> Nat]]
  BY <1>0, <1>1 DEF NoRow
<1>5. Typed'
  BY <1>0, <1>3, <1>4, OpTyped DEF IInv, Typed
<1>6. HasProof' /\ VerifiedHasProof'
  <2>1. HasProof'
    BY <1>0, <1>3, ProofKept DEF IInv
  <2> QED
    BY <1>0, <2>1 DEF IInv, VerifiedHasProof
<1>7. op'[c] = o /\ \A d \in Clients \ {c} : op'[d] = op[d]
  BY <1>3 DEF IInv, Typed
<1>8. SameRows
  BY <1>0 DEF SameRows
<1>9. ASSUME NEW p \in Phones, NEW u \in Purposes
      PROVE  LastCounts(p, u)'
  <2>1. Current(p, u)' = Current(p, u)
    BY <1>0, <1>8, CodesKept
  <2>2. CASE op[c].step = "insert" /\ p = p0 /\ u = u0
    BY <1>0, <1>1, <2>2 DEF LastCounts
  <2>3. CASE ~(op[c].step = "insert" /\ p = p0 /\ u = u0)
    <3>1. told'[p][u] = told[p][u]
      BY <1>0, <1>1, <2>3
    <3>2. Inserting(p, u) => Inserting(p, u)'
      BY <1>7, <2>3 DEF Inserting
    <3> QED
      BY <2>1, <3>1, <3>2 DEF IInv, Answered, LastCounts
  <2> QED
    BY <2>2, <2>3
<1>10. Answered'
  BY <1>9 DEF Answered
<1>11. CodesPerWindow'
  BY <1>0, <1>3, <1>8, LimitKept DEF IInv
<1> QED
  BY <1>5, <1>6, <1>10, <1>11 DEF IInv

-----------------------------------------------------------------------------
LEMMA NextInv ==
  ASSUME AccountsAssumption, IInv, [Next]_vars
  PROVE  IInv'
<1>1. CASE UNCHANGED vars
  <2>1. UNCHANGED <<now, rows, users, op, told, proven>>
    BY <1>1 DEF vars
  <2>2. Typed'
    <3>1. \A c \in Clients : Busy(op[c])'
      BY <2>1 DEF IInv, Typed, Busy
    <3> QED
      BY <2>1, <3>1 DEF IInv, Typed
  <2>3. HasProof' /\ VerifiedHasProof'
    BY <2>1 DEF IInv, HasProof, VerifiedHasProof
  <2>4. Answered'
    BY <2>1 DEF IInv, Answered, LastCounts, Inserting, Current, Of
  <2>5. CodesPerWindow'
    BY <2>1 DEF IInv, CodesPerWindow, Recent, Of, Passed, Sending
  <2> QED
    BY <2>2, <2>3, <2>4, <2>5 DEF IInv
<1>2. ASSUME NEW c \in Clients,
             \/ \E p \in Phones, u \in Purposes :
                  \/ Request(c, p, u)
                  \/ \E matches \in BOOLEAN, e \in Emails : Verify(c, p, u, matches, e)
             \/ \E e \in Emails, p \in Phones : Register(c, e, p)
             \/ SendOtp(c) \/ CheckTaken(c)
      PROVE  IInv'
  BY <1>2, RequestsInv
<1> QED
  BY <1>1, <1>2, TickInv, LimitsInv, SupersedeInv, InsertInv, FailsInv, CompareInv, AccountInv DEF Next

\* The inductive invariant of one-time codes and the accounts made with them.
THEOREM AccountsInvariant == ASSUME AccountsAssumption PROVE Spec => []IInv
<1>1. Init => IInv
  BY InitInv
<1>2. IInv /\ [Next]_vars => IInv'
  BY NextInv
<1> QED
  BY <1>1, <1>2, PTL DEF Spec

\* enforceResendLimits: within a window a phone gets no more codes than the limit
\* and one for each other request that overlaps, however the requests interleave.
THEOREM LimitOfCodes == ASSUME AccountsAssumption PROVE Spec => []CodesPerWindow
BY AccountsInvariant, PTL DEF IInv

\* requestOtp and verifyOtp: the code that was answered last is the one a
\* verification compares with, whatever is refused, lost or failing later.
THEOREM AnsweredCodeCounts == ASSUME AccountsAssumption PROVE Spec => []LastAnsweredWorks
<1>1. IInv => LastAnsweredWorks
  <2> SUFFICES ASSUME IInv, NEW p \in Phones, NEW u \in Purposes, told[p][u] # NoRow, ~Inserting(p, u)
               PROVE  Current(p, u) # {} /\ Latest(Current(p, u)) = told[p][u]
    BY DEF LastAnsweredWorks, Inserting
  <2>1. told[p][u] \in Current(p, u) /\ \A i \in Current(p, u) : i <= told[p][u]
    BY DEF IInv, Answered, LastCounts
  <2>2. Len(rows) \in Nat /\ Current(p, u) \in SUBSET (1..Len(rows))
    BY OfRows DEF IInv
  <2> QED
    BY <2>1, <2>2, LatestIs
<1> QED
  BY <1>1, AccountsInvariant, PTL

\* registerUserWithPhone and loginUserWithPhone: the phone of a verified account
\* was proven with a code.
THEOREM VerifiedPhones == ASSUME AccountsAssumption PROVE Spec => []VerifiedHasProof
BY AccountsInvariant, PTL DEF IInv

-----------------------------------------------------------------------------
(* The import of the old site *)

\* The order of the statements' kinds.
Stage == [rename |-> 1, create |-> 2, user |-> 3, login |-> 4, wisher |-> 5, system |-> 6,
          homes |-> 7, orphan |-> 8, details |-> 9, photos |-> 10, units |-> 11, amenities |-> 12,
          enquiry |-> 13, propertydetails |-> 14, wishlist |-> 15, posts |-> 16]
Looped == {"homes", "details", "photos", "units", "amenities"}
\* Statements: a loop is over the kinds.
Statement == [do : DOMAIN Stage \ Looped, kind : {""}] \union [do : Looped, kind : ToSet(Kinds)]

\* Statements of the stages lo to hi, in order; es are among them.
Staged(p, lo, hi, es) ==
  /\ p \in Seq(Statement)
  /\ \A i \in 1..Len(p) : Stage[p[i].do] \in lo..hi
  /\ \A i, j \in 1..Len(p) : Stage[p[i].do] < Stage[p[j].do] => i < j
  /\ \A e \in es : \E i \in 1..Len(p) : p[i] = e

\* The stages are numbered, those of the loops too.
LEMMA StageTyped == Looped \subseteq DOMAIN Stage /\ \A s \in DOMAIN Stage : Stage[s] \in Nat
BY DEF Stage, Looped

\* Statements of earlier stages followed by statements of later ones.
LEMMA StagedBoth ==
  ASSUME NEW p, NEW q, NEW a \in Nat, NEW b \in Nat, NEW c \in Nat, a <= b, b < c, NEW es, NEW fs,
         Staged(p, a, b, es), Staged(q, b + 1, c, fs)
  PROVE  Staged(p \o q, a, c, es \union fs)
<1> DEFINE r == p \o q  m == Len(p)  n == Len(q)
<1>1. p \in Seq(Statement) /\ q \in Seq(Statement) /\ m \in Nat /\ n \in Nat
  BY DEF Staged
<1>2. /\ r \in Seq(Statement) /\ Len(r) = m + n
      /\ \A i \in 1..(m + n) : r[i] = IF i <= m THEN p[i] ELSE q[i - m]
  BY <1>1, ConcatProperties
<1> HIDE DEF r, m, n
<1>3. /\ \A i \in 1..m : i \in 1..(m + n) /\ r[i] = p[i]
      /\ \A i \in 1..n : m + i \in 1..(m + n) /\ r[m + i] = q[i]
  BY <1>1, <1>2
<1>4. /\ \A i \in 1..m : Stage[p[i].do] \in a..b
      /\ \A i \in 1..n : Stage[q[i].do] \in (b + 1)..c
      /\ \A i, j \in 1..m : Stage[p[i].do] < Stage[p[j].do] => i < j
      /\ \A i, j \in 1..n : Stage[q[i].do] < Stage[q[j].do] => i < j
      /\ \A e \in es : \E i \in 1..m : p[i] = e
      /\ \A e \in fs : \E i \in 1..n : q[i] = e
  BY DEF Staged, m, n
<1>5. ASSUME NEW i \in 1..(m + n), ~(i <= m)
      PROVE  i - m \in 1..n /\ r[i] = q[i - m]
  BY <1>1, <1>2, <1>5
<1>6. ASSUME NEW i \in 1..(m + n)
      PROVE  Stage[r[i].do] \in a..c
  <2>1. CASE i <= m
    BY <1>1, <1>3, <1>4, <2>1
  <2>2. CASE ~(i <= m)
    <3>1. Stage[r[i].do] \in (b + 1)..c
      BY <1>4, <1>5, <2>2
    <3> QED  BY <3>1
  <2> QED  BY <2>1, <2>2
<1>7. ASSUME NEW i \in 1..(m + n), NEW j \in 1..(m + n), Stage[r[i].do] < Stage[r[j].do]
      PROVE  i < j
  <2>1. CASE i <= m /\ j <= m
    <3>1. i \in 1..m /\ j \in 1..m
      BY <1>1, <2>1
    <3> QED  BY <1>3, <1>4, <1>7, <3>1
  <2>2. CASE i <= m /\ ~(j <= m)
    BY <1>1, <2>2
  <2>3. CASE ~(i <= m) /\ j <= m
    <3>1. j \in 1..m
      BY <1>1, <2>3
    <3>2. Stage[r[j].do] \in a..b /\ Stage[r[i].do] \in (b + 1)..c
      BY <1>3, <1>4, <1>5, <2>3, <3>1
    <3> QED  BY <1>7, <3>2
  <2>4. CASE ~(i <= m) /\ ~(j <= m)
    <3>1. i - m < j - m
      BY <1>4, <1>5, <1>7, <2>4
    <3> QED  BY <1>1, <3>1
  <2> QED  BY <2>1, <2>2, <2>3, <2>4
<1>8. ASSUME NEW e \in es \union fs
      PROVE  \E i \in 1..(m + n) : r[i] = e
  <2>1. CASE e \in es
    BY <1>3, <1>4, <2>1
  <2>2. CASE e \in fs
    BY <1>3, <1>4, <2>2
  <2> QED  BY <2>1, <2>2
<1> QED
  BY <1>2, <1>6, <1>7, <1>8 DEF Staged, r

\* A statement that runs once.
LEMMA StagedOne ==
  ASSUME NEW s \in DOMAIN Stage \ Looped
  PROVE  Staged(One(s), Stage[s], Stage[s], {[do |-> s, kind |-> ""]})
<1> DEFINE e == [do |-> s, kind |-> ""]
<1>1. e \in Statement
  BY DEF Statement
<1>2. One(s) = <<e>> /\ e.do = s
  BY DEF One
<1> HIDE DEF e
<1>3. Len(<<e>>) = 1 /\ <<e>>[1] = e
  OBVIOUS
<1>4. <<e>> \in Seq(Statement)
  BY <1>1
<1>5. \A i \in 1..Len(<<e>>) : <<e>>[i] = e
  BY <1>3
<1>6. \A x \in {e} : \E i \in 1..Len(<<e>>) : <<e>>[i] = x
  BY <1>3
<1>7. Stage[s] \in Stage[s] .. Stage[s] /\ ~(Stage[s] < Stage[s])
  BY StageTyped
<1>8. Staged(<<e>>, Stage[s], Stage[s], {e})
  BY <1>2, <1>4, <1>5, <1>6, <1>7 DEF Staged
<1> QED
  BY <1>2, <1>8 DEF e

\* A statement that runs once for every kind.
LEMMA StagedEach ==
  ASSUME ImportAssumption, NEW s \in Looped
  PROVE  Staged(Each(s), Stage[s], Stage[s], {[do |-> s, kind |-> k] : k \in ToSet(Kinds)})
<1> DEFINE n == Len(Kinds)  q == Each(s)
<1>1. n \in Nat /\ DOMAIN Kinds = 1..n
  BY DEF ImportAssumption
<1>2. ToSet(Kinds) = {Kinds[i] : i \in 1..n}
  BY <1>1 DEF ToSet
<1>3. q = [i \in 1..n |-> [do |-> s, kind |-> Kinds[i]]]
  BY <1>1 DEF Each
<1>4. ASSUME NEW i \in 1..n
      PROVE  q[i] = [do |-> s, kind |-> Kinds[i]] /\ q[i] \in Statement /\ q[i].do = s
  <2>1. Kinds[i] \in ToSet(Kinds)
    BY <1>2
  <2>2. [do |-> s, kind |-> Kinds[i]] \in Statement
    BY <2>1 DEF Statement
  <2>3. q[i] = [do |-> s, kind |-> Kinds[i]]
    BY <1>3
  <2> QED  BY <2>2, <2>3
<1> HIDE DEF n
<1>5. q \in Seq(Statement) /\ Len(q) = n
  BY <1>1, <1>3, <1>4
<1> HIDE DEF q
<1>6. \A e \in {[do |-> s, kind |-> k] : k \in ToSet(Kinds)} : \E i \in 1..n : q[i] = e
  BY <1>2, <1>4
<1>7. Stage[s] \in Stage[s] .. Stage[s]
  BY StageTyped
<1> QED
  BY <1>4, <1>5, <1>6, <1>7, StageTyped DEF Staged, q

\* The statements are there, and in the order of their stages.
LEMMA ImportOrder ==
  ASSUME ImportAssumption
  PROVE  /\ ImportStatements \in Seq(Statement)
         /\ DOMAIN ImportStatements = 1 .. Len(ImportStatements) /\ Len(ImportStatements) \in Nat
         /\ \A i, j \in DOMAIN ImportStatements :
              Stage[ImportStatements[i].do] < Stage[ImportStatements[j].do] => i < j
         /\ \A s \in DOMAIN Stage \ Looped :
              \E i \in DOMAIN ImportStatements : ImportStatements[i] = [do |-> s, kind |-> ""]
         /\ \A s \in Looped, k \in ToSet(Kinds) :
              \E i \in DOMAIN ImportStatements : ImportStatements[i] = [do |-> s, kind |-> k]
<1> DEFINE O(s) == {[do |-> s, kind |-> ""]}
           E(s) == {[do |-> s, kind |-> k] : k \in ToSet(Kinds)}
<1>1. /\ Stage["rename"] = 1 /\ Stage["create"] = 2 /\ Stage["user"] = 3 /\ Stage["login"] = 4
      /\ Stage["wisher"] = 5 /\ Stage["system"] = 6 /\ Stage["homes"] = 7 /\ Stage["orphan"] = 8
      /\ Stage["details"] = 9 /\ Stage["photos"] = 10 /\ Stage["units"] = 11 /\ Stage["amenities"] = 12
      /\ Stage["enquiry"] = 13 /\ Stage["propertydetails"] = 14 /\ Stage["wishlist"] = 15
      /\ Stage["posts"] = 16
  BY DEF Stage
<1>2. DOMAIN Stage = {"rename", "create", "user", "login", "wisher", "system", "homes", "orphan", "details",
                      "photos", "units", "amenities", "enquiry", "propertydetails", "wishlist", "posts"}
      /\ Looped = {"homes", "details", "photos", "units", "amenities"}
  BY DEF Stage, Looped
<1>3. /\ Staged(One("rename"), 1, 1, O("rename")) /\ Staged(One("create"), 2, 2, O("create"))
      /\ Staged(One("user"), 3, 3, O("user")) /\ Staged(One("login"), 4, 4, O("login"))
      /\ Staged(One("wisher"), 5, 5, O("wisher")) /\ Staged(One("system"), 6, 6, O("system"))
      /\ Staged(One("orphan"), 8, 8, O("orphan")) /\ Staged(One("enquiry"), 13, 13, O("enquiry"))
      /\ Staged(One("propertydetails"), 14, 14, O("propertydetails"))
      /\ Staged(One("wishlist"), 15, 15, O("wishlist")) /\ Staged(One("posts"), 16, 16, O("posts"))
  <2>1. ASSUME NEW s \in DOMAIN Stage \ Looped  PROVE Staged(One(s), Stage[s], Stage[s], O(s))
    BY StagedOne, Zenon
  <2> HIDE DEF O
  <2> QED  BY <1>1, <1>2, <2>1
<1>4. /\ Staged(Each("homes"), 7, 7, E("homes")) /\ Staged(Each("details"), 9, 9, E("details"))
      /\ Staged(Each("photos"), 10, 10, E("photos")) /\ Staged(Each("units"), 11, 11, E("units"))
      /\ Staged(Each("amenities"), 12, 12, E("amenities"))
  <2>1. ASSUME NEW s \in Looped  PROVE Staged(Each(s), Stage[s], Stage[s], E(s))
    BY StagedEach, Zenon
  <2> HIDE DEF E
  <2> QED  BY <1>1, <1>2, <2>1
<1> DEFINE U1 == One("user") \o One("login")  U2 == U1 \o One("wisher")  U3 == U2 \o One("system")
           a == One("rename") \o One("create")
           b == a \o U3                  c == b \o Each("homes")   d == c \o One("orphan")
           e == d \o Each("details")     f == e \o Each("photos")  g == f \o Each("units")
           h == g \o Each("amenities")   p == h \o One("enquiry")  q == p \o One("propertydetails")
           r == q \o One("wishlist")     t == r \o One("posts")
           SU == (((O("user") \union O("login")) \union O("wisher")) \union O("system"))
           Sb == (O("rename") \union O("create")) \union SU
           Se == ((Sb \union E("homes")) \union O("orphan")) \union E("details")
           Sh == ((Se \union E("photos")) \union E("units")) \union E("amenities")
           S == (((Sh \union O("enquiry")) \union O("propertydetails")) \union O("wishlist")) \union O("posts")
<1>5. ImportStatements = t
  BY DEF ImportStatements, UserStatements
<1>6. Staged(t, 1, 16, S)
  <2> HIDE DEF O, E
  <2>1. Staged(U1, 3, 4, O("user") \union O("login"))
    BY <1>3, StagedBoth
  <2> HIDE DEF U1
  <2>2. Staged(U2, 3, 5, (O("user") \union O("login")) \union O("wisher"))
    BY <1>3, <2>1, StagedBoth
  <2> HIDE DEF U2
  <2>3. Staged(U3, 3, 6, SU)
    BY <1>3, <2>2, StagedBoth
  <2> HIDE DEF U3, SU
  <2>4. Staged(a, 1, 2, O("rename") \union O("create"))
    BY <1>3, StagedBoth
  <2> HIDE DEF a
  <2>5. Staged(b, 1, 6, Sb)
    BY <2>3, <2>4, StagedBoth
  <2> HIDE DEF b, Sb
  <2>6. Staged(c, 1, 7, Sb \union E("homes"))
    BY <1>4, <2>5, StagedBoth
  <2> HIDE DEF c
  <2>7. Staged(d, 1, 8, (Sb \union E("homes")) \union O("orphan"))
    BY <1>3, <2>6, StagedBoth
  <2> HIDE DEF d
  <2>8. Staged(e, 1, 9, Se)
    BY <1>4, <2>7, StagedBoth
  <2> HIDE DEF e, Se
  <2>9. Staged(f, 1, 10, Se \union E("photos"))
    BY <1>4, <2>8, StagedBoth
  <2> HIDE DEF f
  <2>10. Staged(g, 1, 11, (Se \union E("photos")) \union E("units"))
    BY <1>4, <2>9, StagedBoth
  <2> HIDE DEF g
  <2>11. Staged(h, 1, 12, Sh)
    BY <1>4, <2>10, StagedBoth
  <2> HIDE DEF h, Sh
  <2>12. Staged(p, 1, 13, Sh \union O("enquiry"))
    BY <1>3, <2>11, StagedBoth
  <2> HIDE DEF p
  <2>13. Staged(q, 1, 14, (Sh \union O("enquiry")) \union O("propertydetails"))
    BY <1>3, <2>12, StagedBoth
  <2> HIDE DEF q
  <2>14. Staged(r, 1, 15, ((Sh \union O("enquiry")) \union O("propertydetails")) \union O("wishlist"))
    BY <1>3, <2>13, StagedBoth
  <2> HIDE DEF r
  <2> QED  BY <1>3, <2>14, StagedBoth
<1>7. ASSUME NEW s \in DOMAIN Stage \ Looped
      PROVE  [do |-> s, kind |-> ""] \in S
  <2>1. [do |-> s, kind |-> ""] \in O(s)
    OBVIOUS
  <2>2. O(s) \subseteq S
    <3> HIDE DEF O, E
    <3> QED  BY <1>2
  <2> QED  BY <2>1, <2>2
<1>8. ASSUME NEW s \in Looped, NEW k \in ToSet(Kinds)
      PROVE  [do |-> s, kind |-> k] \in S
  <2>1. [do |-> s, kind |-> k] \in E(s)
    OBVIOUS
  <2>2. E(s) \subseteq S
    <3> HIDE DEF O, E
    <3> QED  BY <1>2
  <2> QED  BY <2>1, <2>2
<1> HIDE DEF S, t
<1>9. /\ t \in Seq(Statement) /\ DOMAIN t = 1..Len(t) /\ Len(t) \in Nat
      /\ \A i, j \in 1..Len(t) : Stage[t[i].do] < Stage[t[j].do] => i < j
      /\ \A x \in S : \E i \in 1..Len(t) : t[i] = x
  BY <1>6 DEF Staged
<1> QED
  BY <1>5, <1>7, <1>8, <1>9

-----------------------------------------------------------------------------
\* The old posts are under one name or the other, and a revert that has begun,
\* unless an earlier one was left half done, drops `blogs' only when they are
\* under the other.
PostsInv ==
  /\ DOMAIN import = {"dir", "pc"}
  /\ OldPostsKept
  /\ "blogs" \in old /\ ~again /\ import.dir = "down" /\ import.pc = 1 => renamed

\* No step takes the old posts away.
LEMMA PostsStep == PostsInv /\ [ImportNext]_importVars => PostsInv'
<1> SUFFICES ASSUME PostsInv, [ImportNext]_importVars PROVE PostsInv'
  OBVIOUS
<1>1. ASSUME UNCHANGED <<old, blogs, renamed, again>>, import' = NoImport
      PROVE  PostsInv'
  BY <1>1 DEF PostsInv, OldPostsKept, NoImport
<1>2. ASSUME UNCHANGED Schema, import.dir = "up", Done
      PROVE  PostsInv'
  BY <1>2 DEF PostsInv, OldPostsKept, Schema, Done
<1>3. CASE UNCHANGED importVars
  BY <1>3 DEF importVars, PostsInv, OldPostsKept
<1>4. CASE StartImport
  BY <1>4 DEF StartImport, PostsInv, OldPostsKept
<1>5. CASE RecordImport \/ StopImport \/ UnrecordImport
  BY <1>1, <1>5 DEF RecordImport, StopImport, UnrecordImport
<1>6. CASE UndoImport
  BY <1>6 DEF UndoImport, PostsInv, OldPostsKept
<1>7. CASE DropTables
  BY <1>7 DEF DropTables, PostsInv, OldPostsKept
<1>8. CASE RenameBack
  BY <1>8 DEF RenameBack, PostsInv, OldPostsKept
<1>9. CASE Rename
  BY <1>9 DEF Rename, OldBlogs, At, Done, PostsInv, OldPostsKept
<1>10. CASE Create
  BY <1>10 DEF Create, At, Done, PostsInv, OldPostsKept
<1>11. CASE MigrateUsers \/ MigrateProperties
  BY <1>2, <1>11 DEF MigrateUsers, MigrateProperties, At
<1>12. ASSUME NEW s, MigrateParts(s)
       PROVE  PostsInv'
  BY <1>2, <1>12 DEF MigrateParts, At
<1>13. CASE MigrateLeads \/ MigrateWishlists \/ MigrateBlogs
  BY <1>2, <1>13 DEF MigrateLeads, MigrateWishlists, MigrateBlogs, At
<1> QED
  BY <1>3, <1>4, <1>5, <1>6, <1>7, <1>8, <1>9, <1>10, <1>11, <1>12, <1>13 DEF ImportNext

\* OldPostsKept for any tables of the old site and any number of crashes and
\* reverts: its posts are lost only where a revert is repeated that had renamed
\* their table back already.
THEOREM PostsSurvive == ImportSpec => []OldPostsKept
<1>1. ImportInit => PostsInv
  BY DEF ImportInit, PostsInv, OldPostsKept, NoImport
<1>2. PostsInv => OldPostsKept
  BY DEF PostsInv
<1> QED  BY <1>1, <1>2, PostsStep, PTL DEF ImportSpec

\* The statements that copy parts of a listing.
ImportTables == {"details", "photos", "units", "amenities"}

\* The users and guests an earlier stage was for.
OldUsersThere == \A i \in DOMAIN OldUsers : Known(OldUsers[i].id) => OldUsers[i] \in newUsers
GuestsThere == "wishlist" \in old => \A w \in OldWishes : w.user = 0 => \E u \in newUsers : u.email = Mail(w.guest)

\* A property is the one for whatever has no other, or that of an old listing.
HomeOfListing(x, k, h) ==
  /\ x.id = Offset(k) + h.id /\ x.kind = k
  /\ IF k \in OwnedKinds /\ Known(h.by) THEN x.owner = h.by ELSE x.owner \in {System, h.by}
HomeKnown(x) ==
  /\ x.owner \in UserIds
  /\ x.id = Orphan \/ \E k \in ToSet(Kinds) \intersect old : \E h \in OldHomes[k] : HomeOfListing(x, k, h)

\* A wish is kept by an entry.
WishKept(w, x) ==
  /\ x[2] = Copy(w.kind, w.home)
  /\ Known(w.user) => x[1] = w.user
  /\ w.user = 0 => \E u \in newUsers : u.id = x[1] /\ u.email = Mail(w.guest)

\* What a statement is for.
Did(s) ==
  /\ s.do = "rename" => ("blogs" \in old /\ ~again => renamed)
  /\ s.do = "user" => OldUsersThere
  /\ s.do = "wisher" => GuestsThere
  /\ s.do = "system" => System \in UserIds
  /\ s.do = "homes" /\ s.kind \in old => \A h \in OldHomes[s.kind] : Offset(s.kind) + h.id \in HomeIds
  /\ s.do = "orphan" => Orphan \in HomeIds
  /\ s.do \in ImportTables /\ s.kind \in old =>
       \A h \in OldHomes[s.kind] : \A p \in PartsOf(s.kind, h)[s.do] :
         <<s.do, Offset(s.kind) + h.id, p>> \in parts
  /\ s.do = "enquiry" /\ "enquiry" \in old => \A e \in OldEnquiries :
       \E l \in leads : l.of = <<"enquiry", e.id>> /\ l.home = Copy(e.kind, e.home)
  /\ s.do = "propertydetails" /\ "propertydetails" \in old =>
       \A n \in OldInterests : \E l \in leads : l.of = <<"interest", n>>
  /\ s.do = "wishlist" /\ "wishlist" \in old => \A w \in OldWishes : \E x \in wishes : WishKept(w, x)
  /\ s.do = "posts" => ("blogs" \in old /\ ~again => OldPosts \subseteq posts)

\* The statements before the one that is next have done what they are for.
Progress ==
  import.dir = "up" =>
    /\ import.pc \in Nat
    /\ \A j \in DOMAIN ImportStatements : j < import.pc => Did(ImportStatements[j])

\* No old user without a copy once there is any user.
UsersKnown ==
  /\ \A u \in newUsers : u.id # 0 /\ (u.email = SystemMail => u.id = System)
  /\ newUsers # {} => OldUsersThere

\* What is there, and what is through, whenever the import runs or rests.
ImportInv ==
  /\ PostsInv
  /\ UsersKnown
  /\ \A x \in homes : HomeKnown(x)
  /\ Progress

-----------------------------------------------------------------------------
\* Ids of listings of two kinds differ, and are none of the others.
LEMMA OffsetsApart ==
  ASSUME ImportAssumption, NEW k \in ToSet(Kinds), NEW l \in ToSet(Kinds),
         NEW a \in 1 .. (Span - 1), NEW b \in 1 .. (Span - 1)
  PROVE  /\ Offset(k) + a = Offset(l) + b => k = l /\ a = b
         /\ Offset(k) + a # Orphan
<1> DEFINE at(m) == CHOOSE i \in DOMAIN Kinds : Kinds[i] = m
<1>1. /\ at(k) \in Nat /\ at(k) >= 1 /\ Kinds[at(k)] = k
      /\ at(l) \in Nat /\ at(l) >= 1 /\ Kinds[at(l)] = l
  BY DEF ImportAssumption, ToSet
<1>2. Offset(k) = Span * at(k) /\ Offset(l) = Span * at(l)
  BY DEF Offset
<1> HIDE DEF at
<1>3. Span \in Nat /\ Span > 1
  BY DEF ImportAssumption
<1>4. \A i, j \in Nat : i < j => Span * i + Span <= Span * j
  <2> SUFFICES ASSUME NEW i \in Nat, NEW j \in Nat, i < j PROVE Span * i + Span <= Span * j
    OBVIOUS
  <2>1. PICK d \in Nat : j = i + 1 + d
    <3>1. j - i - 1 \in Nat /\ j = i + 1 + (j - i - 1)
      OBVIOUS
    <3> QED  BY <3>1
  <2>2. Span * j = Span * i + Span + Span * d
    BY <1>3, <2>1
  <2>3. Span * d >= 0 /\ Span * d \in Nat /\ Span * i \in Nat
    BY <1>3
  <2> QED  BY <1>3, <2>2, <2>3
<1>5. Span * at(k) \in Nat /\ Span * at(l) \in Nat /\ Span * at(k) >= Span
  <2>1. Span * 0 + Span <= Span * at(k)
    BY <1>1, <1>4
  <2> QED  BY <1>1, <1>3, <2>1
<1>6. Offset(k) + a # Orphan
  BY <1>2, <1>3, <1>5 DEF Orphan
<1>7. ASSUME Offset(k) + a = Offset(l) + b
      PROVE  at(k) = at(l)
  <2>1. ~(at(k) < at(l))
    <3> SUFFICES ASSUME at(k) < at(l) PROVE FALSE
      OBVIOUS
    <3>1. Span * at(k) + Span <= Span * at(l)
      BY <1>1, <1>4
    <3> QED  BY <1>2, <1>3, <1>5, <1>7, <3>1
  <2>2. ~(at(l) < at(k))
    <3> SUFFICES ASSUME at(l) < at(k) PROVE FALSE
      OBVIOUS
    <3>1. Span * at(l) + Span <= Span * at(k)
      BY <1>1, <1>4
    <3> QED  BY <1>2, <1>3, <1>5, <1>7, <3>1
  <2> QED  BY <1>1, <2>1, <2>2
<1>8. ASSUME Offset(k) + a = Offset(l) + b
      PROVE  k = l /\ a = b
  BY <1>1, <1>2, <1>3, <1>5, <1>7, <1>8
<1> QED
  BY <1>6, <1>8

\* An old listing with the id of a property is the one it was copied from.
LEMMA ListingOf ==
  ASSUME ImportAssumption, NEW x, HomeKnown(x), NEW k \in ToSet(Kinds), NEW a \in 1 .. (Span - 1),
         x.id = Offset(k) + a
  PROVE  k \in old /\ \E h \in OldHomes[k] : h.id = a /\ HomeOfListing(x, k, h)
<1>1. x.id # Orphan
  BY OffsetsApart
<1>2. PICK l \in ToSet(Kinds) \intersect old : \E h \in OldHomes[l] : HomeOfListing(x, l, h)
  BY <1>1 DEF HomeKnown
<1>3. PICK h \in OldHomes[l] : HomeOfListing(x, l, h)
  BY <1>2
<1>4. h.id \in 1 .. (Span - 1)
  BY <1>2, <1>3 DEF ImportAssumption
<1>5. Offset(k) + a = Offset(l) + h.id
  BY <1>3 DEF HomeOfListing
<1>6. k = l /\ a = h.id
  BY <1>2, <1>4, <1>5, OffsetsApart
<1> QED
  BY <1>2, <1>3, <1>6

\* When the listings are copied a reference leads to the copy.
LEMMA HomeOfIsCopy ==
  ASSUME ImportAssumption, \A x \in homes : HomeKnown(x), Orphan \in HomeIds,
         \A k \in ToSet(Kinds) \intersect old : \A h \in OldHomes[k] : Offset(k) + h.id \in HomeIds,
         NEW kind, NEW id \in 1 .. (Span - 1)
  PROVE  HomeOf(kind, id) = Copy(kind, id) /\ HomeOf(kind, id) \in HomeIds
<1>1. CASE kind \in ToSet(Kinds)
  <2>1. Offset(kind) + id \in HomeIds <=> kind \in old /\ \E h \in OldHomes[kind] : h.id = id
    <3>1. ASSUME Offset(kind) + id \in HomeIds
          PROVE  kind \in old /\ \E h \in OldHomes[kind] : h.id = id
      <4>1. PICK x \in homes : x.id = Offset(kind) + id
        BY <3>1 DEF HomeIds
      <4> QED  BY <1>1, <4>1, ListingOf
    <3> QED  BY <1>1, <3>1
  <2> QED  BY <1>1, <2>1 DEF HomeOf, Copy
<1>2. CASE kind \notin ToSet(Kinds)
  BY <1>2 DEF HomeOf, Copy
<1> QED
  BY <1>1, <1>2

\* What is done stays done as long as rows only come.
LEMMA DidStays ==
  ASSUME UNCHANGED <<old, again>>, renamed => renamed', newUsers \subseteq newUsers', homes \subseteq homes',
         parts \subseteq parts', leads \subseteq leads', wishes \subseteq wishes', posts \subseteq posts',
         NEW s, Did(s)
  PROVE  Did(s)'
<1>1. UserIds \subseteq UserIds' /\ HomeIds \subseteq HomeIds'
  BY DEF UserIds, HomeIds
<1>2. \A k, i : Copy(k, i)' = Copy(k, i)
  BY DEF Copy
<1>3. \A u : Known(u)' <=> Known(u)
  BY DEF Known, First
<1>4. \A w, x : WishKept(w, x) => WishKept(w, x)'
  BY <1>2, <1>3 DEF WishKept
<1>5. OldUsersThere => OldUsersThere'
  BY <1>3 DEF OldUsersThere
<1>6. GuestsThere => GuestsThere'
  BY DEF GuestsThere
<1>7. /\ s.do = "rename" => ("blogs" \in old' /\ ~again' => renamed')
      /\ s.do = "user" => OldUsersThere'
      /\ s.do = "wisher" => GuestsThere'
      /\ s.do = "system" => System \in UserIds'
      /\ s.do = "homes" /\ s.kind \in old' => \A h \in OldHomes[s.kind] : Offset(s.kind) + h.id \in HomeIds'
      /\ s.do = "orphan" => Orphan \in HomeIds'
  BY <1>1, <1>5, <1>6 DEF Did
<1>8. /\ s.do \in ImportTables /\ s.kind \in old' =>
           \A h \in OldHomes[s.kind] : \A p \in PartsOf(s.kind, h)[s.do] :
             <<s.do, Offset(s.kind) + h.id, p>> \in parts'
      /\ s.do = "propertydetails" /\ "propertydetails" \in old' =>
           \A n \in OldInterests : \E l \in leads' : l.of = <<"interest", n>>
      /\ s.do = "posts" => ("blogs" \in old' /\ ~again' => OldPosts \subseteq posts')
  BY DEF Did
<1>9. s.do = "enquiry" /\ "enquiry" \in old' => \A e \in OldEnquiries :
       \E l \in leads' : l.of = <<"enquiry", e.id>> /\ l.home = Copy(e.kind, e.home)'
  BY <1>2 DEF Did
<1>10. s.do = "wishlist" /\ "wishlist" \in old' => \A w \in OldWishes : \E x \in wishes' : WishKept(w, x)'
  BY <1>4 DEF Did
<1> QED
  BY <1>7, <1>8, <1>9, <1>10 DEF Did

\* Properties of known origin keep it.
LEMMA HomesStayKnown ==
  ASSUME UNCHANGED old, newUsers \subseteq newUsers', NEW x, HomeKnown(x)
  PROVE  HomeKnown(x)'
<1>1. UserIds \subseteq UserIds'
  BY DEF UserIds
<1>2. \A u : Known(u)' <=> Known(u)
  BY DEF Known, First
<1>3. \A k, h : HomeOfListing(x, k, h)' <=> HomeOfListing(x, k, h)
  BY <1>2 DEF HomeOfListing
<1> QED
  BY <1>1, <1>3 DEF HomeKnown

-----------------------------------------------------------------------------
\* What an earlier stage was for is done.
LEMMA Earlier ==
  ASSUME ImportAssumption, Progress, import.dir = "up", import.pc \in DOMAIN ImportStatements,
         NEW s, Stage[s] < Stage[ImportStatements[import.pc].do], NEW k,
         \E i \in DOMAIN ImportStatements : ImportStatements[i] = [do |-> s, kind |-> k]
  PROVE  Did([do |-> s, kind |-> k])
<1>1. PICK i \in DOMAIN ImportStatements : ImportStatements[i] = [do |-> s, kind |-> k]
  OBVIOUS
<1>2. ImportStatements[i].do = s
  BY <1>1
<1>3. i < import.pc
  BY <1>2, ImportOrder
<1> QED
  BY <1>1, <1>3 DEF Progress

\* What a statement finds done.
LEMMA Before ==
  ASSUME ImportAssumption, Progress, import.dir = "up", import.pc \in DOMAIN ImportStatements,
         NEW n, n = Stage[ImportStatements[import.pc].do]
  PROVE  /\ n > 1 => ("blogs" \in old /\ ~again => renamed)
         /\ n > 3 => OldUsersThere
         /\ n > 5 => GuestsThere
         /\ n > 6 => System \in UserIds
         /\ n > 7 => \A k \in ToSet(Kinds) \intersect old : \A h \in OldHomes[k] : Offset(k) + h.id \in HomeIds
         /\ n > 8 => Orphan \in HomeIds
<1>1. /\ Stage["rename"] = 1 /\ Stage["user"] = 3 /\ Stage["wisher"] = 5 /\ Stage["system"] = 6
      /\ Stage["homes"] = 7 /\ Stage["orphan"] = 8
      /\ {"rename", "user", "wisher", "system", "orphan"}
           \subseteq DOMAIN Stage \ Looped
      /\ "homes" \in Looped
  BY DEF Stage, Looped
<1>2. ASSUME NEW s \in {"rename", "user", "wisher", "system", "orphan"}, n > Stage[s]
      PROVE  Did([do |-> s, kind |-> ""])
  <2>1. \E i \in DOMAIN ImportStatements : ImportStatements[i] = [do |-> s, kind |-> ""]
    BY <1>1, ImportOrder
  <2>2. Stage[s] < Stage[ImportStatements[import.pc].do]
    BY <1>2
  <2> QED  BY <2>1, <2>2, Earlier
<1>3. ASSUME NEW k \in ToSet(Kinds), n > 7
      PROVE  Did([do |-> "homes", kind |-> k])
  <2>1. \E i \in DOMAIN ImportStatements : ImportStatements[i] = [do |-> "homes", kind |-> k]
    BY <1>1, ImportOrder
  <2>2. Stage["homes"] < Stage[ImportStatements[import.pc].do]
    BY <1>1, <1>3
  <2> QED  BY <2>1, <2>2, Earlier
<1>4. n > 7 => \A k \in ToSet(Kinds) \intersect old : \A h \in OldHomes[k] : Offset(k) + h.id \in HomeIds
  BY <1>3 DEF Did
<1>5. /\ n > 1 => Did([do |-> "rename", kind |-> ""])
      /\ n > 3 => Did([do |-> "user", kind |-> ""])
      /\ n > 5 => Did([do |-> "wisher", kind |-> ""])
      /\ n > 6 => Did([do |-> "system", kind |-> ""])
      /\ n > 8 => Did([do |-> "orphan", kind |-> ""])
  BY <1>1, <1>2
<1> QED
  BY <1>4, <1>5 DEF Did

\* The next statement has only added rows, and done what it is for.
LEMMA Advance ==
  ASSUME ImportAssumption, ImportInv, PostsInv', import.dir = "up", import.pc \in DOMAIN ImportStatements, Done,
         UNCHANGED <<old, again>>, renamed => renamed', newUsers \subseteq newUsers', homes \subseteq homes',
         parts \subseteq parts', leads \subseteq leads', wishes \subseteq wishes', posts \subseteq posts',
         UsersKnown', \A x \in homes' : HomeKnown(x)',
         NEW s, s = ImportStatements[import.pc], Did(s)'
  PROVE  ImportInv'
<1>2. import' = [import EXCEPT !.pc = import.pc + 1] /\ DOMAIN import = {"dir", "pc"} /\ import.pc \in Nat
  BY DEF Done, ImportInv, PostsInv, Progress
<1>3. import'.dir = "up" /\ import'.pc = import.pc + 1
  BY <1>2
<1>4. ASSUME NEW j \in DOMAIN ImportStatements, j < import'.pc
      PROVE  Did(ImportStatements[j])'
  <2>1. j \in Nat
    <3>1. DOMAIN ImportStatements = 1 .. Len(ImportStatements)
      BY ImportOrder
    <3> QED  BY <3>1
  <2>2. CASE j = import.pc
    BY <2>2
  <2>3. CASE j < import.pc
    <3>1. Did(ImportStatements[j])
      BY <2>3 DEF ImportInv, Progress
    <3> QED  BY <3>1, DidStays
  <2> QED  BY <1>2, <1>3, <1>4, <2>1, <2>2, <2>3
<1> QED
  BY <1>2, <1>3, <1>4 DEF ImportInv, Progress

\* Nothing is copied at first.
LEMMA ImportInitInv == ASSUME ImportAssumption PROVE ImportInit => ImportInv
BY DEF ImportInit, ImportInv, PostsInv, OldPostsKept, NoImport, UsersKnown, Progress

\* Users only come, and those that keep the system's address are the system.
LEMMA UsersGrow ==
  ASSUME ImportAssumption, ImportInv, UNCHANGED old, NEW N, newUsers' = newUsers \union N,
         \A u \in N : u.id # 0 /\ (u.email = SystemMail => u.id = System),
         N # {} => OldUsersThere'
  PROVE  UsersKnown'
<1>1. \A u : Known(u)' <=> Known(u)
  BY DEF Known, First
<1>2. OldUsersThere => OldUsersThere'
  BY <1>1 DEF OldUsersThere
<1> QED
  BY <1>2 DEF UsersKnown, ImportInv

\* Users that are added by their address come with the next ids, and each address is there.
LEMMA MailsPut ==
  ASSUME ImportAssumption, NEW M, PutMails(M), \A m \in M : m # SystemMail
  PROVE  \E N : /\ newUsers' = newUsers \union N
                /\ \A u \in N : u.id # 0 /\ u.email # SystemMail
                /\ \A m \in M : \E u \in newUsers' : u.email = m
<1> DEFINE new == {m \in M : \A u \in newUsers : u.email # m}
<1>1. PICK ids \in Injection(new, 1 .. (LargestId + Cardinality(new))) :
        newUsers' = newUsers \union {[id |-> ids[m], email |-> m] : m \in new}
  BY DEF PutMails
<1>2. \A m \in new : ids[m] # 0
  <2> HIDE DEF new
  <2>1. ids \in [new -> 1 .. (LargestId + Cardinality(new))]
    BY <1>1 DEF Injection
  <2> QED  BY <2>1
<1> DEFINE N == {[id |-> ids[m], email |-> m] : m \in new}
<1>3. \A u \in N : u.id # 0 /\ u.email # SystemMail
  BY <1>2
<1>4. ASSUME NEW m \in M  PROVE \E u \in newUsers' : u.email = m
  <2>1. CASE m \in new
    <3>1. [id |-> ids[m], email |-> m] \in newUsers'
      BY <1>1, <2>1
    <3> QED  BY <3>1
  <2>2. CASE m \notin new
    BY <1>1, <2>2
  <2> QED  BY <2>1, <2>2
<1> QED
  BY <1>1, <1>3, <1>4

\* The users: every statement leaves those it is for and no other.
LEMMA UsersStep ==
  ASSUME ImportAssumption, ImportInv, PostsInv', MigrateUsers
  PROVE  ImportInv'
<1> PICK s : s = ImportStatements[import.pc]
  OBVIOUS
<1>1. /\ import.dir = "up" /\ import.pc \in DOMAIN ImportStatements /\ Done
      /\ UNCHANGED <<old, again, renamed, homes, parts, leads, wishes, posts>>
  BY DEF MigrateUsers, At, Schema
<1>2. /\ Stage["user"] = 3 /\ Stage["login"] = 4 /\ Stage["wisher"] = 5 /\ Stage["system"] = 6
  BY DEF Stage
<1>3. Stage[s.do] > 3 => OldUsersThere
  BY <1>1, Before DEF ImportInv
<1>4. \A u : Known(u)' <=> Known(u)
  BY <1>1 DEF Known, First
<1>5. ASSUME newUsers \subseteq newUsers'
      PROVE  OldUsersThere => OldUsersThere'
  BY <1>4, <1>5 DEF OldUsersThere
<1>6. /\ newUsers \subseteq newUsers' /\ UsersKnown' /\ s.do \in {"user", "login", "wisher", "system"}
      /\ s.do = "user" => OldUsersThere'
      /\ s.do = "wisher" => GuestsThere'
      /\ s.do = "system" => System \in UserIds'
  <2>1. CASE s.do = "user" /\ newUsers' = newUsers \union {OldUsers[i] : i \in IF "user" \in old THEN Fitting ELSE {}}
    <3> DEFINE N == {OldUsers[i] : i \in IF "user" \in old THEN Fitting ELSE {}}
    <3>1. \A u \in N : u.id # 0 /\ (u.email = SystemMail => u.id = System)
      BY DEF Fitting, ImportAssumption
    <3>2. OldUsersThere'
      <4>1. CASE newUsers = {}
        <5> SUFFICES ASSUME NEW i \in DOMAIN OldUsers, Known(OldUsers[i].id)
                     PROVE  OldUsers[i] \in newUsers'
          BY <1>4 DEF OldUsersThere
        <5>1. "user" \in old /\ First(i)
          BY DEF Known, ImportAssumption
        <5>2. i \in Fitting
          BY <4>1, <5>1 DEF First, Fitting, Taken
        <5> QED  BY <2>1, <5>1, <5>2
      <4>2. CASE newUsers # {}
        BY <1>5, <2>1, <4>2 DEF ImportInv, UsersKnown
      <4> QED  BY <4>1, <4>2
    <3> HIDE DEF N
    <3>3. UsersKnown'
      BY <1>1, <2>1, <3>1, <3>2, UsersGrow DEF N
    <3> QED  BY <2>1, <3>2, <3>3
  <2>2. ASSUME NEW M, PutMails(M), \A m \in M : m # SystemMail, s.do \in {"login", "wisher"}
        PROVE  newUsers \subseteq newUsers' /\ UsersKnown' /\ \A m \in M : \E u \in newUsers' : u.email = m
    <3>1. PICK N : /\ newUsers' = newUsers \union N
                   /\ \A u \in N : u.id # 0 /\ u.email # SystemMail
                   /\ \A m \in M : \E u \in newUsers' : u.email = m
      BY <2>2, MailsPut
    <3>2. OldUsersThere'
      BY <1>2, <1>3, <1>5, <2>2, <3>1
    <3> QED  BY <1>1, <3>1, <3>2, UsersGrow
  <2>3. CASE s.do = "login" /\ PutMails(IF "login" \in old THEN {<<"legacy-login", i>> : i \in OldLogins} ELSE {})
    <3>1. \A m \in (IF "login" \in old THEN {<<"legacy-login", i>> : i \in OldLogins} ELSE {}) : m # SystemMail
      BY DEF SystemMail
    <3> QED  BY <2>2, <2>3, <3>1
  <2>4. CASE s.do = "wisher" /\ PutMails(IF "wishlist" \in old THEN {Mail(g) : g \in Guests} ELSE {})
    <3> DEFINE M == IF "wishlist" \in old THEN {Mail(g) : g \in Guests} ELSE {}
    <3>1. \A m \in M : m # SystemMail
      BY DEF SystemMail, Mail
    <3> HIDE DEF M
    <3>2. newUsers \subseteq newUsers' /\ UsersKnown' /\ \A m \in M : \E u \in newUsers' : u.email = m
      BY <2>2, <2>4, <3>1 DEF M
    <3>3. GuestsThere'
      <4> SUFFICES ASSUME "wishlist" \in old, NEW w \in OldWishes, w.user = 0
                   PROVE  \E u \in newUsers' : u.email = Mail(w.guest)
        BY <1>1 DEF GuestsThere
      <4>1. Mail(w.guest) \in M
        BY DEF M, Guests
      <4> QED  BY <3>2, <4>1
    <3> QED  BY <2>4, <3>2, <3>3
  <2>5. CASE s.do = "system" /\ newUsers' = newUsers \union IF Taken([id |-> System, email |-> SystemMail]) THEN {}
                                                            ELSE {[id |-> System, email |-> SystemMail]}
    <3> DEFINE u == [id |-> System, email |-> SystemMail]
               N == IF Taken(u) THEN {} ELSE {u}
    <3>1. u.id = System /\ u.email = SystemMail /\ System # 0
      BY DEF System
    <3> HIDE DEF u
    <3>2. newUsers' = newUsers \union N
      BY <2>5 DEF u
    <3>3. OldUsersThere'
      BY <1>2, <1>3, <1>5, <2>5, <3>2
    <3>4. UsersKnown'
      <4>1. \A v \in N : v.id # 0 /\ (v.email = SystemMail => v.id = System)
        BY <3>1
      <4> HIDE DEF N
      <4> QED  BY <1>1, <3>2, <3>3, <4>1, UsersGrow
    <3>5. System \in UserIds'
      <4>1. CASE Taken(u)
        <5>1. PICK v \in newUsers : v.id = u.id \/ v.email = u.email
          BY <4>1 DEF Taken
        <5>2. v.id = System
          BY <3>1, <5>1 DEF ImportInv, UsersKnown
        <5> QED  BY <3>2, <5>2 DEF UserIds
      <4>2. CASE ~Taken(u)
        BY <3>1, <3>2, <4>2 DEF UserIds
      <4> QED  BY <4>1, <4>2
    <3> QED  BY <2>5, <3>2, <3>4, <3>5
  <2> QED
    BY <2>1, <2>3, <2>4, <2>5 DEF MigrateUsers, At
<1>7. \A x \in homes' : HomeKnown(x)'
  BY <1>1, <1>6, HomesStayKnown DEF ImportInv
<1>8. Did(s)'
  BY <1>6 DEF Did, ImportTables
<1> QED
  BY <1>1, <1>6, <1>7, <1>8, Advance

\* A copied listing is there with its owner; one that is not copied has its id taken by its own copy.
LEMMA HomesCopied ==
  ASSUME ImportAssumption, ImportInv, System \in UserIds, OldUsersThere, Kind \in old,
         NEW k \in ToSet(Kinds), k = Kind,
         homes' = PutHomes({[id |-> Offset(Kind) + h.id, kind |-> Kind, owner |-> Owner(h.by)] : h \in OldHomes[Kind]}),
         UNCHANGED <<newUsers, old>>
  PROVE  /\ homes \subseteq homes'
         /\ \A x \in homes' : HomeKnown(x)'
         /\ \A h \in OldHomes[k] : Offset(k) + h.id \in HomeIds'
<1>1. UserIds' = UserIds
  BY DEF UserIds
<1>2. \A by : Known(by) => by \in UserIds
  BY DEF Known, OldUsersThere, UserIds, ImportAssumption
<1>3. ASSUME NEW by
      PROVE  /\ Owner(by) \in UserIds
             /\ IF k \in OwnedKinds /\ Known(by) THEN Owner(by) = by ELSE Owner(by) \in {System, by}
  BY <1>2 DEF Owner
<1> DEFINE new(h) == [id |-> Offset(k) + h.id, kind |-> k, owner |-> Owner(h.by)]
<1>4. homes' = homes \union {x \in {new(h) : h \in OldHomes[k]} : x.id \notin HomeIds /\ x.owner \in UserIds}
  BY DEF PutHomes
<1>5. \A h \in OldHomes[k] : new(h).id = Offset(k) + h.id /\ new(h).kind = k /\ new(h).owner = Owner(h.by)
  OBVIOUS
<1> HIDE DEF new
<1>6. ASSUME NEW h \in OldHomes[k]  PROVE HomeKnown(new(h))
  <2>1. HomeOfListing(new(h), k, h)
    BY <1>3, <1>5 DEF HomeOfListing
  <2> QED  BY <1>3, <1>5, <2>1 DEF HomeKnown
<1>7. ASSUME NEW x \in homes'  PROVE HomeKnown(x)'
  <2>1. HomeKnown(x)
    BY <1>4, <1>6 DEF ImportInv
  <2> QED  BY <2>1, HomesStayKnown
<1>8. ASSUME NEW h \in OldHomes[k]  PROVE Offset(k) + h.id \in HomeIds'
  <2>1. CASE Offset(k) + h.id \in HomeIds
    BY <1>4, <2>1 DEF HomeIds
  <2>2. CASE Offset(k) + h.id \notin HomeIds
    <3>1. new(h) \in homes'
      BY <1>3, <1>4, <1>5, <2>2
    <3> QED  BY <1>5, <3>1 DEF HomeIds
  <2> QED  BY <2>1, <2>2
<1> QED
  BY <1>4, <1>7, <1>8

\* A statement of a loop is about one of the kinds.
LEMMA StatementKind ==
  ASSUME ImportAssumption, NEW i \in DOMAIN ImportStatements
  PROVE  ImportStatements[i].do \in Looped => ImportStatements[i].kind \in ToSet(Kinds)
<1>1. ImportStatements \in Seq(Statement)
  BY ImportOrder
<1>2. ImportStatements[i] \in Statement
  BY <1>1
<1> QED  BY <1>2 DEF Statement

\* The listings: each is copied, or its copy is there, with an owner that is a user.
LEMMA HomesStep ==
  ASSUME ImportAssumption, ImportInv, PostsInv', MigrateProperties
  PROVE  ImportInv'
<1> PICK s : s = ImportStatements[import.pc]
  OBVIOUS
<1>1. /\ import.dir = "up" /\ import.pc \in DOMAIN ImportStatements /\ Done
      /\ UNCHANGED <<old, again, renamed, newUsers, parts, leads, wishes, posts>>
  BY DEF MigrateProperties, At, Schema
<1>2. Stage["homes"] = 7 /\ Stage["orphan"] = 8
  BY DEF Stage
<1>3. /\ Stage[s.do] > 3 => OldUsersThere
      /\ Stage[s.do] > 6 => System \in UserIds
  BY <1>1, Before DEF ImportInv
<1>4. UsersKnown'
  <2>1. OldUsersThere' <=> OldUsersThere
    BY <1>1 DEF OldUsersThere, Known, First
  <2> QED  BY <1>1, <2>1 DEF ImportInv, UsersKnown
<1>5. homes \subseteq homes' /\ (\A x \in homes' : HomeKnown(x)') /\ Did(s)'
  <2>1. CASE s.do = "homes" /\ s.kind \notin old /\ homes' = homes
    <3>1. Did(s)'
      BY <1>1, <2>1 DEF Did, ImportTables
    <3> QED  BY <1>1, <2>1, <3>1, HomesStayKnown DEF ImportInv
  <2>2. CASE s.do = "homes" /\ s.kind \in old /\ s.kind \in ToSet(Kinds)
             /\ homes' = PutHomes({[id |-> Offset(Kind) + h.id, kind |-> Kind, owner |-> Owner(h.by)] :
                                   h \in OldHomes[Kind]})
    <3>1. s.kind = Kind
      BY DEF Kind
    <3>2. /\ homes \subseteq homes'
          /\ \A x \in homes' : HomeKnown(x)'
          /\ \A h \in OldHomes[s.kind] : Offset(s.kind) + h.id \in HomeIds'
      BY <1>1, <1>2, <1>3, <2>2, <3>1, HomesCopied
    <3>3. Did(s)'
      BY <1>1, <2>2, <3>2 DEF Did, ImportTables
    <3> QED  BY <3>2, <3>3
  <2>3. CASE s.do = "orphan" /\ homes' = PutHomes({[id |-> Orphan, kind |-> "other", owner |-> System]})
    <3> DEFINE o == [id |-> Orphan, kind |-> "other", owner |-> System]
    <3>1. o.id = Orphan /\ o.owner = System
      OBVIOUS
    <3> HIDE DEF o
    <3>2. System \in UserIds
      BY <1>2, <1>3, <2>3
    <3>3. homes' = homes \union {x \in {o} : x.id \notin HomeIds /\ x.owner \in UserIds}
      BY <2>3 DEF PutHomes, o
    <3>4. \A x \in homes' : HomeKnown(x)
      BY <3>1, <3>2, <3>3 DEF HomeKnown, ImportInv
    <3>5. \A x \in homes' : HomeKnown(x)'
      BY <1>1, <3>4, HomesStayKnown
    <3>6. Orphan \in HomeIds'
      BY <3>1, <3>2, <3>3 DEF HomeIds
    <3>7. Did(s)'
      BY <1>1, <2>3, <3>6 DEF Did, ImportTables
    <3> QED  BY <3>3, <3>5, <3>7
  <2> QED
    BY <1>1, <2>1, <2>2, <2>3, StatementKind DEF MigrateProperties, At, Kind, Looped
<1> QED
  BY <1>1, <1>4, <1>5, Advance

\* Users are untouched by a statement about something else.
LEMMA UsersUntouched == ASSUME ImportInv, UNCHANGED <<newUsers, old>> PROVE UsersKnown'
<1>1. OldUsersThere' <=> OldUsersThere
  BY DEF OldUsersThere, Known, First
<1> QED  BY <1>1 DEF ImportInv, UsersKnown

\* So are the properties.
LEMMA HomesUntouched ==
  ASSUME ImportInv, UNCHANGED <<newUsers, old, homes>> PROVE \A x \in homes' : HomeKnown(x)'
BY HomesStayKnown DEF ImportInv

\* The parts of the listings that have their property.
LEMMA PartsStep ==
  ASSUME ImportAssumption, ImportInv, PostsInv', NEW t \in ImportTables, MigrateParts(t)
  PROVE  ImportInv'
<1> PICK s : s = ImportStatements[import.pc]
  OBVIOUS
<1>1. /\ import.dir = "up" /\ import.pc \in DOMAIN ImportStatements /\ Done /\ s.do = t /\ s.kind = Kind
      /\ UNCHANGED <<old, again, renamed, newUsers, homes, leads, wishes, posts>>
  BY DEF MigrateParts, At, Schema, Kind
<1>2. s.do \in Looped /\ s.kind \in ToSet(Kinds) /\ Stage[s.do] > 8
  BY <1>1, StatementKind DEF ImportTables, Looped, Stage
<1>3. \A k \in ToSet(Kinds) \intersect old : \A h \in OldHomes[k] : Offset(k) + h.id \in HomeIds
  <2>1. ASSUME NEW d \in ImportTables
        PROVE  Stage[d] > 7
    BY <2>1 DEF Stage, ImportTables
  <2>2. Stage[s.do] > 7
    BY <1>1, <2>1
  <2> QED  BY <1>1, <2>2, Before DEF ImportInv
<1>4. parts \subseteq parts' /\ (s.kind \in old =>
        \A h \in OldHomes[s.kind] : \A p \in PartsOf(s.kind, h)[s.do] : <<s.do, Offset(s.kind) + h.id, p>> \in parts')
  <2>1. CASE s.kind \notin old
    BY <1>1, <2>1 DEF MigrateParts
  <2>2. CASE s.kind \in old
    <3> DEFINE S == UNION {{<<t, Offset(Kind) + h.id, x>> : x \in PartsOf(Kind, h)[t]} : h \in OldHomes[Kind]}
    <3>1. parts' = parts \union {p \in S : p[2] \in HomeIds}
      BY <1>1, <2>2 DEF MigrateParts, PutParts
    <3>2. ASSUME NEW h \in OldHomes[Kind], NEW x \in PartsOf(Kind, h)[t]
          PROVE  <<t, Offset(Kind) + h.id, x>> \in parts'
      <4> DEFINE p == <<t, Offset(Kind) + h.id, x>>
      <4>1. p \in S /\ p[2] = Offset(Kind) + h.id
        OBVIOUS
      <4> HIDE DEF p, S
      <4>2. Offset(Kind) + h.id \in HomeIds
        BY <1>1, <1>2, <1>3, <2>2
      <4> QED  BY <3>1, <4>1, <4>2 DEF p
    <3> QED  BY <1>1, <3>1, <3>2
  <2> QED  BY <2>1, <2>2
<1>5. Did(s)'
  BY <1>1, <1>4 DEF Did, ImportTables
<1> QED
  BY <1>1, <1>4, <1>5, UsersUntouched, HomesUntouched, Advance

\* A reference finds its copy once the listings are copied.
LEMMA ReferenceFound ==
  ASSUME ImportAssumption, ImportInv, import.dir = "up", import.pc \in DOMAIN ImportStatements,
         Stage[ImportStatements[import.pc].do] > 8, NEW kind, NEW id \in 1 .. (Span - 1)
  PROVE  HomeOf(kind, id) = Copy(kind, id) /\ HomeOf(kind, id) \in HomeIds
<1>1. Stage[ImportStatements[import.pc].do] \in Nat
  <2>0. ImportStatements \in Seq(Statement)
    BY ImportOrder
  <2>1. ImportStatements[import.pc] \in Statement
    BY <2>0
  <2>2. ImportStatements[import.pc].do \in DOMAIN Stage
    BY <2>1, StageTyped DEF Statement
  <2> QED  BY <2>2, StageTyped
<1>2. /\ Orphan \in HomeIds
      /\ \A k \in ToSet(Kinds) \intersect old : \A h \in OldHomes[k] : Offset(k) + h.id \in HomeIds
  BY <1>1, Before DEF ImportInv
<1> QED
  BY <1>2, HomeOfIsCopy DEF ImportInv

\* Every lead whose property is there is added.
LEMMA LeadsPut ==
  ASSUME NEW S, leads' = PutLeads(S)
  PROVE  /\ leads \subseteq leads'
         /\ \A l \in S : l.home \in HomeIds => \E x \in leads' : x.of = l.of /\ x.home = l.home
<1> DEFINE new(l) == [of |-> l.of, home |-> l.home, copy |-> 1 + Cardinality({x \in leads : x.of = l.of})]
<1>1. leads' = leads \union {new(l) : l \in {y \in S : y.home \in HomeIds}}
  BY DEF PutLeads
<1>2. \A l : new(l).of = l.of /\ new(l).home = l.home
  OBVIOUS
<1> HIDE DEF new
<1> QED  BY <1>1, <1>2

\* The enquiries, each for the copy of its listing.
LEMMA LeadsStep ==
  ASSUME ImportAssumption, ImportInv, PostsInv', MigrateLeads
  PROVE  ImportInv'
<1> PICK s : s = ImportStatements[import.pc]
  OBVIOUS
<1>1. /\ import.dir = "up" /\ import.pc \in DOMAIN ImportStatements /\ Done
      /\ UNCHANGED <<old, again, renamed, newUsers, homes, parts, wishes, posts>>
  BY DEF MigrateLeads, At, Schema
<1>2. Stage["enquiry"] = 13 /\ Stage["propertydetails"] = 14
  BY DEF Stage
<1>3. \A k, i : Copy(k, i)' = Copy(k, i)
  BY <1>1 DEF Copy
<1>4. leads \subseteq leads' /\ Did(s)'
  <2>1. CASE s.do = "enquiry" /\ "enquiry" \in old
             /\ leads' = PutLeads({[of |-> <<"enquiry", e.id>>, home |-> HomeOf(e.kind, e.home)] : e \in OldEnquiries})
    <3>1. ASSUME NEW e \in OldEnquiries
          PROVE  \E l \in leads' : l.of = <<"enquiry", e.id>> /\ l.home = Copy(e.kind, e.home)
      <4>1. e.home \in 1 .. (Span - 1)
        BY DEF ImportAssumption
      <4>2. HomeOf(e.kind, e.home) = Copy(e.kind, e.home) /\ HomeOf(e.kind, e.home) \in HomeIds
        BY <1>1, <1>2, <2>1, <4>1, ReferenceFound
      <4> DEFINE l == [of |-> <<"enquiry", e.id>>, home |-> HomeOf(e.kind, e.home)]
      <4>3. l.of = <<"enquiry", e.id>> /\ l.home = HomeOf(e.kind, e.home)
            /\ l \in {[of |-> <<"enquiry", x.id>>, home |-> HomeOf(x.kind, x.home)] : x \in OldEnquiries}
        OBVIOUS
      <4> HIDE DEF l
      <4> QED  BY <2>1, <4>2, <4>3, LeadsPut
    <3>2. Did(s)'
      BY <1>1, <1>3, <2>1, <3>1 DEF Did, ImportTables
    <3> QED  BY <2>1, <3>2, LeadsPut
  <2>2. CASE s.do = "propertydetails" /\ "propertydetails" \in old
             /\ leads' = PutLeads({[of |-> <<"interest", i>>, home |-> Orphan] : i \in OldInterests})
    <3>1. Orphan \in HomeIds
      BY <1>1, <1>2, <2>2, Before DEF ImportInv
    <3>2. ASSUME NEW n \in OldInterests
          PROVE  \E l \in leads' : l.of = <<"interest", n>>
      <4> DEFINE l == [of |-> <<"interest", n>>, home |-> Orphan]
      <4>1. l.of = <<"interest", n>> /\ l.home = Orphan
            /\ l \in {[of |-> <<"interest", i>>, home |-> Orphan] : i \in OldInterests}
        OBVIOUS
      <4> HIDE DEF l
      <4> QED  BY <2>2, <3>1, <4>1, LeadsPut
    <3>3. Did(s)'
      BY <1>1, <2>2, <3>2 DEF Did, ImportTables
    <3> QED  BY <2>2, <3>3, LeadsPut
  <2>3. CASE s.do \in {"enquiry", "propertydetails"} /\ s.do \notin old /\ leads' = leads
    BY <1>1, <2>3 DEF Did, ImportTables
  <2> QED
    BY <2>1, <2>2, <2>3 DEF MigrateLeads, At
<1> QED
  BY <1>1, <1>4, UsersUntouched, HomesUntouched, Advance

\* The wishes, each for its user or guest and the copy of its listing.
LEMMA WishesStep ==
  ASSUME ImportAssumption, ImportInv, PostsInv', MigrateWishlists
  PROVE  ImportInv'
<1> PICK s : s = ImportStatements[import.pc]
  OBVIOUS
<1>1. /\ import.dir = "up" /\ import.pc \in DOMAIN ImportStatements /\ Done /\ s.do = "wishlist"
      /\ UNCHANGED <<old, again, renamed, newUsers, homes, parts, leads, posts>>
  BY DEF MigrateWishlists, At, Schema
<1>2. Stage["wishlist"] = 15
  BY DEF Stage
<1>3. OldUsersThere /\ GuestsThere
  BY <1>1, <1>2, Before DEF ImportInv
<1>4. \A k, i : Copy(k, i)' = Copy(k, i)
  BY <1>1 DEF Copy
<1>5. \A w, x : WishKept(w, x)' <=> WishKept(w, x)
  BY <1>1, <1>4 DEF WishKept, Known, First
<1>6. CASE "wishlist" \in old
  <2>1. wishes' = wishes \union {<<Wisher(w), HomeOf(w.kind, w.home)>> : w \in OldWishes}
    BY <1>6 DEF MigrateWishlists
  <2>2. ASSUME NEW w \in OldWishes
        PROVE  WishKept(w, <<Wisher(w), HomeOf(w.kind, w.home)>>)
    <3> DEFINE x == <<Wisher(w), HomeOf(w.kind, w.home)>>
    <3>1. x[1] = Wisher(w) /\ x[2] = HomeOf(w.kind, w.home)
      OBVIOUS
    <3> HIDE DEF x
    <3>2. w.home \in 1 .. (Span - 1)
      BY DEF ImportAssumption
    <3>3. x[2] = Copy(w.kind, w.home)
      BY <1>1, <1>2, <3>1, <3>2, ReferenceFound
    <3>4. ASSUME Known(w.user)  PROVE x[1] = w.user
      <4>1. w.user \in UserIds
        BY <1>3, <3>4 DEF Known, OldUsersThere, UserIds
      <4> QED  BY <3>1, <4>1 DEF Wisher
    <3>5. ASSUME w.user = 0  PROVE \E u \in newUsers : u.id = x[1] /\ u.email = Mail(w.guest)
      <4>1. w.user \notin UserIds
        BY <3>5 DEF ImportInv, UsersKnown, UserIds
      <4>2. \E u \in newUsers : u.email = Mail(w.guest)
        BY <1>3, <1>6, <3>5 DEF GuestsThere
      <4> DEFINE u == CHOOSE u \in newUsers : u.email = Mail(w.guest)
      <4>3. u \in newUsers /\ u.email = Mail(w.guest)
        BY <4>2
      <4>4. Wisher(w) = u.id
        BY <4>1, <4>2 DEF Wisher
      <4> HIDE DEF u
      <4> QED  BY <3>1, <4>3, <4>4
    <3>6. WishKept(w, x)
      BY <3>3, <3>4, <3>5 DEF WishKept
    <3> QED  BY <3>6 DEF x
  <2>3. ASSUME NEW w \in OldWishes
        PROVE  \E x \in wishes' : WishKept(w, x)'
    BY <1>5, <2>1, <2>2
  <2>4. Did(s)'
    BY <1>1, <2>3 DEF Did, ImportTables
  <2> QED  BY <1>1, <2>1, <2>4, UsersUntouched, HomesUntouched, Advance
<1>7. CASE "wishlist" \notin old
  <2>1. wishes' = wishes
    BY <1>7 DEF MigrateWishlists
  <2>2. Did(s)'
    BY <1>1, <1>7 DEF Did, ImportTables
  <2> QED  BY <1>1, <2>1, <2>2, UsersUntouched, HomesUntouched, Advance
<1> QED
  BY <1>6, <1>7

\* The posts, which are under the other name by then.
LEMMA PostsCopied ==
  ASSUME ImportAssumption, ImportInv, PostsInv', MigrateBlogs
  PROVE  ImportInv'
<1> PICK s : s = ImportStatements[import.pc]
  OBVIOUS
<1>1. /\ import.dir = "up" /\ import.pc \in DOMAIN ImportStatements /\ Done /\ s.do = "posts"
      /\ UNCHANGED <<old, again, renamed, newUsers, homes, parts, leads, wishes>>
      /\ posts' = IF renamed THEN posts \union OldPosts ELSE posts
  BY DEF MigrateBlogs, At, Schema
<1>2. Stage["posts"] = 16
  BY DEF Stage
<1>3. "blogs" \in old /\ ~again => renamed
  BY <1>1, <1>2, Before DEF ImportInv
<1>4. Did(s)'
  BY <1>1, <1>3 DEF Did, ImportTables
<1> QED
  BY <1>1, <1>4, UsersUntouched, HomesUntouched, Advance

\* The tables the others need.
LEMMA TablesStep ==
  ASSUME ImportAssumption, ImportInv, PostsInv', Rename \/ Create
  PROVE  ImportInv'
<1> PICK s : s = ImportStatements[import.pc]
  OBVIOUS
<1>1. /\ import.dir = "up" /\ import.pc \in DOMAIN ImportStatements /\ Done
      /\ UNCHANGED <<old, again, newUsers, homes, parts, leads, wishes, posts>> /\ (renamed => renamed')
  BY DEF Rename, Create, At, data
<1>2. Did(s)'
  <2>1. CASE Rename
    <3>1. "blogs" \in old' /\ ~again' => renamed'
      BY <2>1 DEF Rename, OldBlogs, ImportInv, PostsInv, OldPostsKept
    <3> QED  BY <2>1, <3>1 DEF Rename, At, Did, ImportTables
  <2>2. CASE Create
    BY <2>2 DEF Create, At, Did, ImportTables
  <2> QED  BY <2>1, <2>2
<1> QED
  BY <1>1, <1>2, UsersUntouched, HomesUntouched, Advance

\* Every step keeps the invariant, a crash and a revert too.
LEMMA ImportStepInv == ASSUME ImportAssumption, ImportInv, [ImportNext]_importVars PROVE ImportInv'
<1>1. PostsInv'
  BY PostsStep DEF ImportInv
<1>2. ASSUME UNCHANGED <<newUsers, old, homes>>, import'.dir = "up" => import' = [dir |-> "up", pc |-> 1]
      PROVE  ImportInv'
  <2>1. UsersKnown' /\ \A x \in homes' : HomeKnown(x)'
    BY <1>2, UsersUntouched, HomesUntouched
  <2>2. DOMAIN ImportStatements \subseteq Nat \ {0}
    <3>1. DOMAIN ImportStatements = 1 .. Len(ImportStatements) /\ Len(ImportStatements) \in Nat
      BY ImportOrder
    <3> QED  BY <3>1
  <2>3. Progress'
    BY <1>2, <2>2 DEF Progress
  <2> QED  BY <1>1, <2>1, <2>3 DEF ImportInv
<1>3. CASE UNCHANGED importVars
  <2>1. UNCHANGED <<old, again, renamed, newUsers, homes, parts, leads, wishes, posts, import>>
    BY <1>3 DEF importVars
  <2>2. UsersKnown' /\ \A x \in homes' : HomeKnown(x)'
    BY <2>1, UsersUntouched, HomesUntouched
  <2>3. Progress'
    BY <2>1, DidStays DEF Progress, ImportInv
  <2> QED  BY <1>1, <2>2, <2>3 DEF ImportInv
<1>4. CASE StartImport
  BY <1>2, <1>4 DEF StartImport, data
<1>5. CASE RecordImport \/ StopImport \/ UnrecordImport \/ UndoImport
  BY <1>2, <1>5 DEF RecordImport, StopImport, UnrecordImport, UndoImport, NoImport, data
<1>6. CASE RenameBack
  <2>1. import'.dir = "down" /\ UNCHANGED <<newUsers, old, homes>>
    BY <1>6 DEF RenameBack, data, ImportInv, PostsInv
  <2> QED  BY <1>2, <2>1
<1>7. CASE DropTables
  <2>1. import'.dir = "down" /\ newUsers' = {} /\ homes' = {}
    BY <1>7 DEF DropTables, ImportInv, PostsInv
  <2> QED  BY <1>1, <2>1 DEF ImportInv, UsersKnown, Progress
<1>8. CASE Rename \/ Create
  BY <1>1, <1>8, TablesStep
<1>9. CASE MigrateUsers \/ MigrateProperties
  BY <1>1, <1>9, UsersStep, HomesStep
<1>10. ASSUME NEW t \in ImportTables, MigrateParts(t)  PROVE ImportInv'
  BY <1>1, <1>10, PartsStep
<1>11. CASE MigrateLeads \/ MigrateWishlists \/ MigrateBlogs
  BY <1>1, <1>11, LeadsStep, WishesStep, PostsCopied
<1> QED
  BY <1>3, <1>4, <1>5, <1>6, <1>7, <1>8, <1>9, <1>10, <1>11 DEF ImportNext, ImportTables

\* Imported for any rows of the old site's tables and any of those tables, and
\* any number of crashes and reverts.
THEOREM NothingIgnored == ASSUME ImportAssumption PROVE ImportSpec => []Imported
<1>1. ImportInv => Imported
  <2> SUFFICES ASSUME ImportInv, import = [dir |-> "up", pc |-> Len(ImportStatements) + 1], ~again
               PROVE  Imported
    BY DEF Imported
  <2>1. \A j \in DOMAIN ImportStatements : Did(ImportStatements[j])
    <3>1. DOMAIN ImportStatements = 1 .. Len(ImportStatements) /\ Len(ImportStatements) \in Nat
      BY ImportOrder
    <3>2. import.dir = "up" /\ \A j \in DOMAIN ImportStatements : j < import.pc
      BY <3>1
    <3> QED  BY <3>2 DEF ImportInv, Progress
  <2>2. ASSUME NEW s \in {"user", "wisher", "enquiry", "propertydetails", "wishlist", "posts"}
        PROVE  Did([do |-> s, kind |-> ""])
    <3>1. s \in DOMAIN Stage \ Looped
      BY DEF Stage, Looped
    <3>2. PICK j \in DOMAIN ImportStatements : ImportStatements[j] = [do |-> s, kind |-> ""]
      BY <3>1, ImportOrder
    <3> QED  BY <2>1, <3>2
  <2>3. ASSUME NEW s \in Looped, NEW k \in ToSet(Kinds)
        PROVE  Did([do |-> s, kind |-> k])
    <3>1. PICK j \in DOMAIN ImportStatements : ImportStatements[j] = [do |-> s, kind |-> k]
      BY ImportOrder
    <3> QED  BY <2>1, <3>1
  <2>4. ASSUME NEW k \in ToSet(Kinds) \intersect old, NEW h \in OldHomes[k]
        PROVE  LET id == Copy(k, h.id) parted == PartsOf(k, h) IN
                 /\ \E x \in homes :
                      /\ x.id = id /\ x.kind = k /\ x.owner \in UserIds
                      /\ IF k \in OwnedKinds /\ Known(h.by) THEN x.owner = h.by
                         ELSE x.owner \in {System, h.by}
                 /\ \A s \in DOMAIN parted : \A p \in parted[s] : <<s, id, p>> \in parts
    <3>1. Copy(k, h.id) = Offset(k) + h.id
      BY <2>4 DEF Copy
    <3>2. Offset(k) + h.id \in HomeIds
      BY <2>3, <2>4 DEF Did, Looped
    <3>3. PICK x \in homes : x.id = Offset(k) + h.id
      BY <3>2 DEF HomeIds
    <3>4. h.id \in 1 .. (Span - 1) /\ \A g \in OldHomes[k] : g.id = h.id => g = h
      BY DEF ImportAssumption
    <3>5. HomeKnown(x)
      BY DEF ImportInv
    <3>6. HomeOfListing(x, k, h)
      BY <3>3, <3>4, <3>5, ListingOf
    <3>7. ASSUME NEW s \in DOMAIN PartsOf(k, h), NEW p \in PartsOf(k, h)[s]
          PROVE  <<s, Offset(k) + h.id, p>> \in parts
      <4>1. s \in ImportTables /\ s \in Looped
        BY DEF PartsOf, ImportTables, Looped
      <4>2. Did([do |-> s, kind |-> k])
        BY <2>3, <4>1
      <4>3. \A g \in OldHomes[k] : \A q \in PartsOf(k, g)[s] : <<s, Offset(k) + g.id, q>> \in parts
        BY <2>4, <4>1, <4>2 DEF Did
      <4> QED  BY <3>7, <4>3
    <3>8. x.owner \in UserIds
      BY <3>5 DEF HomeKnown
    <3> QED  BY <3>1, <3>6, <3>7, <3>8 DEF HomeOfListing
  <2>5. \A i \in DOMAIN OldUsers : Known(OldUsers[i].id) => OldUsers[i] \in newUsers
    BY <2>2 DEF Did, OldUsersThere
  <2>6. "enquiry" \in old => \A e \in OldEnquiries :
         \E l \in leads : l.of = <<"enquiry", e.id>> /\ l.home = Copy(e.kind, e.home)
    BY <2>2 DEF Did
  <2>7. "propertydetails" \in old => \A i \in OldInterests : \E l \in leads : l.of = <<"interest", i>>
    BY <2>2 DEF Did
  <2>8. "wishlist" \in old => \A w \in OldWishes : \E x \in wishes : WishKept(w, x)
    BY <2>2 DEF Did
  <2>9. "blogs" \in old => OldPosts \subseteq posts
    BY <2>2 DEF Did
  <2> QED  BY <2>4, <2>5, <2>6, <2>7, <2>8, <2>9 DEF Imported, WishKept
<1> QED
  BY <1>1, ImportInitInv, ImportStepInv, PTL DEF ImportSpec

===============================================================================
