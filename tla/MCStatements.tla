---------------------------- MODULE MCStatements ----------------------------
(***************************************************************************)
(* Code whose statements commit one by one, each part on its own: the      *)
(* import of the old site's tables, the migrations that follow it, and the *)
(* accounts with their one-time codes.  A behaviour is about one part, and *)
(* the others rest.                                                        *)
(***************************************************************************)
EXTENDS Migrations, LegacyImport, PhoneAccounts, TLC

VARIABLE part    \* which part a behaviour is about

A == INSTANCE Accounts

ASSUME ImportAssumption /\ AccountsAssumption /\ MigrationsAssumption

ofAccounts == <<now, rows, users, op, told, proven>>
all == <<schemaVars, importVars, ofAccounts, part>>

StatementsInit ==
  /\ SchemaInit /\ ImportInit /\ A!Init
  /\ part \in {"import", "migrations", "accounts"}
  /\ part # "migrations" => schema = Base
  /\ IF part = "import" THEN old = {} \/ Cardinality(OldTables \ old) <= 2 ELSE old = {}

\* Bounds: MaxCrashes for crashes and reverts together; MaxCodes codes of one
\* purpose, or two where both purposes occur.
FewStops == crashes' + reverts' <= MaxCrashes
Asked == {rows[i].purpose : i \in DOMAIN rows} \union {op[c].purpose : c \in Sending}
FewCodes == Cardinality(Asked') <= 1 \/ Len(rows') + Cardinality(Sending') <= 2

StatementsNext ==
  \/ part = "migrations" /\ SchemaNext /\ FewStops /\ UNCHANGED <<importVars, ofAccounts, part>>
  \/ part = "import" /\ ImportNext /\ UNCHANGED <<schemaVars, ofAccounts, part>>
  \/ part = "accounts" /\ A!Next /\ FewCodes /\ UNCHANGED <<schemaVars, importVars, part>>

StatementsSpec == StatementsInit /\ [][StatementsNext]_all

Symmetry == Permutations(Clients)

-----------------------------------------------------------------------------
TwoKinds == <<"apartment", "farmlands">>
\* The second and the third share an address.
SomeUsers == <<[id |-> 2, email |-> <<"mail", "a">>], [id |-> 3, email |-> <<"mail", "b">>],
               [id |-> 5, email |-> <<"mail", "b">>]>>
SomeHomes ==
  ("apartment" :> {[id |-> 1, by |-> 2, photos |-> {"p"}, amenities |-> {"lift"}],
                   [id |-> 2, by |-> 5, photos |-> {}, amenities |-> {}]})
  @@ ("farmlands" :> {[id |-> 1, by |-> 1, photos |-> {"q"}, amenities |-> {}]})
SomeWishes == {[user |-> 2, guest |-> "", kind |-> "apartment", home |-> 1],
               [user |-> 0, guest |-> "g", kind |-> "farmlands", home |-> 1]}
SomeEnquiries == {[id |-> 1, kind |-> "apartment", home |-> 2], [id |-> 2, kind |-> "land", home |-> 1]}

SomeVarying == {PropertyKey}

Lifetimes == [u \in {"register", "login"} |-> IF u = "login" THEN 1 ELSE 2]
=============================================================================
