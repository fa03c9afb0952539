---------------------------- MODULE SearchIndex ----------------------------
(***************************************************************************)
(* The search index beside the database (src/modules/search).  A saved,    *)
(* published or removed property or project is indexed by a call that is   *)
(* not awaited: it reads the row, then sends a document or a deletion.  A  *)
(* reindex empties the index and sends all public rows in batches, and the *)
(* listing search reads ids from the index and then asks the database.     *)
(*                                                                         *)
(* The properties' and the projects' index follow the same protocol; an    *)
(* instance of this module is one of them.  Meilisearch queues what it     *)
(* accepts and works it off in order, so `index' is what the queue amounts *)
(* to.                                                                     *)
(***************************************************************************)
EXTENDS Integers, FiniteSets, FiniteSetsExt

CONSTANTS
  Ids,         \* row ids, natural numbers
  Contents,    \* what a document copies from its row
  None,        \* no document
  Calls,       \* index calls that may be under way at a time
  Batch,       \* BATCH_SIZE
  PageSize,    \* hits of a page
  Failing,     \* whether calls may fail (and the failure be swallowed)
  MaxSaves     \* bound on changes of rows

ASSUME IdsAssumption == Ids \subseteq Nat /\ IsFiniteSet(Ids)
ASSUME BatchAssumption == Batch \in Nat \ {0}

VARIABLES
  rows,        \* the database: content and state of every id
  index,       \* the document of every id
  call,        \* the calls under way
  reindex,     \* the reindex under way
  search,      \* the search under way: its hits, or NoSearch
  page,        \* the ids of the page last answered
  saves,
  published,   \* history: what was public at some time
  off          \* history: ids whose document may be out of date

indexVars == <<rows, index, call, reindex, search, page, saves, published, off>>
searching == <<search, page>>

Document == Contents \union {None}
NoCall == [step |-> "idle", id |-> Min(Ids), doc |-> None, alone |-> FALSE]
Resting == [step |-> "idle", offset |-> 0, docs |-> {}, clean |-> FALSE]
NoSearch == {}

IsPublic(row) == row.state = "public"

\* Faulty variant: drafts get a document like public rows.
DocOfAny(row) == IF row.state \in {"public", "hidden"} THEN row.content ELSE None

\* What indexProperty sends for a row: its document, or a deletion.
DocOf(row) == IF IsPublic(row) THEN row.content ELSE None

PublicRows == {i \in Ids : IsPublic(rows[i])}
Joined(k) == [step |-> k.step, id |-> k.id, doc |-> k.doc, alone |-> FALSE]
InFlight(i) == {c \in Calls : call[c].step # "idle" /\ call[c].id = i}
NoCalls == \A c \in Calls : call[c].step = "idle"
Reindexing == reindex.step # "idle"

IndexInit ==
  /\ rows \in [Ids -> [content : Contents, state : {"absent", "hidden", "public"}]]
  /\ index = [i \in Ids |-> None]
  /\ call = [c \in Calls |-> NoCall]
  /\ reindex = Resting
  /\ search = NoSearch
  /\ page = {}
  /\ saves = 0
  /\ published = {<<i, rows[i].content>> : i \in PublicRows}
  /\ off = Ids

-----------------------------------------------------------------------------
(* Changes of rows and the calls they leave behind *)

\* Row i changes to row; call c begins at the given step, or none is left
\* behind because the caller failed after its commit.
Change(i, row, c, step) ==
  /\ saves < MaxSaves
  /\ saves' = saves + 1
  /\ rows' = [rows EXCEPT ![i] = row]
  /\ published' = IF IsPublic(row) THEN published \union {<<i, row.content>>} ELSE published
  /\ LET quiet == InFlight(i) = {} /\ ~Reindexing
         others == [d \in Calls |->
                      IF d \in InFlight(i) THEN Joined(call[d]) ELSE call[d]]
     IN \/ /\ call[c].step = "idle"
           /\ call' = [others EXCEPT ![c] = [step |-> step, id |-> i, doc |-> None, alone |-> quiet]]
           /\ off' = IF quiet THEN off ELSE off \union {i}
        \/ /\ Failing
           /\ call' = others
           /\ off' = off \union {i}
  /\ reindex' = [reindex EXCEPT !.clean = FALSE]
  /\ UNCHANGED <<index, searching>>

\* create, update and updateStatus.
Save(i, content, state, c) ==
  /\ rows[i].state # "gone"
  /\ Change(i, [content |-> content, state |-> state], c, "read")

\* remove sends the deletion without reading the row again.
RemoveRow(i, c) ==
  /\ rows[i].state \in {"hidden", "public"}
  /\ Change(i, [content |-> rows[i].content, state |-> "gone"], c, "send")

ReadRow(c) ==
  /\ call[c].step = "read"
  /\ call' = [call EXCEPT ![c] = [step |-> "send", id |-> call[c].id,
                                   doc |-> DocOf(rows[call[c].id]), alone |-> call[c].alone]]
  /\ UNCHANGED <<rows, index, reindex, searching, saves, published, off>>

Send(c) ==
  /\ call[c].step = "send"
  /\ index' = [index EXCEPT ![call[c].id] = call[c].doc]
  /\ off' = IF call[c].alone THEN off \ {call[c].id} ELSE off
  /\ call' = [call EXCEPT ![c] = NoCall]
  /\ UNCHANGED <<rows, reindex, searching, saves, published>>

\* A failure to read or to send is logged and swallowed.
CallFails(c) ==
  /\ Failing
  /\ call[c].step # "idle"
  /\ off' = off \union {call[c].id}
  /\ call' = [call EXCEPT ![c] = NoCall]
  /\ UNCHANGED <<rows, index, reindex, searching, saves, published>>

-----------------------------------------------------------------------------
(* Rebuilding the index: reindexAll, reindexAllProjects *)

BeginReindex ==
  /\ ~Reindexing
  /\ reindex' = [reindex EXCEPT !.step = "clear", !.clean = NoCalls]
  /\ call' = [c \in Calls |-> Joined(call[c])]
  /\ off' = Ids
  /\ UNCHANGED <<rows, index, searching, saves, published>>

\* Faulty variant: the rows are sent without emptying the index first.
NotCleared == index

Cleared == [i \in Ids |-> None]

ClearIndex ==
  /\ reindex.step = "clear"
  /\ \/ index' = Cleared /\ reindex' = [reindex EXCEPT !.step = "read"]
     \/ /\ Failing
        /\ index' = index
        /\ reindex' = [reindex EXCEPT !.step = "read", !.clean = FALSE]
  /\ UNCHANGED <<rows, call, searching, saves, published, off>>

\* The public rows with more than offset and at most offset + Batch of them
\* up to and including themselves: skip and take, in the order of the ids.
BatchAt(offset) ==
  {i \in PublicRows : LET rank == Cardinality({j \in PublicRows : j <= i})
                      IN offset < rank /\ rank <= offset + Batch}

Finish ==
  /\ reindex' = Resting
  /\ off' = IF reindex.clean THEN {} ELSE off

ReadBatch ==
  /\ reindex.step = "read"
  /\ LET ids == BatchAt(reindex.offset) IN
       IF ids = {}
         THEN Finish
         ELSE /\ reindex' = [reindex EXCEPT !.step = "send",
                                            !.docs = {<<i, rows[i].content>> : i \in ids}]
              /\ off' = off
  /\ UNCHANGED <<rows, index, call, searching, saves, published>>

NextOffset(offset) == offset + Batch

SendBatch ==
  /\ reindex.step = "send"
  /\ index' = [i \in Ids |-> IF \E d \in reindex.docs : d[1] = i
                               THEN (CHOOSE d \in reindex.docs : d[1] = i)[2]
                               ELSE index[i]]
  /\ IF Cardinality(reindex.docs) < Batch
       THEN Finish
       ELSE /\ reindex' = [reindex EXCEPT !.step = "read", !.docs = {},
                                          !.offset = NextOffset(reindex.offset)]
            /\ off' = off
  /\ UNCHANGED <<rows, call, searching, saves, published>>

\* A query or a batch fails: the request fails, the index stays as it is.
ReindexFails ==
  /\ Failing
  /\ reindex.step \in {"read", "send"}
  /\ reindex' = Resting
  /\ UNCHANGED <<rows, index, call, searching, saves, published, off>>

-----------------------------------------------------------------------------
(* The listing search: ids from the index, rows from the database *)

Indexed == {i \in Ids : index[i] # None}

\* Without hits the search turns to the database at once.
Search ==
  /\ search = NoSearch
  /\ IF Indexed = {}
       THEN /\ page' \in {p \in SUBSET PublicRows :
                            Cardinality(p) = Min({PageSize, Cardinality(PublicRows)})}
            /\ search' = NoSearch
       ELSE /\ search' \in {p \in SUBSET Indexed :
                              Cardinality(p) = Min({PageSize, Cardinality(Indexed)})}
            /\ page' = page
  /\ UNCHANGED <<rows, index, call, reindex, saves, published, off>>

\* Faulty variant: the hits are shown as long as their rows exist.
ShownExisting(hits) == {i \in hits : rows[i].state \in {"hidden", "public"}}

\* The hits that are public when the database is asked.
Shown(hits) == {i \in hits : IsPublic(rows[i])}

Answer ==
  /\ search # NoSearch
  /\ page' = Shown(search)
  /\ search' = NoSearch
  /\ UNCHANGED <<rows, index, call, reindex, saves, published, off>>

-----------------------------------------------------------------------------
IndexNext ==
  \/ \E i \in Ids, c \in Calls :
       \/ \E content \in Contents, state \in {"hidden", "public"} : Save(i, content, state, c)
       \/ RemoveRow(i, c)
  \/ \E c \in Calls : ReadRow(c) \/ Send(c) \/ CallFails(c)
  \/ BeginReindex \/ ClearIndex \/ ReadBatch \/ SendBatch \/ ReindexFails
  \/ Search \/ Answer

IndexSpec == IndexInit /\ [][IndexNext]_indexVars

-----------------------------------------------------------------------------
IndexTypeOK ==
  /\ rows \in [Ids -> [content : Contents, state : {"absent", "hidden", "public", "gone"}]]
  /\ index \in [Ids -> Document]
  /\ call \in [Calls -> [step : {"idle", "read", "send"}, id : Ids, doc : Document, alone : BOOLEAN]]
  /\ reindex \in [step : {"idle", "clear", "read", "send"},
                  offset : {k * Batch : k \in 0 .. Cardinality(Ids)},
                  docs : SUBSET (Ids \X Contents), clean : BOOLEAN]
  /\ reindex.step \in {"idle", "clear"} => reindex.offset = 0 /\ reindex.docs = {}
  /\ search \subseteq Ids
  /\ page \subseteq Ids
  /\ saves \in 0 .. MaxSaves
  /\ published \subseteq Ids \X Contents
  /\ off \subseteq Ids

\* Whatever overlaps or fails, the index holds nothing but what was public at
\* some time: a draft's content never reaches it.
OnlyPublished == \A i \in Ids : index[i] # None => <<i, index[i]>> \in published

\* An index call that ran by itself, and a reindex nothing interfered with,
\* leave a document that agrees with its row, and it stays so until calls
\* overlap or fail: every stale document can be repaired.
SettledExact ==
  \A i \in Ids \ off : InFlight(i) = {} => index[i] = DocOf(rows[i])

\* A listing page is never one with a property that is not public when the
\* database is asked, whichever way it comes about and however old the document
\* is that brought the property up.
ListedArePublic == [][page' # page => page' \subseteq PublicRows]_indexVars

=============================================================================
