----------------------------- MODULE AtomicSaves -----------------------------
(***************************************************************************)
(* What editors of shared rows are promised.  A row has two halves with an *)
(* owner each; whoever saves sends one half and the revision she was       *)
(* shown.  The save happens at once or not at all: if the row still has    *)
(* that revision, her half takes its place and the rest stays as it is.    *)
(***************************************************************************)
EXTENDS Naturals

CONSTANTS
  Rows, Clients,
  Contents, Metadata,   \* the values of the two halves
  Public                \* contents that visitors see

VARIABLES
  rows,    \* the rows there are: revision, both halves, whether ever public
  forms    \* what each client has loaded and is about to send

vars == <<rows, forms>>

NoForm == [half |-> "none"]

Init ==
  /\ rows = [r \in {} |-> NoForm]
  /\ forms = [c \in Clients |-> NoForm]

Fresh == {row \in [revision : {1}, content : Contents, metadata : Metadata, dated : BOOLEAN] :
            row.dated = (row.content \in Public)}

Add(r) ==
  /\ rows'[r] \in Fresh
  /\ rows' = [s \in DOMAIN rows \cup {r} |-> IF s = r THEN rows'[r] ELSE rows[s]]
  /\ UNCHANGED forms

Open(c, half, values) ==
  /\ \E r \in DOMAIN rows :
       forms'[c] \in [half : {half}, row : {r}, revision : {rows[r].revision}, value : values]
  /\ forms' = [forms EXCEPT ![c] = forms'[c]]
  /\ UNCHANGED rows

Close(c) == forms[c] # NoForm /\ forms' = [forms EXCEPT ![c] = NoForm]

Current(c) == forms[c].row \in DOMAIN rows /\ rows[forms[c].row].revision = forms[c].revision

Saved(row, form) ==
  [revision |-> row.revision + 1,
   content |-> IF form.half = "content" THEN form.value ELSE row.content,
   metadata |-> IF form.half = "metadata" THEN form.value ELSE row.metadata,
   dated |-> row.dated \/ (form.half = "content" /\ form.value \in Public)]

Save(c) ==
  /\ Close(c) /\ Current(c)
  /\ forms[c].half \in {"content", "metadata"}
  /\ rows' = [rows EXCEPT ![forms[c].row] = Saved(rows[forms[c].row], forms[c])]

Delete(c) ==
  /\ Close(c) /\ Current(c)
  /\ forms[c].half = "both"
  /\ rows' = [r \in DOMAIN rows \ {forms[c].row} |-> rows[r]]

\* The row has changed, or the save breaks a rule of its own.
Refuse(c) == Close(c) /\ UNCHANGED rows

Next ==
  \/ \E c \in Clients : Save(c) \/ Delete(c) \/ Refuse(c)
  \/ \E c \in {d \in Clients : forms[d] = NoForm} :
       Open(c, "content", Contents) \/ Open(c, "metadata", Metadata) \/ Open(c, "both", {""})
  \/ \E r \in Rows \ DOMAIN rows : r \in DOMAIN rows' /\ Add(r)

Spec == Init /\ [][Next]_vars
=============================================================================
