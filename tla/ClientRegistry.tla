--------------------------- MODULE ClientRegistry ---------------------------
(***************************************************************************)
(* What the /clients endpoints promise of the table, as if every call were *)
(* one transaction: a call that was let in changes the table once or not   *)
(* at all, between its arrival and its answer, and then only the client it *)
(* named and only as it asked.  No two clients ever have one slug.         *)
(***************************************************************************)
CONSTANTS Requests, Clients, Slugs, None, Keep

VARIABLES
    table,                    \* table[c]: the slug of client c, None without a row
    letIn,                    \* requests whose token was accepted
    phase,                    \* phase[r]: "new", "open" or "over"
    op, id, ask,              \* what r asks for
    changed                   \* calls that have changed the table

vars == <<table, letIn, phase, op, id, ask, changed>>

Free(s) == \A c \in Clients : table[c] # s

Init ==
    /\ table \in [Clients -> Slugs \cup {None}]
    /\ \A c, d \in Clients : table[c] # None /\ table[c] = table[d] => c = d
    /\ phase = [r \in Requests |-> "new"]
    /\ letIn = {} /\ changed = {}

LetIn ==
    /\ letIn' \in SUBSET Requests /\ letIn \subseteq letIn'
    /\ UNCHANGED <<table, phase, op, id, ask, changed>>

\* r names its operation, its client and the slug to set.
Asks(r) ==
    \E o \in {"create", "update", "delete", "regenerate"}, c \in Clients, s \in Slugs \cup {Keep} :
        /\ op' = [op EXCEPT ![r] = o]
        /\ id' = [id EXCEPT ![r] = c]
        /\ ask' = [ask EXCEPT ![r] = s]

Open(r) ==
    /\ phase[r] = "new" /\ r \in letIn
    /\ phase' = [phase EXCEPT ![r] = "open"]
    /\ Asks(r)
    /\ UNCHANGED <<table, letIn, changed>>

\* The one change of r to the row of its client.
Set(r, s) ==
    /\ phase[r] = "open" /\ r \notin changed
    /\ table' = [table EXCEPT ![id[r]] = s]
    /\ changed' = changed \cup {r}
    /\ UNCHANGED <<letIn, op, id, ask>>

Create(r) ==
    /\ op[r] = "create" /\ table[id[r]] = None /\ ask[r] \in Slugs /\ Free(ask[r])
    /\ Set(r, ask[r]) /\ UNCHANGED phase

Rename(r) ==
    /\ op[r] = "update" /\ table[id[r]] # None /\ ask[r] \in Slugs /\ Free(ask[r])
    /\ Set(r, ask[r]) /\ UNCHANGED phase

\* A delete is answered by the step that commits it.
Remove(r) ==
    /\ op[r] = "delete" /\ table[id[r]] # None
    /\ Set(r, None) /\ phase' = [phase EXCEPT ![r] = "over"]

Close(r) ==
    /\ phase[r] = "open"
    /\ phase' = [phase EXCEPT ![r] = "over"]
    /\ UNCHANGED <<table, letIn, op, id, ask, changed>>

Next ==
    \/ LetIn
    \/ \E r \in Requests : Open(r) \/ Create(r) \/ Rename(r) \/ Remove(r) \/ Close(r)

Spec == Init /\ [][Next]_vars
=============================================================================
