------------------------ MODULE AnalysisConfigsProofs ------------------------
(***************************************************************************)
(* AnalysisConfigs keeps its promise for any number of configs and of      *)
(* concurrent requests, as long as no two of them race for the default.    *)
(* The invariant below says why: apart from its own commit nothing moves   *)
(* the default while a request that sets it is in flight, so the copy it   *)
(* read is not stale and its UPDATE has reached the default it replaces.   *)
(***************************************************************************)
EXTENDS AnalysisConfigs, TLAPS

\* The id of a POST is its own.
Claimed == \A r \in Request : tx[r].op = "create" => tx[r].id \notin unused

\* No two requests in flight conflict.
Apart == \A r, q \in Request :
    r # q /\ ~At(r, "idle") /\ ~At(q, "idle")
        => ~Conflict(tx[r].op, tx[r].id, tx[q].op, tx[q].id)

\* What a request in flight may count on when it commits.
Sound(r) ==
    /\ At(r, "check") => tx[r].op \in {"promote", "demote", "delete"}
    /\ At(r, "clear") => /\ Sets(tx[r].op)
                         /\ defaults \subseteq {tx[r].id} \cup tx[r].todo \cup tx[r].locks
    /\ At(r, "commit") => \/ tx[r].op = "delete" /\ ~tx[r].copy
                          \/ Sets(tx[r].op) /\ defaults \subseteq {tx[r].id} \cup tx[r].locks
    /\ tx[r].id \notin tx[r].todo \cup tx[r].locks
    /\ tx[r].op = "promote" => tx[r].id \in configs /\ (tx[r].copy <=> tx[r].id \in defaults)
    /\ tx[r].op = "create"  => tx[r].id \notin configs
    /\ tx[r].op = "delete" /\ ~tx[r].copy => tx[r].id \notin defaults

Calm ==
    /\ \E c \in configs : defaults = {c}
    /\ Apart
    /\ \A r \in Request : ~At(r, "idle") => Sound(r)

Inv == TypeOK /\ Claimed /\ (raced \/ Calm)

-----------------------------------------------------------------------------
\* The migration's table with no request in flight satisfies the invariant.
LEMMA InitInv == Init => Inv
<1> SUFFICES ASSUME Init PROVE Inv
  OBVIOUS
<1>1. PICK c \in Config :
        tx = [r \in Request |-> [op |-> "add", id |-> c, pc |-> "idle", copy |-> FALSE,
                                 todo |-> {}, locks |-> {}]]
  BY DEF Init
<1>2. tx \in [Request -> Tx]
  BY <1>1 DEF Tx, Op
<1>3. TypeOK
  BY <1>2 DEF Init, TypeOK
<1>4. \A r \in Request : At(r, "idle") /\ tx[r].op = "add"
  BY <1>1 DEF At
<1> QED
  BY <1>3, <1>4 DEF Init, Inv, Claimed, Calm, Apart

\* Every step keeps the types and the ids of POSTs apart.
LEMMA TypeStep == ASSUME TypeOK, Claimed, Next PROVE TypeOK' /\ Claimed'
<1>1. PICK r \in Request : Load(r) \/ Create(r) \/ Add(r) \/ Work(r) \/ Abort(r)
  BY DEF Next
<1>2. CASE Load(r)
  BY <1>2 DEF TypeOK, Claimed, Load, Tx, Op
<1>3. CASE Create(r)
  BY <1>3 DEF TypeOK, Claimed, Create, Tx, Op
<1>4. CASE Add(r)
  BY <1>4 DEF TypeOK, Claimed, Add
<1>5. ASSUME End(r)
      PROVE  /\ tx' \in [Request -> Tx]
             /\ \A q \in Request : tx'[q].op = tx[q].op /\ tx'[q].id = tx[q].id
  <2>1. DOMAIN tx' = Request /\ tx[r] \in Tx
    BY <1>5 DEF TypeOK, End
  <2>2. tx'[r] = [tx[r] EXCEPT !.pc = "idle", !.todo = {}, !.locks = {}, !.copy = FALSE]
    BY <1>5 DEF TypeOK, End
  <2>3. \A q \in Request \ {r} : tx'[q] = tx[q]
    BY <1>5 DEF TypeOK, End
  <2>4. tx'[r] \in Tx /\ tx'[r].op = tx[r].op /\ tx'[r].id = tx[r].id
    BY <2>1, <2>2 DEF Tx
  <2>5. tx' = [q \in Request |-> tx'[q]]
    BY <1>5 DEF TypeOK, End
  <2> QED
    BY <2>3, <2>4, <2>5 DEF TypeOK
<1>6. CASE Gone(r) \/ CheckDemote(r) \/ Victim(r) \/ Abort(r)
  BY <1>5, <1>6 DEF TypeOK, Claimed, Gone, CheckDemote, Victim, Abort
<1>7. CASE CheckPromote(r)
  BY <1>7 DEF TypeOK, Claimed, CheckPromote, Tx
<1>8. CASE CheckDelete(r)
  <2>1. CASE End(r)
    BY <1>5, <1>8, <2>1 DEF TypeOK, Claimed, CheckDelete
  <2>2. CASE tx' = [tx EXCEPT ![r].pc = "commit"]
    BY <1>8, <2>2 DEF TypeOK, Claimed, CheckDelete, Tx
  <2> QED
    BY <1>8, <2>1, <2>2 DEF CheckDelete
<1>9. CASE \E c \in Config : ClearRow(r, c)
  <2>1. PICK c \in Config :
          tx' = [tx EXCEPT ![r].todo = @ \ {c}, ![r].locks = @ \cup ({c} \cap configs)]
    BY <1>9 DEF ClearRow
  <2>2. tx[r] \in Tx
    BY DEF TypeOK
  <2>3. [tx[r] EXCEPT !.todo = @ \ {c}, !.locks = @ \cup ({c} \cap configs)] \in Tx
    BY <2>2 DEF Tx
  <2>4. /\ tx' \in [Request -> Tx]
        /\ \A q \in Request : tx'[q].op = tx[q].op /\ tx'[q].id = tx[q].id
    BY <2>1, <2>3 DEF TypeOK
  <2> QED
    BY <1>9, <2>4 DEF TypeOK, Claimed, ClearRow
<1>10. CASE Cleared(r)
  BY <1>10 DEF TypeOK, Claimed, Cleared, Tx
<1>11. CASE CommitCreate(r)
  <2>1. tx[r].id \in Config /\ tx[r].id \notin unused
    BY <1>11 DEF TypeOK, Claimed, CommitCreate, Tx
  <2> QED
    BY <1>5, <1>11, <2>1 DEF TypeOK, Claimed, CommitCreate
<1>12. CASE CommitPromote(r)
  BY <1>5, <1>12 DEF TypeOK, Claimed, CommitPromote
<1>13. CASE CommitDelete(r)
  BY <1>5, <1>13 DEF TypeOK, Claimed, CommitDelete
<1> QED
  BY <1>1, <1>2, <1>3, <1>4, <1>6, <1>7, <1>8, <1>9, <1>10, <1>11, <1>12, <1>13 DEF Work

-----------------------------------------------------------------------------
\* A request that ends without touching the table leaves the rest as it was.
LEMMA EndStep ==
  ASSUME TypeOK, Calm, NEW r \in Request, End(r), UNCHANGED <<configs, defaults>>
  PROVE  Calm'
<1>1. At(r, "idle")' /\ \A q \in Request \ {r} : tx'[q] = tx[q]
  BY DEF TypeOK, End, At, Tx
<1> QED
  BY <1>1 DEF Calm, Apart, Sound, At

\* A request that begins is apart from the others, or there is a race.
LEMMA BeginStep ==
  ASSUME TypeOK, Calm, NEW r \in Request, At(r, "idle"), NEW t \in Tx,
         tx' = [tx EXCEPT ![r] = t], UNCHANGED <<configs, defaults>>,
         ~Races(r, t.op, t.id), Sound(r)'
  PROVE  Calm'
<1>1. tx'[r] = t /\ \A q \in Request \ {r} : tx'[q] = tx[q]
  BY DEF TypeOK
<1>2. Apart'
  <2> SUFFICES ASSUME NEW q1 \in Request, NEW q2 \in Request, q1 # q2,
                      ~At(q1, "idle")', ~At(q2, "idle")'
               PROVE  ~Conflict(tx'[q1].op, tx'[q1].id, tx'[q2].op, tx'[q2].id)
    BY DEF Apart
  <2>1. CASE q1 = r
    BY <1>1, <2>1 DEF Races, At
  <2>2. CASE q2 = r
    BY <1>1, <2>2 DEF Races, At, Conflict
  <2>3. CASE q1 # r /\ q2 # r
    BY <1>1, <2>3 DEF Calm, Apart, At
  <2> QED
    BY <2>1, <2>2, <2>3
<1> QED
  BY <1>1, <1>2 DEF Calm, Sound, At

\* A step of a request already in flight that leaves the table alone.
LEMMA WorkStep ==
  ASSUME TypeOK, Calm, NEW r \in Request, ~At(r, "idle"),
         UNCHANGED <<configs, defaults>>, Sound(r)',
         tx'[r].op = tx[r].op, tx'[r].id = tx[r].id,
         \A q \in Request \ {r} : tx'[q] = tx[q]
  PROVE  Calm'
BY DEF Calm, Apart, Sound, At

\* A commit of request r that leaves the table with one default.
LEMMA CommitStep ==
  ASSUME TypeOK, Calm, NEW r \in Request, End(r),
         \E c \in configs' : defaults' = {c},
         \A q \in Request \ {r} : ~At(q, "idle") => Sound(q)'
  PROVE  Calm'
<1>1. At(r, "idle")' /\ \A q \in Request \ {r} : tx'[q] = tx[q]
  BY DEF TypeOK, End, At, Tx
<1> QED
  BY <1>1 DEF Calm, Apart, At

-----------------------------------------------------------------------------
\* Without a race every step keeps the table and the requests calm, and is
\* one of the promised changes or none.
LEMMA CalmStep ==
  ASSUME TypeOK, Claimed, Calm, Next, ~raced'
  PROVE  Calm' /\ (Promise!Next \/ UNCHANGED Promise!vars)
<1> USE DEF Promise!vars
<1>1. PICK r \in Request : Load(r) \/ Create(r) \/ Add(r) \/ Work(r) \/ Abort(r)
  BY DEF Next
<1>2. PICK d \in configs : defaults = {d}
  BY DEF Calm
<1>3. ~At(r, "idle") => Sound(r)
  BY DEF Calm
<1>4. CASE Load(r)
  <2>1. PICK op \in {"promote", "demote", "delete"}, c \in configs :
           /\ tx' = [tx EXCEPT ![r] = [op |-> op, id |-> c, pc |-> "check", todo |-> {},
                                       copy |-> c \in defaults, locks |-> {}]]
           /\ raced' = (raced \/ Races(r, op, c))
    BY <1>4 DEF Load
  <2> DEFINE t == [op |-> op, id |-> c, pc |-> "check", todo |-> {},
                   copy |-> c \in defaults, locks |-> {}]
  <2>2. /\ t.op = op /\ t.id = c /\ t.pc = "check" /\ t.todo = {} /\ t.locks = {}
        /\ t.copy <=> c \in defaults
    OBVIOUS
  <2>3. t \in Tx
    <3>1. (c \in defaults) \in BOOLEAN
      OBVIOUS
    <3>2. ASSUME NEW b \in BOOLEAN
          PROVE  [op |-> op, id |-> c, pc |-> "check", todo |-> {}, copy |-> b,
                  locks |-> {}] \in Tx
      BY DEF TypeOK, Tx, Op
    <3> QED
      BY <3>1, <3>2
  <2>4. tx' = [tx EXCEPT ![r] = t]
    BY <2>1
  <2> HIDE DEF t
  <2>5. tx'[r] = t /\ UNCHANGED <<configs, defaults>> /\ At(r, "idle") /\ ~Races(r, t.op, t.id)
    BY <1>4, <2>1, <2>2, <2>4 DEF TypeOK, Load
  <2>6. Sound(r)'
    BY <2>2, <2>5 DEF Sound, At, Sets
  <2> QED
    BY <2>3, <2>4, <2>5, <2>6, BeginStep
<1>5. CASE Create(r)
  <2>1. PICK c \in unused :
           /\ tx' = [tx EXCEPT ![r] = [op |-> "create", id |-> c, pc |-> "clear",
                                       copy |-> FALSE, todo |-> defaults, locks |-> {}]]
           /\ raced' = (raced \/ Races(r, "create", c))
    BY <1>5 DEF Create
  <2> DEFINE t == [op |-> "create", id |-> c, pc |-> "clear",
                   copy |-> FALSE, todo |-> defaults, locks |-> {}]
  <2>2. t \in Tx /\ tx' = [tx EXCEPT ![r] = t] /\ ~Races(r, t.op, t.id)
    BY <2>1 DEF TypeOK, Tx, Op
  <2>3. tx'[r] = t /\ UNCHANGED <<configs, defaults>> /\ At(r, "idle")
    BY <1>5, <2>2 DEF TypeOK, Create
  <2>4. Sound(r)'
    BY <2>3 DEF Sound, At, Sets, TypeOK
  <2> HIDE DEF t
  <2> QED
    BY <2>2, <2>3, <2>4, BeginStep
<1>6. CASE Add(r)
  <2>1. PICK c \in unused : configs' = configs \cup {c} /\ UNCHANGED <<defaults, tx>>
    BY <1>6 DEF Add
  <2>2. Calm'
    BY <1>2, <2>1 DEF Calm, Apart, Sound, At, Claimed, TypeOK
  <2>3. Promise!Create(c) /\ c \in Config
    BY <2>1 DEF Promise!Create, TypeOK
  <2> QED
    BY <2>2, <2>3 DEF Promise!Next
<1>7. CASE Gone(r) \/ CheckDemote(r) \/ Victim(r) \/ Abort(r) \/ (CheckDelete(r) /\ End(r))
  <2>1. End(r) /\ UNCHANGED <<configs, defaults>>
    BY <1>7 DEF Gone, CheckDemote, Victim, Abort, CheckDelete
  <2> QED
    BY <2>1, EndStep
<1>8. CASE CheckPromote(r) \/ (CheckDelete(r) /\ ~End(r)) \/ Cleared(r)
           \/ \E c \in Config : ClearRow(r, c)
  <2>1. /\ UNCHANGED <<configs, defaults>> /\ ~At(r, "idle")
        /\ \A q \in Request \ {r} : tx'[q] = tx[q]
    BY <1>8 DEF CheckPromote, CheckDelete, Cleared, ClearRow, At, TypeOK
  <2>2. Sound(r)' /\ tx'[r].op = tx[r].op /\ tx'[r].id = tx[r].id
    <3>1. CASE CheckPromote(r)
      BY <1>3, <2>1, <3>1 DEF CheckPromote, Sound, At, TypeOK, Sets, Tx
    <3>2. CASE CheckDelete(r) /\ ~End(r)
      BY <1>3, <2>1, <3>2 DEF CheckDelete, Sound, At, TypeOK, Sets, Tx
    <3>3. CASE Cleared(r)
      BY <1>3, <2>1, <3>3 DEF Cleared, Sound, At, TypeOK, Sets, Tx
    <3>4. ASSUME NEW c \in Config, ClearRow(r, c) PROVE <2>2
      BY <1>3, <2>1, <3>4 DEF ClearRow, Sound, At, TypeOK, Sets, Tx
    <3> QED
      BY <1>8, <3>1, <3>2, <3>3, <3>4
  <2> QED
    BY <2>1, <2>2, WorkStep
<1>9. CASE CommitCreate(r)
  <2>1. /\ tx[r].id \in Config \ configs /\ tx[r].id \notin defaults /\ d \in tx[r].locks
    BY <1>2, <1>3, <1>9 DEF CommitCreate, Sound, At, Sets, TypeOK, Tx
  <2>2. End(r) /\ configs' = configs \cup {tx[r].id} /\ defaults' = {tx[r].id}
    BY <1>2, <1>9, <2>1 DEF CommitCreate
  <2>3. ASSUME NEW q \in Request \ {r}, ~At(q, "idle") PROVE Sound(q)'
    <3>1. tx'[q] = tx[q] /\ Sound(q)
      BY <2>2, <2>3 DEF Calm, TypeOK, End
    <3>2. ~Conflict("create", tx[r].id, tx[q].op, tx[q].id)
      BY <1>9, <2>3 DEF Calm, Apart, CommitCreate, At
    <3> QED
      BY <2>1, <2>2, <3>1, <3>2 DEF Sound, At, Conflict, Sets
  <2>4. Promise!Create(tx[r].id)
    BY <2>1, <2>2 DEF Promise!Create
  <2> QED
    BY <2>1, <2>2, <2>3, <2>4, CommitStep DEF Promise!Next
<1>10. CASE CommitPromote(r)
  <2>1. /\ tx[r].id \in configs /\ tx[r].id \in Config
        /\ d = tx[r].id \/ d \in tx[r].locks
        /\ tx[r].id \notin tx[r].locks
        /\ tx[r].copy <=> d = tx[r].id
    BY <1>2, <1>3, <1>10 DEF CommitPromote, Sound, At, Sets, TypeOK, Tx
  <2>2. End(r) /\ configs' = configs /\ defaults' = {tx[r].id}
    BY <1>2, <1>10, <2>1 DEF CommitPromote
  <2>3. ASSUME NEW q \in Request \ {r}, ~At(q, "idle") PROVE Sound(q)'
    <3>1. tx'[q] = tx[q] /\ Sound(q)
      BY <2>2, <2>3 DEF Calm, TypeOK, End
    <3>2. ~Conflict("promote", tx[r].id, tx[q].op, tx[q].id)
      BY <1>10, <2>3 DEF Calm, Apart, CommitPromote, At
    <3> QED
      BY <2>1, <2>2, <3>1, <3>2 DEF Sound, At, Conflict, Sets
  <2>4. Promise!Promote(tx[r].id)
    BY <2>1, <2>2 DEF Promise!Promote
  <2> QED
    BY <2>1, <2>2, <2>3, <2>4, CommitStep DEF Promise!Next
<1>11. CASE CommitDelete(r)
  <2>1. tx[r].id \in Config /\ tx[r].id \notin defaults
    BY <1>3, <1>11 DEF CommitDelete, Sound, At, Sets, TypeOK, Tx
  <2>2. End(r) /\ configs' = configs \ {tx[r].id} /\ defaults' = defaults
    BY <1>11, <2>1 DEF CommitDelete
  <2>3. ASSUME NEW q \in Request \ {r}, ~At(q, "idle") PROVE Sound(q)'
    <3>1. tx'[q] = tx[q] /\ Sound(q)
      BY <2>2, <2>3 DEF Calm, TypeOK, End
    <3>2. ~Conflict("delete", tx[r].id, tx[q].op, tx[q].id)
      BY <1>11, <2>3 DEF Calm, Apart, CommitDelete, At
    <3> QED
      BY <2>1, <2>2, <3>1, <3>2 DEF Sound, At, Conflict, Sets
  <2>4. Promise!Remove(tx[r].id) \/ UNCHANGED Promise!vars
    BY <2>1, <2>2 DEF Promise!Remove
  <2> QED
    BY <1>2, <2>1, <2>2, <2>3, <2>4, CommitStep DEF Promise!Next
<1> QED
  BY <1>1, <1>4, <1>5, <1>6, <1>7, <1>8, <1>9, <1>10, <1>11 DEF Work

-----------------------------------------------------------------------------
\* A race, once it happened, is not forgotten.
LEMMA RacedStays == ASSUME Next, raced PROVE raced'
BY DEF Next, Load, Create, Add, Work, Abort, Gone, CheckPromote, CheckDemote, CheckDelete,
       ClearRow, Cleared, CommitCreate, CommitPromote, CommitDelete, Victim

\* The invariant is inductive.
LEMMA NextInv == Inv /\ [Next]_vars => Inv'
<1>1. CASE UNCHANGED vars
  BY <1>1 DEF vars, Inv, TypeOK, Claimed, Calm, Apart, Sound, At
<1>2. ASSUME Inv, Next PROVE Inv'
  BY <1>2, TypeStep, CalmStep, RacedStays DEF Inv, TypeOK
<1> QED
  BY <1>1, <1>2

\* For any configs and any number of requests: types, and one default row
\* until two requests race for it.
THEOREM Safety == Spec => [](TypeOK /\ OneDefaultUnlessRaced)
<1>1. Inv => TypeOK /\ OneDefaultUnlessRaced
  BY DEF Inv, Calm, OneDefaultUnlessRaced, Promise!OneDefault
<1> QED
  BY <1>1, InitInv, NextInv, PTL DEF Spec

\* However many requests interleave, raced or not: only rows that exist are default rows,
\* and no row has an id that is still to be given out.
THEOREM ConfigsTyped == Spec => []TypeOK
BY Safety, PTL

\* Until then the table changes only as promised: the default moves in one
\* step, and its row is not deleted.
THEOREM Keeps == Spec => KeepsPromise
<1>1. Inv /\ [Next]_vars => [raced' \/ Promise!Next]_(Promise!vars)
  <2>1. CASE UNCHANGED vars
    BY <2>1 DEF vars, Promise!vars
  <2>2. ASSUME Inv, Next, ~raced' PROVE [raced' \/ Promise!Next]_(Promise!vars)
    BY <2>2, CalmStep, RacedStays DEF Inv
  <2> QED
    BY <2>1, <2>2
<1> QED
  BY <1>1, InitInv, NextInv, PTL DEF Spec, KeepsPromise
=============================================================================
