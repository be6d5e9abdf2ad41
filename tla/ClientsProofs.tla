---------------------------- MODULE ClientsProofs ----------------------------
(***************************************************************************)
(* What the clients API guarantees, for any administrators, clients and    *)
(* slugs.  First the entry of a request (Users), then its call.  The        *)
(* invariant says what a call may count on while no other call has changed  *)
(* the table: that is what makes its answer true.                           *)
(***************************************************************************)
EXTENDS Clients, TLAPS

(* The entry of a request.                                                 *)

\* The lookup decides once; whoever is overtaken after it has a rival.
Entered(r) ==
    /\ r \in known => HasRow(who[r]) /\ entry[r] \notin {"fetch", "insert", "refresh"}
    /\ entry[r] \in {"token", "lookup", "fetch", "insert"} /\ HasRow(who[r])
          => r \in known \/ r \in rivals
    /\ refusal[r] = 500 /\ r \notin troubled
          => (r \in rivals /\ HasRow(who[r])) \/ Namesakes(who[r]) # {}

UsersInv ==
    /\ UsersTypeOK
    /\ OneRowPerPerson
    /\ \A r \in Requests : Entered(r)
    /\ \A r \in Requests : entry[r] # "refused" => refusal[r] = 0
    /\ \A r \in Requests : entry[r] = "idle" => r \notin known

LEMMA UsersInitInv == UsersInit => UsersInv
BY DEF UsersInit, UsersInv, UsersTypeOK, OneRowPerPerson, Entered, HasRow, Entry

\* A step of r that touches no row leaves what is said of the others.
LEMMA OneEntry ==
  ASSUME UsersInv, NEW r \in Requests, UNCHANGED <<users, email, who>>, UsersTypeOK',
         \A q \in Requests \ {r} :
            /\ entry'[q] = entry[q] /\ refusal'[q] = refusal[q]
            /\ q \in known' <=> q \in known
            /\ q \in rivals' <=> q \in rivals
            /\ q \in troubled' <=> q \in troubled,
         Entered(r)', entry'[r] # "refused" => refusal'[r] = 0,
         entry'[r] # "idle"
  PROVE  UsersInv'
<1>1. ASSUME NEW q \in Requests \ {r}
      PROVE  /\ Entered(q)'
             /\ entry'[q] # "refused" => refusal'[q] = 0
             /\ entry'[q] = "idle" => q \notin known'
  BY <1>1 DEF UsersInv, Entered, HasRow, Namesakes
<1>2. OneRowPerPerson'
  BY DEF UsersInv, OneRowPerPerson
<1> QED
  BY <1>1, <1>2 DEF UsersInv

LEMMA UsersEnterStep == ASSUME UsersInv, NEW r \in Requests, Enter(r) PROVE UsersInv'
<1> USE DEF UsersInv, UsersTypeOK, Entry
<1>1. CASE Arrive(r)
  <2>1. UsersTypeOK' /\ UNCHANGED <<users, email, who>>
    BY <1>1 DEF Arrive
  <2>2. Entered(r)'
    BY <1>1 DEF Arrive, Entered, HasRow, Namesakes
  <2> QED
    BY <1>1, <2>1, <2>2, OneEntry DEF Arrive
<1>2. ASSUME NEW from \in Entry \ {"idle", "refused"}, NEW to \in Entry \ {"idle"}, GoOn(r, from, to),
             Entered(r)'
      PROVE  UsersInv'
  <2>1. UsersTypeOK' /\ UNCHANGED <<users, email, who>>
    BY <1>2 DEF GoOn
  <2> QED
    BY <1>2, <2>1, OneEntry DEF GoOn
<1>3. ASSUME NEW from \in Entry \ {"idle", "refused"}, NEW s \in {401, 403, 500}, Refuse(r, from, s),
             troubled' \in {troubled, troubled \cup {r}},
             Entered(r)'
      PROVE  UsersInv'
  <2>1. UsersTypeOK' /\ UNCHANGED <<users, email, who>>
    BY <1>3 DEF Refuse
  <2> QED
    BY <1>3, <2>1, OneEntry DEF Refuse
<1>4. CASE Authenticate(r)
  <2>1. CASE GoOn(r, "token", "lookup")
    <3>1. Entered(r)'
      BY <2>1 DEF GoOn, Entered, HasRow, Namesakes
    <3> QED BY <2>1, <3>1, <1>2
  <2>2. ASSUME NEW s \in {401, 403, 500}, Refuse(r, "token", s), troubled' = troubled \cup {r}
        PROVE  UsersInv'
    <3>1. Entered(r)'
      BY <2>2 DEF Refuse, Entered, HasRow, Namesakes
    <3> QED BY <2>2, <3>1, <1>3
  <2> QED BY <1>4, <2>1, <2>2 DEF Authenticate
<1>5. CASE FindUser(r)
  <2>1. CASE HasRow(who[r]) /\ GoOn(r, "lookup", "in")
    <3>1. Entered(r)'
      BY <2>1 DEF GoOn, Entered, HasRow, Namesakes
    <3> QED BY <2>1, <3>1, <1>2
  <2>2. CASE ~HasRow(who[r]) /\ GoOn(r, "lookup", "fetch")
    <3>1. Entered(r)'
      BY <2>2 DEF GoOn, Entered, HasRow, Namesakes
    <3> QED BY <2>2, <3>1, <1>2
  <2> QED BY <1>5, <2>1, <2>2 DEF FindUser
<1>6. CASE FetchUserInfo(r)
  <2>1. CASE GoOn(r, "fetch", "insert")
    <3>1. Entered(r)'
      BY <2>1 DEF GoOn, Entered, HasRow, Namesakes
    <3> QED BY <2>1, <3>1, <1>2
  <2>2. ASSUME NEW s \in {403, 500}, Refuse(r, "fetch", s), troubled' = troubled \cup {r}
        PROVE  UsersInv'
    <3>1. Entered(r)'
      BY <2>2 DEF Refuse, Entered, HasRow, Namesakes
    <3> QED BY <2>2, <3>1, <1>3
  <2> QED BY <1>6, <2>1, <2>2 DEF FetchUserInfo
<1>7. CASE RefreshUser(r)
  <2>1. Entered(r)'
    BY <1>7 DEF RefreshUser, GoOn, Entered, HasRow, Namesakes
  <2> QED BY <1>7, <2>1, <1>2 DEF RefreshUser
<1>8. CASE UserQueryFails(r)
  <2>1. PICK s \in {"lookup", "insert", "refresh"} :
           Refuse(r, s, 500) /\ troubled' = troubled \cup {r}
    BY <1>8 DEF UserQueryFails
  <2>2. Entered(r)'
    BY <2>1 DEF Refuse, Entered, HasRow, Namesakes
  <2> QED BY <2>1, <2>2, <1>3
<1>9. CASE Onboard(r)
  <2> DEFINE p == who[r]
             row == [external_id |-> p, email |-> email[p], by |-> r]
  <2>1. CASE Conflicts(p) /\ Refuse(r, "insert", 500) /\ UNCHANGED troubled
    <3>1. Entered(r)'
      BY <2>1 DEF Refuse, Entered, HasRow, Namesakes, Conflicts
    <3> QED BY <2>1, <3>1, <1>3
  <2>2. CASE ~Conflicts(p)
    <3>1. /\ entry[r] = "insert" /\ entry' = [entry EXCEPT ![r] = "refresh"]
          /\ users' = users \cup {row} /\ rivals' = rivals \cup Overtaken(r, p)
          /\ UNCHANGED <<email, who, refusal, known, troubled>>
      BY <1>9, <2>2 DEF Onboard
    <3>2. row \in User /\ row.external_id = p /\ row.email = email[p]
      BY DEF User
    <3> HIDE DEF row
    <3>3. UsersTypeOK'
      BY <3>1, <3>2 DEF Overtaken
    <3>4. \A x : (\E u \in users' : u.external_id = x)
                 <=> (\E u \in users : u.external_id = x) \/ x = p
      BY <3>1, <3>2, Zenon
    <3>5. OneRowPerPerson'
      <4>1. \A u \in users : u.external_id # p /\ (u.email = email[p] => u.email = NoEmail)
        BY <2>2 DEF Conflicts, HasRow, Namesakes
      <4> QED BY <3>1, <3>2, <4>1 DEF OneRowPerPerson
    <3>6. ASSUME NEW q \in Requests PROVE Entered(q)'
      <4>1. Entered(q)
        OBVIOUS
      <4>2. CASE q = r
        <5>1. entry'[r] = "refresh" /\ refusal'[r] = 0 /\ r \notin known'
          BY <4>1, <4>2, <3>1 DEF Entered
        <5> QED BY <4>2, <5>1 DEF Entered
      <4>3. CASE q # r
        <5>1. q \in rivals' <=> q \in rivals
                 \/ (who[q] = p /\ entry[q] \in {"token", "lookup", "fetch", "insert"})
          BY <4>3, <3>1 DEF Overtaken
        <5>2. entry'[q] = entry[q] /\ who'[q] = who[q] /\ refusal'[q] = refusal[q]
              /\ (q \in known' <=> q \in known) /\ (q \in troubled' <=> q \in troubled)
          BY <4>3, <3>1
        <5> DEFINE Before == \E u \in users : u.external_id = who[q]
                   After  == \E u \in users' : u.external_id = who'[q]
        <5>3. After <=> Before \/ who[q] = p
          <6>1. who'[q] = who[q]
            BY <5>2
          <6> QED BY <6>1, <3>4, Zenon
        <5>4. Namesakes(who[q]) \subseteq Namesakes(who[q])'
          BY <3>1 DEF Namesakes
        <5>5. /\ q \in known => Before /\ entry[q] \notin {"fetch", "insert", "refresh"}
              /\ entry[q] \in {"token", "lookup", "fetch", "insert"} /\ Before
                    => q \in known \/ q \in rivals
              /\ refusal[q] = 500 /\ q \notin troubled
                    => (q \in rivals /\ Before) \/ Namesakes(who[q]) # {}
          BY <4>1 DEF Entered, HasRow
        <5> HIDE DEF Before, After
        <5>6. /\ q \in known' => After /\ entry'[q] \notin {"fetch", "insert", "refresh"}
              /\ entry'[q] \in {"token", "lookup", "fetch", "insert"} /\ After
                    => q \in known' \/ q \in rivals'
              /\ refusal'[q] = 500 /\ q \notin troubled'
                    => (q \in rivals' /\ After) \/ (Namesakes(who[q]) # {})'
          BY <5>1, <5>2, <5>3, <5>4, <5>5
        <5> QED
          BY <5>2, <5>6 DEF Entered, HasRow, After
      <4> QED BY <4>2, <4>3
    <3>7. \A q \in Requests : entry'[q] # "refused" => refusal'[q] = 0
      BY <3>1
    <3>8. \A q \in Requests : entry'[q] = "idle" => q \notin known'
      BY <3>1
    <3> QED BY <3>3, <3>5, <3>6, <3>7, <3>8
  <2> QED BY <1>9, <2>1, <2>2 DEF Onboard
<1> QED
  BY <1>1, <1>4, <1>5, <1>6, <1>7, <1>8, <1>9 DEF Enter

LEMMA UsersInvImplies == UsersInv => UsersTypeOK /\ OneRowPerPerson /\ OnboardedOnce
BY DEF UsersInv, OnboardedOnce, Entered

-----------------------------------------------------------------------------
(* The calls.                                                              *)

\* Until it is answered a call has no status, and has not failed.
Untold(r) == at[r] # "done" => status[r] = 0 /\ slug[r] = None /\ r \notin failed

\* What a call has at each statement, whatever the others do.
Underway(r) ==
    /\ op[r] = "create" /\ at[r] # "start" => ask[r] # Keep /\ at[r] \notin {"load", "select"}
    /\ op[r] \in {"delete", "regenerate"} => ask[r] = Keep
    /\ at[r] = "lookup" => op[r] = "create" \/ Looks(r, seen[r])
    /\ at[r] \in {"start", "load", "lookup", "select", "write"} => r \notin did
    /\ at[r] = "refresh" => op[r] # "delete" /\ (op[r] = "create" => r \in did)

\* What it may count on while no other call has changed the table.
Alone(r) ==
    r \notin raced =>
        /\ at[r] \in {"lookup", "write"} /\ op[r] = "create" /\ table[id[r]] # None
              => r \in taken
        /\ at[r] \in {"lookup", "select", "write"} /\ op[r] # "create"
              => table[id[r]] = seen[r] /\ seen[r] # None
        /\ at[r] = "write" /\ op[r] = "create" => ~Exists(ask[r])
        /\ at[r] \in {"select", "write"} /\ Looks(r, seen[r]) => ~Exists(ask[r])
        /\ at[r] = "refresh" => table[id[r]] # None /\ ask[r] \in {Keep, table[id[r]]}

\* RefusedChangesNothing of one call.
Traceless(r) ==
    /\ status[r] \in {400, 404} => r \notin did
    /\ status[r] = 500 /\ r \in did => r \in raced \/ r \in failed \/ ~key
    /\ status[r] = 200 /\ op[r] = "create" => r \in did

CallInv(r) == Untold(r) /\ Underway(r) /\ Alone(r) /\ Traceless(r)

ClientsInv == ClientsTypeOK /\ SlugsUnique /\ \A r \in Requests : CallInv(r)

LEMMA ClientsInitInv == ClientsInit => ClientsInv
<1> SUFFICES ASSUME ClientsInit PROVE ClientsInv
  OBVIOUS
<1>1. UsersTypeOK
  BY UsersInitInv DEF ClientsInit, UsersInv
<1>2. (CHOOSE c \in Clients : TRUE) \in Clients
  BY ClientsAssumption
<1>3. ClientsTypeOK
  BY <1>1, <1>2 DEF ClientsInit, ClientsTypeOK, Stage, Op
<1>4. ASSUME NEW r \in Requests PROVE CallInv(r)
  <2>1. /\ at[r] = "start" /\ op[r] = "create" /\ ask[r] = Keep
        /\ status[r] = 0 /\ slug[r] = None /\ did = {} /\ failed = {}
    BY DEF ClientsInit
  <2> QED
    BY <2>1 DEF CallInv, Untold, Underway, Alone, Traceless
<1> QED
  BY <1>3, <1>4 DEF ClientsInit, ClientsInv

\* What a step of r leaves of the other calls: the table may change, but then all
\* that are under way know that they are raced.
Apart(r) ==
    /\ UNCHANGED key
    /\ \A q \in Requests \ {r} :
          /\ at'[q] = at[q] /\ op'[q] = op[q] /\ id'[q] = id[q] /\ ask'[q] = ask[q]
          /\ seen'[q] = seen[q] /\ status'[q] = status[q] /\ slug'[q] = slug[q]
          /\ q \in taken' <=> q \in taken
          /\ q \in did' <=> q \in did
          /\ q \in failed' <=> q \in failed
          /\ q \in raced => q \in raced'
          /\ q \notin raced' /\ at[q] \notin {"start", "done"} => UNCHANGED table

LEMMA OtherCall ==
  ASSUME NEW r \in Requests, NEW q \in Requests \ {r}, CallInv(q), Apart(r)
  PROVE  CallInv(q)'
<1>1. Untold(q)' /\ Underway(q)' /\ Traceless(q)'
  BY DEF CallInv, Untold, Underway, Traceless, Apart, Renames, Looks
<1>2. Alone(q)'
  BY DEF CallInv, Alone, Apart, Renames, Looks, Exists
<1> QED
  BY <1>1, <1>2 DEF CallInv

\* It is enough to look at the call that takes the step.
LEMMA OneCall ==
  ASSUME ClientsInv, NEW r \in Requests, Apart(r), ClientsTypeOK', SlugsUnique', CallInv(r)'
  PROVE  ClientsInv'
<1>1. \A q \in Requests \ {r} : CallInv(q)'
  BY OtherCall DEF ClientsInv
<1> QED
  BY <1>1 DEF ClientsInv

\* A step that only moves on.
LEMMA GotoStep ==
  ASSUME ClientsInv, UNCHANGED <<entryVars, key>>,
         NEW r \in Requests, NEW stage \in Stage \ {"done"}, Goto(r, stage), CallInv(r)'
  PROVE  ClientsInv'
<1>1. ClientsTypeOK' /\ SlugsUnique'
  BY DEF ClientsInv, ClientsTypeOK, UsersTypeOK, entryVars, Goto, asked, answer, SlugsUnique
<1>2. Apart(r)
  BY DEF ClientsInv, ClientsTypeOK, Goto, asked, answer, Apart
<1> QED
  BY <1>1, <1>2, OneCall

\* An answer without a change.
LEMMA AnswerStep ==
  ASSUME ClientsInv, UNCHANGED <<entryVars, key>>,
         NEW r \in Requests, NEW code \in {200, 400, 404, 500}, NEW s \in Slugs \cup {None},
         Answer(r, code, s), at[r] # "start", Traceless(r)'
  PROVE  ClientsInv'
<1>1. ClientsTypeOK' /\ SlugsUnique'
  BY DEF ClientsInv, ClientsTypeOK, UsersTypeOK, entryVars, Stage, Answer, asked, SlugsUnique
<1>2. Apart(r) /\ at'[r] = "done"
  BY DEF ClientsInv, ClientsTypeOK, Answer, asked, Apart
<1>3. CallInv(r)'
  <2>1. CallInv(r) /\ ask'[r] = ask[r] /\ op'[r] = op[r]
    BY DEF ClientsInv, Answer, asked
  <2> QED
    BY <1>2, <2>1 DEF CallInv, Untold, Underway, Alone
<1> QED
  BY <1>1, <1>2, <1>3, OneCall

\* A commit keeps the slugs unique unless another row has the new one, and tells
\* the others.
LEMMA CommitStep ==
  ASSUME ClientsInv, UNCHANGED <<entryVars, key>>,
         NEW r \in Requests, NEW s \in Slugs \cup {None}, Commit(r, s),
         s = None \/ ~Clash(id[r], s),
         NEW stage \in Stage, at' = [at EXCEPT ![r] = stage],
         NEW code \in {0, 200}, status' = [status EXCEPT ![r] = code],
         CallInv(r)'
  PROVE  ClientsInv'
<1>1. ClientsTypeOK'
  BY DEF ClientsInv, ClientsTypeOK, UsersTypeOK, entryVars, Commit, asked
<1>2. SlugsUnique'
  BY DEF ClientsInv, ClientsTypeOK, SlugsUnique, Commit, Clash
<1>3. Apart(r)
  <2>1. CASE table[id[r]] = s
    <3>1. table' = table
      BY <2>1 DEF ClientsInv, ClientsTypeOK, Commit
    <3> QED
      BY <2>1, <3>1 DEF ClientsInv, ClientsTypeOK, Commit, asked, Apart
  <2>2. CASE table[id[r]] # s
    BY <2>2 DEF ClientsInv, ClientsTypeOK, Commit, asked, Apart
  <2> QED BY <2>1, <2>2
<1> QED
  BY <1>1, <1>2, <1>3, OneCall

LEMMA HandleStep ==
  ASSUME ClientsInv, NEW r \in Requests, Handle(r), UNCHANGED <<entryVars, key>>
  PROVE  ClientsInv'
<1>1. /\ CallInv(r) /\ id[r] \in Clients /\ ask[r] \in Slugs \cup {Keep} /\ op[r] \in Op
      /\ table[id[r]] \in Slugs \cup {None} /\ at[r] \in Stage
  BY DEF ClientsInv, ClientsTypeOK
<1>2. CASE Ask(r)
  <2>1. /\ at[r] = "start" /\ at'[r] \in {"load", "lookup"} /\ op'[r] \in Op
        /\ at'[r] = (IF op'[r] = "create" THEN "lookup" ELSE "load")
        /\ id'[r] \in Clients /\ ask'[r] \in Slugs \cup {Keep}
        /\ op'[r] = "create" => ask'[r] # Keep
        /\ op'[r] \in {"delete", "regenerate"} => ask'[r] = Keep
        /\ r \in taken' <=> table[id'[r]] # None \/ r \in taken
        /\ UNCHANGED <<table, seen, status, slug, did, raced, failed>>
    BY <1>2 DEF Ask, answer, ClientsInv, ClientsTypeOK, Op
  <2>2. ClientsTypeOK' /\ SlugsUnique'
    BY <1>2 DEF Ask, answer, ClientsInv, ClientsTypeOK, UsersTypeOK, entryVars, Stage, SlugsUnique
  <2>3. Apart(r)
    BY <1>2 DEF Ask, answer, ClientsInv, ClientsTypeOK, Apart
  <2>4. CallInv(r)'
    BY <1>1, <2>1 DEF CallInv, Untold, Underway, Alone, Traceless, Op
  <2> QED BY <2>2, <2>3, <2>4, OneCall
<1>3. CASE Load(r)
  <2>1. CASE table[id[r]] = None
    <3>1. Answer(r, 404, None) /\ at[r] = "load"
      BY <1>3, <2>1 DEF Load
    <3>2. Traceless(r)'
      BY <1>1, <3>1 DEF Answer, asked, CallInv, Underway, Traceless, ClientsInv, ClientsTypeOK
    <3> QED BY <3>1, <3>2, AnswerStep
  <2>2. CASE table[id[r]] # None
    <3>1. /\ at[r] = "load" /\ seen' = [seen EXCEPT ![r] = table[id[r]]]
          /\ at' = [at EXCEPT ![r] = IF Looks(r, table[id[r]]) THEN "lookup" ELSE "select"]
          /\ UNCHANGED <<table, asked, answer, did, raced, failed>>
      BY <1>3, <2>2 DEF Load
    <3>2. ClientsTypeOK' /\ SlugsUnique'
      BY <1>1, <3>1 DEF ClientsInv, ClientsTypeOK, UsersTypeOK, entryVars, asked, answer, Stage, SlugsUnique
    <3>3. Apart(r)
      BY <3>1 DEF ClientsInv, ClientsTypeOK, asked, answer, Apart
    <3>4. CallInv(r)'
      <4>1. /\ seen'[r] = table[id[r]] /\ op'[r] = op[r] /\ ask'[r] = ask[r] /\ id'[r] = id[r]
            /\ at'[r] = IF op[r] = "update" /\ ask[r] \notin {Keep, table[id[r]], Empty}
                        THEN "lookup" ELSE "select"
            /\ UNCHANGED <<table, status, slug, did, raced, failed>>
        BY <3>1 DEF ClientsInv, ClientsTypeOK, asked, answer, Renames, Looks
      <4> QED
        BY <1>1, <2>2, <3>1, <4>1 DEF CallInv, Untold, Underway, Alone, Traceless, Renames, Looks
    <3> QED BY <3>2, <3>3, <3>4, OneCall
  <2> QED BY <2>1, <2>2
<1>4. CASE FindSlug(r)
  <2>1. CASE Exists(ask[r])
    <3>1. Answer(r, 400, None) /\ at[r] = "lookup"
      BY <1>4, <2>1 DEF FindSlug
    <3>2. Traceless(r)'
      BY <1>1, <3>1 DEF Answer, asked, CallInv, Underway, Traceless, ClientsInv, ClientsTypeOK
    <3> QED BY <3>1, <3>2, AnswerStep
  <2>2. CASE ~Exists(ask[r])
    <3>1. Goto(r, AfterLookup(r)) /\ at[r] = "lookup"
      BY <1>4, <2>2 DEF FindSlug
    <3>2. CallInv(r)'
      BY <1>1, <2>2, <3>1 DEF Goto, AfterLookup, asked, answer, ClientsInv, ClientsTypeOK, CallInv,
         Untold, Underway, Alone, Traceless, Renames, Looks, Exists
    <3>3. AfterLookup(r) \in Stage \ {"done"}
      BY DEF AfterLookup, Stage
    <3> QED BY <3>1, <3>2, <3>3, GotoStep
  <2> QED BY <2>1, <2>2
<1>5. CASE Select(r)
  <2>1. CASE table[id[r]] = None
    <3>1. Answer(r, 404, None) /\ at[r] = "select"
      BY <1>5, <2>1 DEF Select
    <3>2. Traceless(r)'
      BY <1>1, <3>1 DEF Answer, asked, CallInv, Underway, Traceless, ClientsInv, ClientsTypeOK
    <3> QED BY <3>1, <3>2, AnswerStep
  <2>2. CASE table[id[r]] # None
    <3>1. Goto(r, "write") /\ at[r] = "select"
      BY <1>5, <2>2 DEF Select
    <3>2. CallInv(r)'
      BY <1>1, <3>1 DEF Goto, asked, answer, ClientsInv, ClientsTypeOK, CallInv,
         Untold, Underway, Alone, Traceless, Renames, Looks, Exists
    <3> QED BY <3>1, <3>2, GotoStep DEF Stage
  <2> QED BY <2>1, <2>2
<1>6. ASSUME Answer(r, 500, None), at[r] = "write" PROVE ClientsInv'
  <2>1. Traceless(r)'
    BY <1>1, <1>6 DEF Answer, asked, CallInv, Underway, Traceless, ClientsInv, ClientsTypeOK
  <2> QED BY <1>6, <2>1, AnswerStep
<1>7. ASSUME CommitAndGo(r, ask[r]), at[r] = "write", ask[r] \in Slugs, op[r] \in {"create", "update"},
             op[r] = "create" => table[id[r]] = None, ~Clash(id[r], ask[r])
      PROVE  ClientsInv'
  <2>1. /\ table'[id[r]] = ask[r] /\ at'[r] = "refresh" /\ status'[r] = status[r]
        /\ op'[r] = op[r] /\ id'[r] = id[r] /\ ask'[r] = ask[r] /\ seen'[r] = seen[r]
        /\ slug'[r] = slug[r] /\ UNCHANGED failed
        /\ op[r] = "create" => r \in did'
    BY <1>1, <1>7, ClientsAssumption DEF CommitAndGo, Commit, asked, ClientsInv, ClientsTypeOK
  <2>2. CallInv(r)'
    BY <1>1, <1>7, <2>1, ClientsAssumption DEF CallInv, Untold, Underway, Alone, Traceless, Renames, Looks, Exists
  <2>3. status' = [status EXCEPT ![r] = 0]
    BY <1>1, <1>7 DEF CommitAndGo, CallInv, Untold, ClientsInv, ClientsTypeOK
  <2> QED
    BY <1>7, <2>2, <2>3, CommitStep DEF CommitAndGo, Stage
<1>8. CASE Insert(r)
  <2>1. CASE table[id[r]] # None \/ Clash(id[r], ask[r])
    BY <1>8, <2>1, <1>6 DEF Insert
  <2>2. CASE table[id[r]] = None /\ ~Clash(id[r], ask[r])
    <3>1. ask[r] \in Slugs
      BY <1>1, <1>8 DEF Insert, CallInv, Underway
    <3> QED BY <1>8, <2>2, <3>1, <1>7 DEF Insert
  <2> QED BY <2>1, <2>2
<1>9. CASE Update(r)
  <2>1. CASE Answer(r, 500, None)
    BY <1>9, <2>1, <1>6 DEF Update
  <2>2. CASE ~Renames(r, seen[r]) /\ Goto(r, "refresh")
    <3>1. CallInv(r)'
      BY <1>1, <1>9, <2>2 DEF Update, Goto, asked, answer, ClientsInv, ClientsTypeOK, CallInv,
         Untold, Underway, Alone, Traceless, Renames, Looks, Exists
    <3> QED BY <2>2, <3>1, GotoStep DEF Stage
  <2>3. CASE Renames(r, seen[r]) /\ ~Clash(id[r], ask[r]) /\ CommitAndGo(r, ask[r])
    BY <1>1, <1>9, <2>3, <1>7 DEF Update, Renames, Looks
  <2> QED BY <1>9, <2>1, <2>2, <2>3 DEF Update
<1>10. CASE Delete(r)
  <2>1. /\ at'[r] = "done" /\ status'[r] = 200
        /\ op'[r] = op[r] /\ ask'[r] = ask[r] /\ UNCHANGED failed /\ op[r] = "delete"
    BY <1>10 DEF Delete, Commit, asked, ClientsInv, ClientsTypeOK
  <2>2. CallInv(r)'
    BY <1>1, <2>1 DEF CallInv, Untold, Underway, Alone, Traceless
  <2> QED
    BY <1>10, <2>2, CommitStep DEF Delete, Stage
<1>11. CASE Regenerate(r)
  <2>1. CASE Answer(r, 500, None)
    BY <1>11, <2>1, <1>6 DEF Regenerate
  <2>2. CASE table[id[r]] # None /\ Goto(r, "refresh")
    <3>1. CallInv(r)'
      BY <1>1, <1>11, <2>2 DEF Regenerate, Goto, asked, answer, ClientsInv, ClientsTypeOK, CallInv,
         Untold, Underway, Alone, Traceless, Renames, Looks, Exists
    <3> QED BY <2>2, <3>1, GotoStep DEF Stage
  <2> QED BY <1>11, <2>1, <2>2 DEF Regenerate
<1>12. CASE Refresh(r)
  <2>1. CASE Answer(r, 500, None) /\ (table[id[r]] = None \/ Underivable(r))
    <3>1. Traceless(r)'
      BY <1>1, <1>12, <2>1 DEF Refresh, Underivable, Answer, asked, CallInv, Alone, Traceless,
         ClientsInv, ClientsTypeOK
    <3> QED BY <1>12, <2>1, <3>1, AnswerStep DEF Refresh
  <2>2. CASE Answer(r, 200, table[id[r]])
    <3>1. Traceless(r)'
      BY <1>1, <1>12, <2>2 DEF Refresh, Answer, asked, CallInv, Underway, Traceless,
         ClientsInv, ClientsTypeOK
    <3> QED BY <1>1, <1>12, <2>2, <3>1, AnswerStep DEF Refresh
  <2> QED BY <1>12, <2>1, <2>2 DEF Refresh
<1>13. CASE QueryFails(r)
  <2>1. ClientsTypeOK' /\ SlugsUnique'
    BY <1>13 DEF QueryFails, asked, ClientsInv, ClientsTypeOK, UsersTypeOK, entryVars, Stage, SlugsUnique
  <2>2. Apart(r)
    BY <1>13 DEF QueryFails, asked, ClientsInv, ClientsTypeOK, Apart
  <2>3. CallInv(r)'
    BY <1>1, <1>13 DEF QueryFails, asked, ClientsInv, ClientsTypeOK,
       CallInv, Untold, Underway, Alone, Traceless
  <2> QED BY <2>1, <2>2, <2>3, OneCall
<1> QED
  BY <1>2, <1>3, <1>4, <1>5, <1>8, <1>9, <1>10, <1>11, <1>12, <1>13 DEF Handle

-----------------------------------------------------------------------------
(* Both together.                                                          *)

LEMMA ClientsNextStep ==
  UsersInv /\ ClientsInv /\ [ClientsNext]_clientVars => UsersInv' /\ ClientsInv'
<1> SUFFICES ASSUME UsersInv, ClientsInv, [ClientsNext]_clientVars
             PROVE  UsersInv' /\ ClientsInv'
  OBVIOUS
<1> DEFINE SameCalls == UNCHANGED <<callVars, key>>
           SameUsers == UNCHANGED <<entryVars, key>>
<1>1. ASSUME SameCalls, UsersTypeOK' PROVE ClientsInv'
  BY <1>1 DEF callVars, asked, answer, ClientsInv, ClientsTypeOK, SlugsUnique, CallInv,
     Untold, Underway, Alone, Traceless, Renames, Looks, Exists
<1>2. ASSUME SameUsers PROVE UsersInv'
  BY <1>2 DEF entryVars, UsersInv, UsersTypeOK, OneRowPerPerson, Entered, HasRow, Namesakes
<1>3. UsersInv' => UsersTypeOK'
  BY DEF UsersInv
<1>4. ASSUME NEW r \in Requests, Enter(r), SameCalls PROVE UsersInv' /\ ClientsInv'
  BY <1>1, <1>3, <1>4, UsersEnterStep
<1>5. ASSUME NEW r \in Requests, Handle(r), SameUsers PROVE UsersInv' /\ ClientsInv'
  BY <1>2, <1>5, HandleStep
<1>6. CASE UNCHANGED clientVars
  BY <1>1, <1>2, <1>3, <1>6 DEF clientVars
<1> QED
  BY <1>4, <1>5, <1>6 DEF ClientsNext

LEMMA ClientsInvImplies ==
  UsersInv /\ ClientsInv =>
      ClientsTypeOK /\ OneRowPerPerson /\ OnboardedOnce /\ SlugsUnique /\ RefusedChangesNothing
BY UsersInvImplies DEF ClientsInv, CallInv, Traceless, RefusedChangesNothing

LEMMA ClientsInvHolds == ClientsSpec => [](UsersInv /\ ClientsInv)
<1>1. ClientsInit => UsersInv /\ ClientsInv
  BY UsersInitInv, ClientsInitInv DEF ClientsInit
<1> QED
  BY <1>1, ClientsNextStep, PTL DEF ClientsSpec

\* The variables of the entries and of the calls keep their types.
THEOREM ClientsTypes == ClientsSpec => []ClientsTypeOK
BY ClientsInvHolds, ClientsInvImplies, PTL

\* However many first requests of one person overlap, the person gets one row, and one
\* that nothing is wrong with is refused only if it was overtaken, or if another user has
\* the person's email.
THEOREM Onboarding == ClientsSpec => [](OneRowPerPerson /\ OnboardedOnce)
BY ClientsInvHolds, ClientsInvImplies, PTL

\* A person, and an email, has at most one row, whatever first requests overlap, fail and
\* are repeated.
THEOREM OneRowEach == ClientsSpec => []OneRowPerPerson
BY Onboarding, PTL

\* No two clients share a slug, and a refused call left nothing behind, for any
\* number of concurrent calls.
THEOREM ClientsKept == ClientsSpec => [](SlugsUnique /\ RefusedChangesNothing)
BY ClientsInvHolds, ClientsInvImplies, PTL

\* No two clients share a slug, however many calls check for it before they insert.
THEOREM SlugsStayUnique == ClientsSpec => []SlugsUnique
BY ClientsKept, PTL

LEMMA OnlyTheCaller ==
  ASSUME ClientsInv, NEW r \in Requests, NEW q \in Requests, q # r, Handle(r)
  PROVE  at'[q] = at[q]
BY DEF ClientsInv, ClientsTypeOK, Handle, Ask, Load, FindSlug, Select, Insert, Update,
   Delete, Regenerate, Refresh, QueryFails, Goto, Answer, CommitAndGo

LEMMA TrueAnswer ==
  ASSUME ClientsInv, NEW r \in Requests, Handle(r), at[r] # "done", at'[r] = "done"
  PROVE  AnswerIsTrue(r)
<1>1. /\ CallInv(r) /\ id[r] \in Clients /\ ask[r] \in Slugs \cup {Keep} /\ op[r] \in Op
      /\ table[id[r]] \in Slugs \cup {None} /\ at[r] \in Stage
  BY DEF ClientsInv, ClientsTypeOK
<1>2. ASSUME NEW stage \in Stage \ {"done"}, Goto(r, stage) PROVE FALSE
  BY <1>2 DEF Goto, ClientsInv, ClientsTypeOK
<1>3. ASSUME NEW s, CommitAndGo(r, s) PROVE FALSE
  BY <1>3 DEF CommitAndGo, ClientsInv, ClientsTypeOK
<1>4. ASSUME NEW code, NEW s, Answer(r, code, s)
      PROVE  status'[r] = code /\ slug'[r] = s /\ UNCHANGED <<table, failed>>
  BY <1>4 DEF Answer, ClientsInv, ClientsTypeOK
<1>5. CASE Load(r) \/ Select(r)
  <2>1. Answer(r, 404, None) /\ table[id[r]] = None
    BY <1>2, <1>5 DEF Load, Select, Stage, ClientsInv, ClientsTypeOK
  <2> QED BY <1>4, <2>1 DEF AnswerIsTrue
<1>6. CASE FindSlug(r)
  <2>1. Answer(r, 400, None) /\ Exists(ask[r])
    BY <1>2, <1>6 DEF FindSlug, AfterLookup, Stage
  <2> QED BY <1>4, <2>1 DEF AnswerIsTrue
<1>7. CASE Insert(r)
  <2>1. /\ Answer(r, 500, None) /\ at[r] = "write" /\ op[r] = "create"
        /\ table[id[r]] # None \/ Clash(id[r], ask[r])
    BY <1>3, <1>7 DEF Insert
  <2> QED
    BY <1>1, <1>4, <2>1 DEF AnswerIsTrue, CallInv, Alone, Exists, Clash
<1>8. CASE Update(r)
  <2>1. /\ Answer(r, 500, None) /\ at[r] = "write" /\ op[r] = "update"
        /\ r \in nulls \/ table[id[r]] = None \/ (Renames(r, seen[r]) /\ Clash(id[r], ask[r]))
    BY <1>2, <1>3, <1>8 DEF Update, Stage
  <2>2. Renames(r, seen[r]) /\ Clash(id[r], ask[r]) /\ r \notin raced => ask[r] = Empty /\ Exists(Empty)
    BY <1>1, <2>1 DEF CallInv, Alone, Exists, Clash, Looks
  <2> QED
    BY <1>1, <1>4, <2>1, <2>2 DEF AnswerIsTrue, CallInv, Alone
<1>9. CASE Delete(r)
  <2>1. /\ status'[r] = 200 /\ op[r] = "delete" /\ slug'[r] = slug[r] /\ table'[id[r]] = None
    BY <1>1, <1>9 DEF Delete, Commit, ClientsInv, ClientsTypeOK
  <2> QED
    BY <1>1, <2>1 DEF AnswerIsTrue, CallInv, Untold, Underway
<1>10. CASE Regenerate(r)
  <2>1. /\ Answer(r, 500, None) /\ at[r] = "write" /\ op[r] = "regenerate"
        /\ table[id[r]] = None
    BY <1>2, <1>10 DEF Regenerate, Stage
  <2> QED
    BY <1>1, <1>4, <2>1 DEF AnswerIsTrue, CallInv, Alone
<1>11. CASE Refresh(r)
  <2>1. CASE Answer(r, 500, None)
    BY <1>1, <1>4, <1>11, <2>1 DEF Refresh, AnswerIsTrue, CallInv, Alone
  <2>2. CASE Answer(r, 200, table[id[r]])
    BY <1>1, <1>4, <1>11, <2>2 DEF Refresh, AnswerIsTrue, CallInv, Alone
  <2> QED BY <1>11, <2>1, <2>2 DEF Refresh
<1>12. CASE QueryFails(r)
  <2>1. status'[r] = 500 /\ r \in failed'
    BY <1>12 DEF QueryFails, ClientsInv, ClientsTypeOK
  <2> QED BY <2>1 DEF AnswerIsTrue
<1>13. CASE Ask(r)
  BY <1>13 DEF Ask, ClientsInv, ClientsTypeOK
<1> QED
  BY <1>5, <1>6, <1>7, <1>8, <1>9, <1>10, <1>11, <1>12, <1>13 DEF Handle

\* The caller's view: the answer follows from the table at this step, and without a
\* race also from what was asked (the invariant's Alone).
THEOREM ClientsAnswers == ClientsSpec => AnswersAreTrue
<1>1. ASSUME ClientsInv, [ClientsNext]_clientVars
      PROVE  [\A r \in Requests : AnswerIsTrue(r)]_clientVars
  <2>1. CASE UNCHANGED at
    BY <2>1 DEF AnswerIsTrue
  <2>2. CASE \E r \in Requests : Handle(r)
    <3>1. PICK r \in Requests : Handle(r)
      BY <2>2
    <3>2. ASSUME NEW q \in Requests PROVE AnswerIsTrue(q)
      BY <1>1, <3>1, OnlyTheCaller, TrueAnswer DEF AnswerIsTrue
    <3> QED BY <3>2
  <2> QED
    BY <1>1, <2>1, <2>2 DEF ClientsNext, clientVars, callVars
<1> QED
  BY <1>1, ClientsInvHolds, PTL DEF ClientsSpec, AnswersAreTrue
-----------------------------------------------------------------------------
(* The calls implement ClientRegistry.                                     *)

LetInNow == {r \in Requests : entry[r] = "in"}
Phases   == [r \in Requests |-> Phase(r)]

\* Nobody who was let in is put out again.
LEMMA LetInStays ==
  ASSUME UsersInv, NEW r \in Requests, Enter(r)
  PROVE  LetInNow \subseteq LetInNow'
<1> USE DEF UsersInv, UsersTypeOK, LetInNow, GoOn, Refuse
<1>1. CASE Arrive(r) \/ Authenticate(r) \/ FindUser(r)
  BY <1>1 DEF Arrive, Authenticate, FindUser
<1>2. CASE FetchUserInfo(r) \/ Onboard(r) \/ RefreshUser(r) \/ UserQueryFails(r)
  BY <1>2 DEF FetchUserInfo, Onboard, RefreshUser, UserQueryFails
<1> QED
  BY <1>1, <1>2 DEF Enter

\* A step of the entry is seen as LetIn, or not at all.
LEMMA EnterMaps ==
  ASSUME UsersInv, NEW r \in Requests, Enter(r), UNCHANGED <<callVars, key>>
  PROVE  [Registry!Next]_(Registry!vars)
<1>1. LetInNow \subseteq LetInNow'
  BY LetInStays
<1>2. UNCHANGED <<table, Phases, op, id, ask, did>>
  BY DEF callVars, asked, Phases, Phase
<1> QED
  BY <1>1, <1>2 DEF Registry!Next, Registry!LetIn, LetInNow, Phases

\* A statement that changes no row is seen as the call's opening or its close, or is
\* hidden.
LEMMA PhaseMaps ==
  ASSUME ClientsInv, NEW r \in Requests, UNCHANGED <<entryVars, table, op, id, ask, did>>,
         at[r] \notin {"start", "done"},
         NEW stage \in Stage \ {"start"}, at' = [at EXCEPT ![r] = stage]
  PROVE  [Registry!Next]_(Registry!vars)
<1>1. LetInNow' = LetInNow /\ Phase(r) = "open"
  BY DEF LetInNow, entryVars, Phase
<1>2. CASE stage = "done"
  <2>1. Phases' = [Phases EXCEPT ![r] = "over"]
    BY <1>2 DEF ClientsInv, ClientsTypeOK, Phases, Phase
  <2>2. Registry!Close(r)
    BY <1>1, <2>1 DEF Registry!Close, Phases, LetInNow
  <2> QED BY <2>2 DEF Registry!Next
<1>3. CASE stage # "done"
  <2>1. Phases' = Phases
    BY <1>3 DEF ClientsInv, ClientsTypeOK, Phases, Phase
  <2> QED BY <1>1, <2>1 DEF Registry!vars, Phases, LetInNow
<1> QED BY <1>2, <1>3

\* A commit that changes the row of its client is the one change of the call.
LEMMA CommitMaps ==
  ASSUME ClientsInv, NEW r \in Requests, NEW s \in Slugs \cup {None}, Commit(r, s),
         table[id[r]] # s, at[r] = "write"
  PROVE  /\ Phases[r] = "open" /\ r \notin did /\ did' = did \cup {r}
         /\ table' = [table EXCEPT ![id[r]] = s]
         /\ UNCHANGED <<op, id, ask>>
<1>1. r \notin did
  BY DEF ClientsInv, CallInv, Underway
<1> QED
  BY <1>1 DEF Commit, asked, Phases, Phase

LEMMA HandleMaps ==
  ASSUME ClientsInv, NEW r \in Requests, Handle(r), UNCHANGED <<entryVars, key>>
  PROVE  [Registry!Next]_(Registry!vars)
<1>1. /\ CallInv(r) /\ id[r] \in Clients /\ ask[r] \in Slugs \cup {Keep} /\ op[r] \in Op
      /\ table[id[r]] \in Slugs \cup {None} /\ at[r] \in Stage
      /\ at \in [Requests -> Stage]
  BY DEF ClientsInv, ClientsTypeOK
<1>2. LetInNow' = LetInNow
  BY DEF LetInNow, entryVars
<1>3. ASSUME at[r] \notin {"start", "done"}, NEW stage \in Stage \ {"start"}, Goto(r, stage)
      PROVE  [Registry!Next]_(Registry!vars)
  BY <1>3, PhaseMaps DEF Goto, asked
<1>4. ASSUME at[r] \notin {"start", "done"}, NEW code, NEW s, Answer(r, code, s)
      PROVE  [Registry!Next]_(Registry!vars)
  BY <1>4, PhaseMaps DEF Answer, asked, Stage
<1>5. CASE Ask(r)
  <2>1. Phases[r] = "new" /\ r \in LetInNow /\ Phases' = [Phases EXCEPT ![r] = "open"]
    BY <1>1, <1>5 DEF Ask, Phases, Phase, LetInNow
  <2>2. /\ op'[r] \in Op /\ op' = [op EXCEPT ![r] = op'[r]]
        /\ id'[r] \in Clients /\ id' = [id EXCEPT ![r] = id'[r]]
        /\ ask'[r] \in Slugs \cup {Keep} /\ ask' = [ask EXCEPT ![r] = ask'[r]]
    BY <1>5 DEF Ask, ClientsInv, ClientsTypeOK
  <2>3. Phases[r] = "new" /\ r \in LetInNow /\ Phases' = [Phases EXCEPT ![r] = "open"]
        /\ UNCHANGED <<table, LetInNow, did>>
    BY <1>2, <1>5, <2>1 DEF Ask
  <2>4. Registry!Asks(r)
    <3> DEFINE o == op'[r]  c == id'[r]  s == ask'[r]
    <3>1. /\ o \in {"create", "update", "delete", "regenerate"} /\ op' = [op EXCEPT ![r] = o]
          /\ c \in Clients /\ id' = [id EXCEPT ![r] = c]
          /\ s \in Slugs \cup {Keep} /\ ask' = [ask EXCEPT ![r] = s]
      BY <2>2 DEF Op
    <3> HIDE DEF o, c, s
    <3> QED
      BY <3>1, Zenon DEF Registry!Asks
  <2>5. Registry!Open(r)
    BY <2>3, <2>4 DEF Registry!Open, Phases, LetInNow
  <2> QED BY <2>5 DEF Registry!Next
<1>6. CASE Load(r)
  <2>1. CASE Answer(r, 404, None)
    BY <1>4, <1>6, <2>1 DEF Load
  <2>2. CASE table[id[r]] # None
    <3>1. /\ at[r] = "load" /\ UNCHANGED <<table, asked, answer, did, raced, failed>>
          /\ at' = [at EXCEPT ![r] = IF Looks(r, table[id[r]]) THEN "lookup" ELSE "select"]
      BY <1>6, <2>2 DEF Load
    <3> QED BY <3>1, PhaseMaps DEF asked, Stage
  <2> QED BY <1>6, <2>1, <2>2 DEF Load
<1>7. CASE FindSlug(r) \/ Select(r)
  BY <1>3, <1>4, <1>7 DEF FindSlug, Select, AfterLookup, Stage
<1>8. CASE Regenerate(r) \/ Refresh(r)
  BY <1>3, <1>4, <1>8 DEF Regenerate, Refresh, Stage
<1>9. CASE QueryFails(r)
  BY <1>9, PhaseMaps DEF QueryFails, asked, Stage
<1>10. ASSUME CommitAndGo(r, ask[r]), at[r] = "write", ask[r] \in Slugs, ~Clash(id[r], ask[r]),
              \/ op[r] = "create" /\ table[id[r]] = None
              \/ op[r] = "update" /\ table[id[r]] # None
       PROVE  [Registry!Next]_(Registry!vars)
  <2>1. CASE table[id[r]] = ask[r]
    <3>1. table' = table /\ UNCHANGED <<did, op, id, ask>>
      BY <1>10, <2>1 DEF CommitAndGo, Commit, asked, ClientsInv, ClientsTypeOK
    <3> QED
      BY <1>10, <3>1, PhaseMaps DEF CommitAndGo, Stage
  <2>2. CASE table[id[r]] # ask[r]
    <3>1. /\ Phases[r] = "open" /\ r \notin did /\ did' = did \cup {r}
          /\ table' = [table EXCEPT ![id[r]] = ask[r]] /\ UNCHANGED <<op, id, ask>>
      BY <1>10, <2>2, CommitMaps DEF CommitAndGo
    <3>2. Phases' = Phases
      BY <1>1, <1>10 DEF CommitAndGo, Phases, Phase
    <3>3. Registry!Free(ask[r])
      BY <1>10, <2>2 DEF Clash, Registry!Free
    <3>4. Registry!Set(r, ask[r])
      BY <1>2, <3>1 DEF Registry!Set, Phases, LetInNow
    <3> QED
      BY <1>10, <3>2, <3>3, <3>4 DEF Registry!Next, Registry!Create, Registry!Rename, Phases
  <2> QED BY <2>1, <2>2
<1>11. CASE Insert(r)
  <2>1. ask[r] \in Slugs
    BY <1>1, <1>11 DEF Insert, CallInv, Underway
  <2> QED BY <1>4, <1>10, <1>11, <2>1 DEF Insert
<1>12. CASE Update(r)
  BY <1>1, <1>3, <1>4, <1>10, <1>12 DEF Update, Renames, Stage
<1>13. CASE Delete(r)
  <2>1. /\ at[r] = "write" /\ op[r] = "delete" /\ Commit(r, None)
        /\ at' = [at EXCEPT ![r] = "done"]
    BY <1>13 DEF Delete
  <2>2. CASE table[id[r]] = None
    <3>1. table' = table /\ UNCHANGED <<did, op, id, ask>>
      BY <2>1, <2>2 DEF Commit, asked, ClientsInv, ClientsTypeOK
    <3> QED BY <2>1, <3>1, PhaseMaps DEF Stage
  <2>3. CASE table[id[r]] # None
    <3>1. /\ Phases[r] = "open" /\ r \notin did /\ did' = did \cup {r}
          /\ table' = [table EXCEPT ![id[r]] = None] /\ UNCHANGED <<op, id, ask>>
      BY <2>1, <2>3, CommitMaps
    <3>2. Phases' = [Phases EXCEPT ![r] = "over"]
      BY <1>1, <2>1 DEF Phases, Phase
    <3>3. Registry!Set(r, None)
      BY <1>2, <3>1 DEF Registry!Set, Phases, LetInNow
    <3> QED
      BY <2>1, <2>3, <3>2, <3>3 DEF Registry!Next, Registry!Remove, Phases
  <2> QED BY <2>2, <2>3
<1> QED
  BY <1>5, <1>6, <1>7, <1>8, <1>9, <1>11, <1>12, <1>13 DEF Handle

\* However many people enter and administrators call, and whatever fails: the table
\* changes as if every call that was let in were one transaction (ClientRegistry).
THEOREM RegistryKept == ClientsSpec => ImplementsRegistry
<1>1. ClientsInit => Registry!Init
  BY DEF ClientsInit, UsersInit, SlugsUnique, Registry!Init, Phase
<1>2. UsersInv /\ ClientsInv /\ [ClientsNext]_clientVars => [Registry!Next]_(Registry!vars)
  <2>1. CASE UNCHANGED clientVars
    BY <2>1 DEF clientVars, entryVars, callVars, asked, Registry!vars, Phase
  <2>2. ASSUME UsersInv, ClientsInv, ClientsNext PROVE [Registry!Next]_(Registry!vars)
    BY <2>2, EnterMaps, HandleMaps DEF ClientsNext
  <2> QED BY <2>1, <2>2
<1> QED
  BY <1>1, <1>2, ClientsInvHolds, PTL DEF ClientsSpec, ImplementsRegistry, Registry!Spec
=============================================================================
