----------------------- MODULE TableOwnershipProofs -----------------------
(***************************************************************************)
(* Type correctness, public seed tables, who becomes an owner, which new   *)
(* tables have none, and the access check, for every set of sessions,      *)
(* users, names and requests.                                              *)
(***************************************************************************)
EXTENDS TableOwnership, SequenceTheorems, TLAPS

Seeded == SeedTables \cup SystemTables

\* A statement of the session's script that was checked needs no check, or
\* its name is the user's, or was public when it was checked, or its row has
\* been edited.
Vetted(s, stmt) ==
    \/ /\ request[s].helper = "execute"
       /\ stmt.kind \in {"create", "create_if_missing"} \/ ~ stmt.parsed
    \/ IsSuperuser(UserOf[s])
    \/ owner[stmt.name] = UserOf[s]
    \/ stmt.name \in vetted[s] \cup edited

\* The statements already checked: all of them once the script runs.
PositionOK ==
    \A s \in Sessions :
        /\ position[s] <= Len(request[s].script)
        /\ pc[s] = "check" =>
               \A i \in 1 .. position[s] : Vetted(s, request[s].script[i])
        /\ pc[s] = "run" =>
               \A i \in 1 .. Len(request[s].script) :
                   Vetted(s, request[s].script[i])
        /\ pc[s] = "idle" => position[s] = 0

\* A seeded table that was never dropped is no helper's to record, and no
\* table of its name in another case was ever created.
SeedsOK ==
    \A t \in Seeded \ dropped :
        /\ t \in exists
        /\ owner[t] = NoOwner \/ t \in edited
        /\ \A s \in Sessions : t \notin Owes(s)
        /\ \A m \in Names : m # t /\ SameTable(m, t) => present[m] = {}

\* Whoever owns a name, or is about to, was there when a table was created.
PresentOK ==
    /\ OwnersWerePresent
    /\ \A s \in Sessions : \A n \in Owes(s) : UserOf[s] \in present[n]

\* A table that is new to a helper was created after its snapshot; those that
\* are there were seeded or created.
TracesOK ==
    /\ \A s \in Sessions : before[s] \subseteq exists \cup dropped
    /\ \A n \in exists : n \in Seeded \ dropped \/ present[n] # {}

IInv ==
    /\ TypeOK /\ PositionOK /\ SeedsOK
    /\ PresentOK /\ TracesOK /\ NewTablesGetOwners

---------------------------------------------------------------------------

\* The statement under the cursor is one of the script.
LEMMA CurrentStatementType ==
  ASSUME TypeOK, PositionOK, NEW s \in Sessions, ~ AtEnd(s)
  PROVE  /\ CurrentStatement(s) \in Statement
         /\ position[s] + 1 \in 1 .. Len(request[s].script)
  <1>1. /\ position[s] \in Nat
        /\ request[s].script \in Seq(Statement)
        /\ position[s] <= Len(request[s].script)
        /\ position[s] # Len(request[s].script)
    BY DEF TypeOK, PositionOK, Request, AtEnd
  <1>2. position[s] + 1 \in 1 .. Len(request[s].script)
    BY <1>1
  <1>3. CurrentStatement(s) \in Statement
    BY <1>1, <1>2, ElementOfSeq DEF CurrentStatement
  <1>4. QED
    BY <1>2, <1>3

\* What a helper owes are names.
LEMMA OwesType ==
  ASSUME TypeOK, NEW s \in Sessions
  PROVE  Owes(s) \subseteq Names
  <1>1. exists \subseteq Names /\ new[s] \subseteq Names
    BY DEF TypeOK
  <1>2. QED
    BY <1>1 DEF Owes

\* What a statement of a script may do, and what it leaves alone.
LEMMA StatementEffect ==
  ASSUME TypeOK, PositionOK, NEW s \in Sessions, RunStatement(s)
  PROVE  \E n \in Names :
             /\ n = CurrentStatement(s).name /\ pc[s] = "run"
             /\ position' = [position EXCEPT ![s] = @ + 1]
             /\ UNCHANGED <<pc, request, before, new, crashes, vetted>>
             /\ \/ CreateTable(s, n) /\ ~ InDatabase(n)
                \/ DropTable(n)
                \/ EditOwnership
                \/ UNCHANGED <<exists, owner, creator, dropped, edited,
                               present, abandoned>>
  <1>1. CurrentStatement(s).name \in Names
    BY CurrentStatementType DEF RunStatement, Statement
  <1>2. QED
    BY <1>1 DEF RunStatement, Advance, Fails

\* The end of any helpers keeps the types of their locals.
LEMMA EndType ==
  ASSUME TypeOK, NEW ended \in SUBSET Sessions, End(ended)
  PROVE  /\ pc' \in [Sessions -> {"idle", "check", "run", "record"}]
         /\ request' \in [Sessions -> Request]
         /\ position' \in [Sessions -> Nat]
         /\ before' \in [Sessions -> SUBSET Names]
         /\ new' \in [Sessions -> SUBSET Names]
         /\ vetted' \in [Sessions -> SUBSET Names]
         /\ abandoned' \subseteq Names
  <1>1. NoRequest \in Request
    <2>1. <<>> \in Seq(Statement)
      OBVIOUS
    <2>2. QED
      BY <2>1 DEF NoRequest, Request
  <1>2. request' \in [Sessions -> Request]
    BY <1>1 DEF End, TypeOK
  <1>3. /\ pc' \in [Sessions -> {"idle", "check", "run", "record"}]
        /\ position' \in [Sessions -> Nat]
    BY DEF End, TypeOK
  <1>4. /\ before' \in [Sessions -> SUBSET Names]
        /\ new' \in [Sessions -> SUBSET Names]
        /\ vetted' \in [Sessions -> SUBSET Names]
    BY DEF End, TypeOK
  <1>5. abandoned' \subseteq Names
    BY OwesType DEF End, TypeOK
  <1>6. QED
    BY <1>2, <1>3, <1>4, <1>5

\* Every step keeps every variable in its domain.
LEMMA TypeStep == TypeOK /\ PositionOK /\ [Next]_vars => TypeOK'
  <1> SUFFICES ASSUME TypeOK, PositionOK, [Next]_vars PROVE TypeOK'
    OBVIOUS
  <1> USE DEF helperVars, historyVars
  <1>1. ASSUME NEW s \in Sessions, NEW req \in Requests, Call(s, req)
        PROVE  TypeOK'
    <2>1. req \in Request
      BY RequestAssumption
    <2>2. QED
      BY <1>1, <2>1 DEF Call, Goto, TypeOK
  <1>2. ASSUME NEW s \in Sessions, CheckAccess(s) PROVE TypeOK'
    <2> DEFINE t == CurrentStatement(s).name
    <2>1. t \in Names
      BY <1>2, CurrentStatementType DEF CheckAccess, Statement
    <2>2. CASE IsExempt(s) \/ CanAccessTable(t, UserOf[s])
      <3>1. /\ position' = [position EXCEPT ![s] = LastCovered(s)]
            /\ LastCovered(s) \in Nat
        <4>1. request[s].script \in Seq(Statement) /\ position[s] \in Nat
          BY DEF TypeOK, Request
        <4>2. QED
          BY <1>2, <2>2, <4>1 DEF CheckAccess, LastCovered
      <3>2. \/ vetted' = [vetted EXCEPT ![s] = @ \cup {t}]
            \/ vetted' = vetted
        BY <1>2, <2>2 DEF CheckAccess
      <3>3. UNCHANGED <<pc, request, before, new, abandoned, exists, owner,
                        crashes, creator, dropped, edited, present>>
        BY <1>2, <2>2 DEF CheckAccess
      <3>4. vetted' \in [Sessions -> SUBSET Names]
        BY <2>1, <3>2 DEF TypeOK
      <3>5. position' \in [Sessions -> Nat]
        BY <3>1 DEF TypeOK
      <3>6. QED
        BY <3>3, <3>4, <3>5 DEF TypeOK
    <2>3. CASE ~ (IsExempt(s) \/ CanAccessTable(t, UserOf[s]))
      <3>1. End({s}) /\ UNCHANGED <<exists, owner, crashes, creator, dropped,
                                 edited, present>>
        BY <1>2, <2>3 DEF CheckAccess
      <3>2. QED
        BY <3>1, EndType DEF TypeOK
    <2>4. QED
      BY <2>2, <2>3
  <1>3. ASSUME NEW s \in Sessions, TakeSnapshot(s) PROVE TypeOK'
    BY <1>3 DEF TakeSnapshot, Goto, TypeOK
  <1>4. ASSUME NEW s \in Sessions, RunStatement(s) PROVE TypeOK'
    <2>1. PICK t \in Names :
             /\ position' = [position EXCEPT ![s] = @ + 1]
             /\ UNCHANGED <<pc, request, before, new, crashes, vetted>>
             /\ \/ CreateTable(s, t) \/ DropTable(t) \/ EditOwnership
                \/ UNCHANGED <<exists, owner, creator, dropped, edited,
                               present, abandoned>>
      BY <1>4, StatementEffect
    <2>2. UserOf \in [Sessions -> Users]
      BY UserAssumption
    <2>3. /\ exists' \subseteq Names /\ dropped' \subseteq Names
          /\ owner' \in [Names -> Users \cup {NoOwner}]
          /\ creator' \in [Names -> Users \cup {NoOwner}]
          /\ edited' \subseteq Names /\ abandoned' \subseteq Names
          /\ present' \in [Names -> SUBSET Users]
      <3>1. CASE CreateTable(s, t)
        <4>1. {UserOf[o] : o \in {p \in Sessions : pc[p] = "run"}} \subseteq Users
          BY <2>2
        <4>2. present' \in [Names -> SUBSET Users]
          BY <3>1, <4>1 DEF CreateTable, TypeOK
        <4>3. QED
          BY <2>2, <3>1, <4>2 DEF CreateTable, TypeOK
      <3>2. CASE DropTable(t)
        BY <3>2 DEF DropTable, TypeOK
      <3>3. CASE EditOwnership
        BY <3>3, RequestAssumption DEF EditOwnership, TypeOK
      <3>4. CASE UNCHANGED <<exists, owner, creator, dropped, edited, present,
                             abandoned>>
        BY <3>4 DEF TypeOK
      <3>5. QED
        BY <2>1, <3>1, <3>2, <3>3, <3>4
    <2>4. QED
      BY <2>1, <2>3 DEF TypeOK
  <1>5. ASSUME NEW s \in Sessions, RaiseError(s) \/ Return(s) PROVE TypeOK'
    BY <1>5, EndType DEF RaiseError, Return, TypeOK
  <1>6. ASSUME NEW s \in Sessions, ListNewTables(s) PROVE TypeOK'
    BY <1>6 DEF ListNewTables, Goto, TypeOK
  <1>7. ASSUME NEW s \in Sessions, RecordTable(s) PROVE TypeOK'
    <2>1. UserOf[s] \in Users
      BY UserAssumption
    <2>2. PICK t \in new[s] :
            /\ RecordTableOwner(t, UserOf[s])
            /\ new' = [new EXCEPT ![s] = @ \ {t}]
      BY <1>7 DEF RecordTable
    <2>3. owner' \in [Names -> Users \cup {NoOwner}]
      BY <2>1, <2>2 DEF RecordTableOwner, TypeOK
    <2>4. new' \in [Sessions -> SUBSET Names]
      BY <2>2 DEF TypeOK
    <2>5. QED
      BY <1>7, <2>3, <2>4 DEF RecordTable, TypeOK
  <1>8. CASE Crash
    BY <1>8, EndType, CrashAssumption DEF Crash, TypeOK
  <1>9. CASE UNCHANGED vars
    BY <1>9 DEF vars, TypeOK
  <1>10. QED
    BY <1>1, <1>2, <1>3, <1>4, <1>5, <1>6, <1>7, <1>8, <1>9 DEF Next, Step

\* The initial state.
LEMMA InvariantInit == Init => IInv
  <1>1. SUFFICES ASSUME Init PROVE IInv
    OBVIOUS
  <1>2. NoRequest \in Request /\ Len(NoRequest.script) = 0
    <2>1. <<>> \in Seq(Statement)
      OBVIOUS
    <2>2. QED
      BY <2>1 DEF NoRequest, Request
  <1>3. TypeOK
    <2>1. exists \subseteq Names /\ request \in [Sessions -> Request]
      BY <1>1, <1>2, TableAssumption DEF Init
    <2>2. /\ owner \in [Names -> Users \cup {NoOwner}]
          /\ creator \in [Names -> Users \cup {NoOwner}]
          /\ present \in [Names -> SUBSET Users]
      BY <1>1 DEF Init
    <2>3. /\ before \in [Sessions -> SUBSET Names]
          /\ new \in [Sessions -> SUBSET Names]
          /\ vetted \in [Sessions -> SUBSET Names]
      BY <1>1 DEF Init
    <2>4. /\ pc \in [Sessions -> {"idle", "check", "run", "record"}]
          /\ position \in [Sessions -> Nat]
          /\ crashes \in Nat /\ dropped \subseteq Names
      BY <1>1 DEF Init
    <2>5. edited \subseteq Names /\ abandoned \subseteq Names
      BY <1>1 DEF Init
    <2>6. QED
      BY <2>1, <2>2, <2>3, <2>4, <2>5 DEF TypeOK
  <1>4. PositionOK
    <2>1. \A s \in Sessions : /\ pc[s] = "idle" /\ position[s] = 0
                              /\ request[s] = NoRequest
      BY <1>1 DEF Init
    <2>2. \A s \in Sessions : Len(request[s].script) = 0
      BY <1>2, <2>1
    <2>3. 0 <= 0
      OBVIOUS
    <2>4. \A s \in Sessions : position[s] <= Len(request[s].script)
      BY <2>1, <2>2, <2>3, Zenon
    <2>5. \A s \in Sessions : pc[s] # "check" /\ pc[s] # "run"
      BY <2>1
    <2>6. QED
      BY <2>1, <2>4, <2>5 DEF PositionOK
  <1>5. \A s \in Sessions : Owes(s) = {}
    BY <1>1 DEF Init, Owes
  <1>6. /\ exists = Seeded /\ Seeded \subseteq Names
        /\ dropped = {} /\ abandoned = {}
        /\ \A n \in Names : owner[n] = NoOwner /\ present[n] = {}
        /\ \A s \in Sessions : before[s] = {}
    BY <1>1, TableAssumption DEF Init, Seeded
  <1>7. SeedsOK
    BY <1>5, <1>6 DEF SeedsOK
  <1>8. PresentOK
    BY <1>5, <1>6 DEF PresentOK, OwnersWerePresent
  <1>9. TracesOK
    BY <1>6 DEF TracesOK
  <1>10. NewTablesGetOwners
    BY <1>6 DEF NewTablesGetOwners, NewTables, Seeded
  <1>11. QED
    BY <1>3, <1>4, <1>7, <1>8, <1>9, <1>10 DEF IInv

\* Histories are never forgotten.
LEMMA HistoriesGrow ==
  ASSUME TypeOK, [Next]_vars
  PROVE  /\ dropped \subseteq dropped' /\ edited \subseteq edited'
         /\ \A n \in Names : present[n] \subseteq present'[n]
         /\ abandoned \ dropped' \subseteq abandoned'
  <1> USE DEF helperVars, historyVars
  <1>1. ASSUME NEW s \in Sessions, RunStatement(s)
        PROVE  /\ dropped \subseteq dropped' /\ edited \subseteq edited'
               /\ \A n \in Names : present[n] \subseteq present'[n]
               /\ abandoned \ dropped' \subseteq abandoned'
    <2> DEFINE t == CurrentStatement(s).name
    <2>1. \/ CreateTable(s, t) \/ DropTable(t) \/ EditOwnership
          \/ UNCHANGED <<exists, owner, creator, dropped, edited, present,
                         abandoned>>
      BY <1>1 DEF RunStatement
    <2> HIDE DEF t
    <2>2. CASE CreateTable(s, t)
      BY <2>2 DEF CreateTable, TypeOK
    <2>3. CASE DropTable(t)
      BY <2>3 DEF DropTable
    <2>4. CASE EditOwnership
      BY <2>4 DEF EditOwnership
    <2>5. QED
      BY <2>1, <2>2, <2>3, <2>4
  <1>2. CASE ~ \E s \in Sessions : RunStatement(s)
    <2>1. UNCHANGED <<dropped, edited, present>>
      BY <1>2 DEF Next, Step, Call, CheckAccess, TakeSnapshot, RaiseError,
                  ListNewTables, RecordTable, Return, Crash, vars
    <2>2. abandoned \subseteq abandoned'
      BY <1>2 DEF Next, Step, Call, CheckAccess, TakeSnapshot, RaiseError,
                  ListNewTables, RecordTable, Return, Crash, End, vars
    <2>3. QED
      BY <2>1, <2>2
  <1>3. QED
    BY <1>1, <1>2

\* No helper takes a recorded owner away: only DML on table_ownership does.
LEMMA OwnersStay ==
  ASSUME TypeOK, [Next]_vars, NEW n \in Names, owner[n] # NoOwner
  PROVE  owner'[n] = owner[n] \/ n \in edited'
  <1> USE DEF helperVars, historyVars
  <1>1. CASE \E s \in Sessions : RecordTable(s)
    <2>1. PICK s \in Sessions : RecordTable(s)
      BY <1>1
    <2>2. PICK m \in new[s] : RecordTableOwner(m, UserOf[s])
      BY <2>1 DEF RecordTable
    <2>3. QED
      BY <2>2 DEF RecordTableOwner, TypeOK
  <1>2. CASE \E s \in Sessions : RunStatement(s)
    <2>1. owner' = owner \/ EditOwnership
      BY <1>2 DEF RunStatement, CreateTable, DropTable
    <2>2. ASSUME EditOwnership PROVE owner'[n] = owner[n] \/ n \in edited'
      <3>1. PICK row \in Edits : /\ owner' = [owner EXCEPT ![row.name] = row.owner]
                                 /\ edited' = edited \cup {row.name}
        BY <2>2 DEF EditOwnership
      <3>2. QED
        BY <3>1 DEF TypeOK
    <2>3. QED
      BY <2>1, <2>2
  <1>3. CASE ~ \E s \in Sessions : RecordTable(s) \/ RunStatement(s)
    BY <1>3 DEF Next, Step, Call, CheckAccess, TakeSnapshot,
                RaiseError, ListNewTables, Return, Crash, vars
  <1>4. QED
    BY <1>1, <1>2, <1>3

\* What was vetted stays vetted while the session goes on with its request.
LEMMA VettedStays ==
  ASSUME TypeOK, [Next]_vars, NEW s \in Sessions,
         NEW stmt \in Statement, Vetted(s, stmt),
         request'[s] = request[s], vetted[s] \subseteq vetted'[s]
  PROVE  Vetted(s, stmt)'
  <1>1. CASE owner[stmt.name] = UserOf[s]
    <2>1. owner[stmt.name] # NoOwner /\ stmt.name \in Names
      BY <1>1, UserAssumption DEF Statement
    <2>2. owner'[stmt.name] = owner[stmt.name] \/ stmt.name \in edited'
      BY <2>1, OwnersStay
    <2>3. QED
      BY <1>1, <2>2 DEF Vetted
  <1>2. CASE owner[stmt.name] # UserOf[s]
    BY <1>2, HistoriesGrow DEF Vetted
  <1>3. QED
    BY <1>1, <1>2

\* The same of every statement of a script.
LEMMA RequestStays ==
  ASSUME TypeOK, [Next]_vars, NEW s \in Sessions,
         request'[s] = request[s], vetted[s] \subseteq vetted'[s]
  PROVE  \A i \in 1 .. Len(request[s].script) :
             Vetted(s, request[s].script[i]) => Vetted(s, request[s].script[i])'
  <1>1. request[s].script \in Seq(Statement)
    BY DEF TypeOK, Request
  <1>2. ASSUME NEW i \in 1 .. Len(request[s].script),
               Vetted(s, request[s].script[i])
        PROVE  Vetted(s, request[s].script[i])'
    <2>1. PICK st \in Statement : st = request[s].script[i]
      BY <1>1, ElementOfSeq
    <2>2. Vetted(s, st)
      BY <1>2, <2>1
    <2>3. Vetted(s, st)'
      BY <2>2, VettedStays
    <2>4. QED
      BY <2>1, <2>3
  <1>3. QED
    BY <1>2

\* A session that a step leaves where it was keeps its part of PositionOK.
LEMMA PositionStays ==
  ASSUME IInv, [Next]_vars, NEW s \in Sessions,
         pc'[s] = pc[s], request'[s] = request[s],
         position'[s] = position[s], vetted'[s] = vetted[s]
  PROVE  /\ position'[s] <= Len(request'[s].script)
         /\ pc'[s] = "check" =>
                \A i \in 1 .. position'[s] : Vetted(s, request[s].script[i])'
         /\ pc'[s] = "run" =>
                \A i \in 1 .. Len(request'[s].script) :
                    Vetted(s, request[s].script[i])'
         /\ pc'[s] = "idle" => position'[s] = 0
  <1>1. request[s].script \in Seq(Statement) /\ position[s] \in Nat
    BY DEF IInv, TypeOK, Request
  <1>2. position[s] <= Len(request[s].script)
    BY DEF IInv, PositionOK
  <1>4. \A i \in 1 .. Len(request[s].script) :
            Vetted(s, request[s].script[i]) => Vetted(s, request[s].script[i])'
    BY RequestStays DEF IInv
  <1>5. \A i \in 1 .. position[s] : i \in 1 .. Len(request[s].script)
    BY <1>1, <1>2
  <1>6. /\ position'[s] = position[s] /\ pc'[s] = pc[s]
        /\ request'[s].script = request[s].script
    OBVIOUS
  <1>7. pc[s] = "check" =>
            \A i \in 1 .. position[s] : Vetted(s, request[s].script[i])'
    BY <1>4, <1>5 DEF IInv, PositionOK
  <1>8. pc[s] = "run" =>
            \A i \in 1 .. Len(request[s].script) :
                Vetted(s, request[s].script[i])'
    BY <1>4 DEF IInv, PositionOK
  <1>9. pc[s] = "idle" => position[s] = 0
    BY DEF IInv, PositionOK
  <1>10. QED
    BY <1>2, <1>6, <1>7, <1>8, <1>9

\* Every step keeps PositionOK.
LEMMA PositionStep == IInv /\ [Next]_vars => PositionOK'
  <1> SUFFICES ASSUME IInv, [Next]_vars PROVE PositionOK'
    OBVIOUS
  <1> DEFINE Part(s) ==
        /\ position[s] <= Len(request[s].script)
        /\ pc[s] = "check" =>
               \A i \in 1 .. position[s] : Vetted(s, request[s].script[i])
        /\ pc[s] = "run" =>
               \A i \in 1 .. Len(request[s].script) :
                   Vetted(s, request[s].script[i])
        /\ pc[s] = "idle" => position[s] = 0
  <1> SUFFICES ASSUME NEW s \in Sessions PROVE Part(s)'
    BY DEF PositionOK
  <1>a. TypeOK /\ PositionOK /\ TypeOK'
    BY TypeStep DEF IInv
  <1>b. ASSUME pc'[s] = pc[s], request'[s] = request[s],
               position'[s] = position[s], vetted'[s] = vetted[s]
        PROVE  Part(s)'
    BY <1>b, PositionStays
  <1>c. /\ request[s].script \in Seq(Statement) /\ position[s] \in Nat
        /\ Len(request[s].script) \in Nat
        /\ position[s] <= Len(request[s].script)
    <2>1. request[s] \in Request
      BY <1>a DEF TypeOK
    <2>2. request[s].script \in Seq(Statement)
      BY <2>1 DEF Request
    <2>3. QED
      BY <1>a, <2>2 DEF TypeOK, PositionOK
  <1>d. ASSUME NEW ended \in SUBSET Sessions, End(ended) PROVE Part(s)'
    <2>1. CASE s \in ended
      <3>1. pc'[s] = "idle" /\ position'[s] = 0
            /\ Len(request'[s].script) = 0
        BY <1>d, <2>1 DEF End, NoRequest
      <3>2. QED
        BY <3>1
    <2>2. CASE s \notin ended
      BY <1>b, <1>d, <2>2 DEF End
    <2>3. QED
      BY <2>1, <2>2
  <1> HIDE DEF Part
  <1> USE DEF helperVars, historyVars
  <1>1. ASSUME NEW o \in Sessions, NEW req \in Requests, Call(o, req)
        PROVE  Part(s)'
    <2>1. CASE o = s
      <3>1. /\ pc'[s] = "check" /\ position'[s] = 0
            /\ request'[s] \in Request
        BY <1>1, <1>a, <2>1 DEF Call, Goto, TypeOK, PositionOK
      <3>2. Len(request'[s].script) \in Nat
        BY <3>1 DEF Request
      <3>3. QED
        BY <3>1, <3>2 DEF Part
    <2>2. CASE o # s
      BY <1>1, <1>a, <1>b, <2>2 DEF Call, Goto, TypeOK
    <2>3. QED
      BY <2>1, <2>2
  <1>2. ASSUME NEW o \in Sessions, CheckAccess(o) PROVE Part(s)'
    <2> DEFINE stmt == CurrentStatement(o)
    <2>1. CASE ~ (IsExempt(o) \/ CanAccessTable(stmt.name, UserOf[o]))
      BY <1>2, <1>d, <2>1 DEF CheckAccess
    <2>2. CASE (IsExempt(o) \/ CanAccessTable(stmt.name, UserOf[o])) /\ o # s
      BY <1>2, <1>a, <1>b, <2>2 DEF CheckAccess, TypeOK
    <2>3. CASE (IsExempt(o) \/ CanAccessTable(stmt.name, UserOf[o])) /\ o = s
      <3>1. /\ pc[s] = "check" /\ ~ AtEnd(s)
            /\ position' = [position EXCEPT ![s] = LastCovered(s)]
            /\ vetted' = IF ~ IsExempt(s) /\ owner[stmt.name] = NoOwner
                         THEN [vetted EXCEPT ![s] = @ \cup {stmt.name}]
                         ELSE vetted
            /\ UNCHANGED <<pc, request, owner>>
        BY <1>2, <2>3 DEF CheckAccess
      <3>2. position'[s] = LastCovered(s)
        BY <3>1, <1>a DEF TypeOK
      <3>3. /\ stmt \in Statement
            /\ position[s] + 1 \in 1 .. Len(request[s].script)
        BY <1>a, <2>3, <3>1, CurrentStatementType
      <3>4. vetted[s] \subseteq vetted'[s]
        BY <3>1, <1>a DEF TypeOK
      <3>5. \A i \in 1 .. position[s] : Vetted(s, request[s].script[i])'
        <4>1. \A i \in 1 .. position[s] : Vetted(s, request[s].script[i])
          BY <1>a, <3>1 DEF PositionOK
        <4>2. \A i \in 1 .. Len(request[s].script) :
                  Vetted(s, request[s].script[i])
                      => Vetted(s, request[s].script[i])'
          BY <1>a, <3>1, <3>4, RequestStays
        <4>3. \A i \in 1 .. position[s] : i \in 1 .. Len(request[s].script)
          BY <1>c
        <4>4. QED
          BY <4>1, <4>2, <4>3
      <3>6. PICK st \in Statement : st = request[s].script[position[s] + 1]
        BY <2>3, <3>3 DEF CurrentStatement
      <3>7. stmt = st /\ IsExempt(s) = (request[s].helper = "execute"
                      /\ (st.kind \in {"create", "create_if_missing"}
                          \/ ~ st.parsed))
        BY <2>3, <3>6 DEF IsExempt, CurrentStatement
      <3>8. Vetted(s, st)'
        <4>1. CASE IsExempt(s)
          BY <3>1, <3>7, <4>1 DEF Vetted
        <4>2. CASE ~ IsExempt(s) /\ owner[st.name] = NoOwner
          <5>1. st.name \in vetted'[s]
            BY <3>1, <3>7, <4>2, <1>a DEF TypeOK
          <5>2. QED
            BY <5>1 DEF Vetted
        <4>3. CASE ~ IsExempt(s) /\ owner[st.name] # NoOwner
          <5>1. IsSuperuser(UserOf[s]) \/ owner[st.name] = UserOf[s]
            BY <2>3, <3>7, <4>3 DEF CanAccessTable
          <5>2. CASE IsSuperuser(UserOf[s])
            BY <5>2 DEF Vetted, IsSuperuser
          <5>3. CASE owner[st.name] = UserOf[s]
            BY <3>1, <5>3 DEF Vetted
          <5>4. QED
            BY <5>1, <5>2, <5>3
        <4>4. QED
          BY <4>1, <4>2, <4>3
      <3> HIDE DEF stmt
      <3>9. CASE request[s].helper # "import"
        <4>1. LastCovered(s) = position[s] + 1
          BY <3>9 DEF LastCovered
        <4>2. ASSUME NEW i \in 1 .. position[s] + 1
              PROVE  Vetted(s, request[s].script[i])'
          <5>1. CASE i = position[s] + 1
            BY <3>1, <3>6, <3>8, <5>1
          <5>2. CASE i # position[s] + 1
            BY <1>c, <3>5, <5>2
          <5>3. QED
            BY <5>1, <5>2
        <4>3. \A i \in 1 .. position[s] + 1 : Vetted(s, request[s].script[i])'
          BY <4>2
        <4>4. QED
          BY <1>c, <3>1, <3>2, <3>3, <4>1, <4>3 DEF Part
      <3>10. CASE request[s].helper = "import"
        <4>1. LastCovered(s) = Len(request[s].script)
          BY <3>10 DEF LastCovered
        <4>2. \A i \in 1 .. Len(request[s].script) :
                  request[s].script[i].name = st.name
          BY <1>a, <3>3, <3>6, <3>10 DEF TypeOK, Request
        <4>3. ASSUME NEW i \in 1 .. Len(request[s].script)
              PROVE  Vetted(s, request[s].script[i])'
          BY <3>1, <3>8, <3>10, <4>2 DEF Vetted
        <4>4. \A i \in 1 .. Len(request[s].script) :
                  Vetted(s, request[s].script[i])'
          BY <4>3
        <4>5. QED
          BY <1>c, <3>1, <3>2, <4>1, <4>4 DEF Part
      <3>11. QED
        BY <3>9, <3>10
    <2>4. QED
      BY <2>1, <2>2, <2>3
  <1>3. ASSUME NEW o \in Sessions, TakeSnapshot(o) PROVE Part(s)'
    <2>1. CASE o = s
      <3>1. /\ pc[s] = "check" /\ position[s] = Len(request[s].script)
            /\ pc'[s] = "run" /\ position'[s] = 0
            /\ request' = request /\ vetted' = vetted
        BY <1>3, <1>a, <2>1 DEF TakeSnapshot, Goto, AtEnd, TypeOK
      <3>2. \A i \in 1 .. Len(request[s].script) :
                Vetted(s, request[s].script[i])'
        BY <1>c, <3>1, RequestStays DEF IInv, PositionOK
      <3>3. QED
        BY <1>c, <3>1, <3>2 DEF Part
    <2>2. CASE o # s
      BY <1>3, <1>a, <1>b, <2>2 DEF TakeSnapshot, Goto, TypeOK
    <2>3. QED
      BY <2>1, <2>2
  <1>4. ASSUME NEW o \in Sessions, RunStatement(o) PROVE Part(s)'
    <2>1. CASE o = s
      <3>1. /\ pc[s] = "run" /\ ~ AtEnd(s)
            /\ position' = [position EXCEPT ![s] = @ + 1]
            /\ pc' = pc /\ request' = request /\ vetted' = vetted
        BY <1>4, <2>1 DEF RunStatement, Advance
      <3>2. position'[s] = position[s] + 1
            /\ position[s] + 1 \in 1 .. Len(request[s].script)
        BY <3>1, <1>a, CurrentStatementType DEF TypeOK
      <3>3. \A i \in 1 .. Len(request[s].script) :
                Vetted(s, request[s].script[i])'
        BY <1>c, <3>1, RequestStays DEF IInv, PositionOK
      <3>4. QED
        BY <1>c, <3>1, <3>2, <3>3 DEF Part
    <2>2. CASE o # s
      <3>1. /\ position' = [position EXCEPT ![o] = @ + 1]
            /\ pc' = pc /\ request' = request /\ vetted' = vetted
        BY <1>4 DEF RunStatement, Advance
      <3>2. QED
        BY <3>1, <1>a, <1>b, <2>2 DEF TypeOK
    <2>3. QED
      BY <2>1, <2>2
  <1>5. ASSUME NEW o \in Sessions, RaiseError(o) \/ Return(o) PROVE Part(s)'
    BY <1>5, <1>d DEF RaiseError, Return
  <1>6. ASSUME NEW o \in Sessions, ListNewTables(o) PROVE Part(s)'
    <2>1. CASE o = s
      <3>1. /\ pc'[s] = "record" /\ position' = position /\ request' = request
        BY <1>6, <1>a, <2>1 DEF ListNewTables, Goto, TypeOK
      <3>2. QED
        BY <1>c, <3>1 DEF Part
    <2>2. CASE o # s
      BY <1>6, <1>a, <1>b, <2>2 DEF ListNewTables, Goto, TypeOK
    <2>3. QED
      BY <2>1, <2>2
  <1>7. ASSUME NEW o \in Sessions, RecordTable(o) PROVE Part(s)'
    BY <1>7, <1>b DEF RecordTable
  <1>8. CASE Crash
    BY <1>8, <1>d DEF Crash
  <1>9. CASE UNCHANGED vars
    BY <1>9, <1>b DEF vars
  <1>10. QED
    BY <1>1, <1>2, <1>3, <1>4, <1>5, <1>6, <1>7, <1>8, <1>9 DEF Next, Step

\* The checks a session has passed also cover the statement it runs.
LEMMA RunsVetted ==
  ASSUME IInv, NEW s \in Sessions, NEW m \in Names,
         RunStatement(s), Reaches(s, m)
  PROVE  \/ IsExempt(s) \/ IsSuperuser(UserOf[s])
         \/ CurrentStatement(s).name # m
         \/ m \in vetted[s] \cup edited
  <1>1. pc[s] = "run" /\ ~ AtEnd(s)
    BY DEF RunStatement
  <1>2. position[s] + 1 \in 1 .. Len(request[s].script)
    BY <1>1, CurrentStatementType DEF IInv
  <1>3. \A i \in 1 .. Len(request[s].script) : Vetted(s, request[s].script[i])
    BY <1>1 DEF IInv, PositionOK
  <1>4. Vetted(s, CurrentStatement(s))
    BY <1>2, <1>3 DEF CurrentStatement
  <1>5. QED
    BY <1>4 DEF Vetted, IsExempt, Reaches

---------------------------------------------------------------------------
(* What the helpers owe, and to whom the tables go.                        *)

\* A step adds to what a helper owes only a table it creates, and takes away
\* only what is recorded, dropped or abandoned.
LEMMA OwesStep ==
  ASSUME TypeOK, PositionOK, [Next]_vars, NEW o \in Sessions, NEW n \in Names
  PROVE  /\ n \in Owes(o)' =>
                \/ n \in Owes(o)
                \/ /\ pc[o] = "run" /\ n \notin exists
                   /\ \E s \in Sessions : CreateTable(s, n)
         /\ n \in Owes(o) =>
                \/ n \in Owes(o)' \cup abandoned' \cup dropped'
                \/ owner'[n] # NoOwner \/ n \in SystemTables
  <1> DEFINE Conclusion ==
         /\ n \in Owes(o)' =>
                \/ n \in Owes(o)
                \/ /\ pc[o] = "run" /\ n \notin exists
                   /\ \E s \in Sessions : CreateTable(s, n)
         /\ n \in Owes(o) =>
                \/ n \in Owes(o)' \cup abandoned' \cup dropped'
                \/ owner'[n] # NoOwner \/ n \in SystemTables
  <1> USE DEF helperVars, historyVars
  <1>1. ASSUME NEW ended \in SUBSET Sessions, End(ended),
               exists' = exists, dropped' = dropped
        PROVE  Conclusion
    <2>1. CASE o \in ended
      <3>1. Owes(o)' = {}
        BY <1>1, <2>1 DEF End, Owes
      <3>2. Owes(o) \ dropped \subseteq abandoned'
        BY <1>1, <2>1 DEF End
      <3>3. /\ n \notin Owes(o)'
            /\ n \in Owes(o) => n \in abandoned' \cup dropped'
        BY <1>1, <3>1, <3>2
      <3>4. QED
        BY <3>3
    <2>2. CASE o \notin ended
      <3>1. Owes(o)' = Owes(o)
        BY <1>1, <2>2 DEF End, Owes
      <3>2. QED
        BY <3>1
    <2>3. QED
      BY <2>1, <2>2
  <1>2. ASSUME Owes(o)' = Owes(o) PROVE Conclusion
    BY <1>2
  <1> HIDE DEF Conclusion
  <1>3. ASSUME NEW s \in Sessions, NEW req \in Requests, Call(s, req)
        PROVE  Conclusion
    <2>1. Owes(o)' = Owes(o)
      BY <1>3 DEF Call, Goto, Owes, TypeOK
    <2>2. QED
      BY <1>2, <2>1
  <1>4. ASSUME NEW s \in Sessions, CheckAccess(s) PROVE Conclusion
    <2>1. exists' = exists /\ dropped' = dropped
          /\ (End({s}) \/ UNCHANGED <<pc, before, new>>)
      BY <1>4 DEF CheckAccess
    <2>2. CASE End({s})
      BY <1>1, <2>1, <2>2
    <2>3. CASE UNCHANGED <<pc, before, new>>
      <3>1. Owes(o)' = Owes(o)
        BY <2>1, <2>3 DEF Owes
      <3>2. QED
        BY <1>2, <3>1
    <2>4. QED
      BY <2>1, <2>2, <2>3
  <1>5. ASSUME NEW s \in Sessions, TakeSnapshot(s) \/ ListNewTables(s)
        PROVE  Conclusion
    <2>1. Owes(o)' = Owes(o)
      BY <1>5 DEF TakeSnapshot, ListNewTables, Goto, Owes, TypeOK
    <2>2. QED
      BY <1>2, <2>1
  <1>6. ASSUME NEW s \in Sessions, RunStatement(s) PROVE Conclusion
    <2>1. PICK t \in Names :
             /\ UNCHANGED <<pc, request, before, new>>
             /\ \/ CreateTable(s, t) /\ ~ InDatabase(t)
                \/ DropTable(t)
                \/ EditOwnership
                \/ UNCHANGED <<exists, owner, creator, dropped, edited,
                               present, abandoned>>
      BY <1>6, StatementEffect
    <2>2. CASE CreateTable(s, t) /\ ~ InDatabase(t)
      <3>1. exists' = exists \cup {t} /\ t \notin exists
        BY <2>2 DEF CreateTable, InDatabase, SameTable
      <3>2. Owes(o) \subseteq Owes(o)'
        BY <2>1, <3>1 DEF Owes
      <3>3. ASSUME n \in Owes(o)', n \notin Owes(o)
            PROVE  pc[o] = "run" /\ n \notin exists /\ n = t
        BY <2>1, <3>1, <3>3 DEF Owes
      <3>4. QED
        BY <2>2, <3>2, <3>3 DEF Conclusion
    <2>3. CASE DropTable(t)
      <3>1. exists' \subseteq exists /\ exists \subseteq exists' \cup dropped'
        BY <2>3 DEF DropTable
      <3>2. Owes(o)' \subseteq Owes(o) /\ Owes(o) \subseteq Owes(o)' \cup dropped'
        BY <2>1, <3>1 DEF Owes
      <3>3. QED
        BY <3>2 DEF Conclusion
    <2>4. CASE UNCHANGED exists
      <3>1. Owes(o)' = Owes(o)
        BY <2>1, <2>4 DEF Owes
      <3>2. QED
        BY <1>2, <3>1
    <2>5. EditOwnership => UNCHANGED exists
      BY DEF EditOwnership
    <2>6. QED
      BY <2>1, <2>2, <2>3, <2>4, <2>5
  <1>7. ASSUME NEW s \in Sessions, RecordTable(s) PROVE Conclusion
    <2>1. PICK t \in new[s] : /\ RecordTableOwner(t, UserOf[s])
                              /\ new' = [new EXCEPT ![s] = @ \ {t}]
      BY <1>7 DEF RecordTable
    <2>2. UNCHANGED <<exists, pc, before>> /\ pc[s] = "record"
      BY <1>7 DEF RecordTable
    <2>3. Owes(o)' \subseteq Owes(o) /\ Owes(o) \subseteq Owes(o)' \cup {t}
      <3>1. new'[o] \subseteq new[o] /\ new[o] \subseteq new'[o] \cup {t}
        BY <2>1 DEF TypeOK
      <3>2. QED
        BY <2>2, <3>1 DEF Owes
    <2>4. owner'[t] # NoOwner \/ t \in SystemTables
      <3>1. UserOf[s] # NoOwner /\ t \in Names
        BY <2>1, UserAssumption DEF TypeOK
      <3>2. QED
        BY <2>1, <3>1 DEF RecordTableOwner, TypeOK
    <2>5. QED
      BY <2>3, <2>4 DEF Conclusion
  <1>8. ASSUME NEW s \in Sessions, RaiseError(s) \/ Return(s) PROVE Conclusion
    <2>1. End({s}) /\ exists' = exists /\ dropped' = dropped
      BY <1>8 DEF RaiseError, Return
    <2>2. QED
      BY <1>1, <2>1
  <1>9. ASSUME Crash PROVE Conclusion
    <2>1. End(Sessions) /\ exists' = exists /\ dropped' = dropped
      BY <1>9 DEF Crash
    <2>2. Sessions \in SUBSET Sessions
      OBVIOUS
    <2>3. QED
      BY <1>1, <2>1, <2>2
  <1>10. ASSUME UNCHANGED vars PROVE Conclusion
    <2>1. Owes(o)' = Owes(o)
      BY <1>10 DEF vars, Owes
    <2>2. QED
      BY <1>2, <2>1
  <1>11. Conclusion
    <2>1. ASSUME NEW s \in Sessions, Step(s) PROVE Conclusion
      BY <1>4, <1>5, <1>6, <1>7, <1>8, <2>1 DEF Step
    <2>2. QED
      BY <1>3, <1>9, <1>10, <2>1 DEF Next
  <1>12. QED
    BY <1>11 DEF Conclusion

\* Tables come only by CREATE, of a name that is not there in any case, and
\* go only by being dropped.
LEMMA TablesStep ==
  ASSUME TypeOK, PositionOK, [Next]_vars, NEW n \in Names
  PROVE  /\ n \in exists => n \in exists' \cup dropped'
         /\ n \in exists' => \/ n \in exists
                             \/ /\ ~ InDatabase(n)
                                /\ \E s \in Sessions :
                                       /\ pc[s] = "run" /\ UNCHANGED <<pc, before>>
                                       /\ CreateTable(s, n)
         /\ present'[n] # present[n] => ~ InDatabase(n)
         /\ n \in dropped' => n \in dropped \cup exists
  <1> USE DEF helperVars, historyVars
  <1>1. ASSUME NEW s \in Sessions, RunStatement(s)
        PROVE  /\ n \in exists => n \in exists' \cup dropped'
               /\ n \in exists' => \/ n \in exists
                                   \/ /\ ~ InDatabase(n)
                                      /\ pc[s] = "run" /\ UNCHANGED <<pc, before>>
                                      /\ CreateTable(s, n)
               /\ present'[n] # present[n] => ~ InDatabase(n)
               /\ n \in dropped' => n \in dropped \cup exists
    <2>1. PICK t \in Names :
             /\ pc[s] = "run"
             /\ UNCHANGED <<pc, before>>
             /\ \/ CreateTable(s, t) /\ ~ InDatabase(t)
                \/ DropTable(t)
                \/ EditOwnership
                \/ UNCHANGED <<exists, owner, creator, dropped, edited,
                               present, abandoned>>
      BY <1>1, StatementEffect
    <2>2. CASE CreateTable(s, t) /\ ~ InDatabase(t)
      <3>1. /\ exists' = exists \cup {t} /\ dropped' = dropped
            /\ n # t => present'[n] = present[n]
        BY <2>2 DEF CreateTable, TypeOK
      <3>2. QED
        BY <2>1, <2>2, <3>1
    <2>3. CASE DropTable(t)
      BY <2>3 DEF DropTable
    <2>4. CASE EditOwnership
      BY <2>4 DEF EditOwnership
    <2>5. QED
      BY <2>1, <2>2, <2>3, <2>4
  <1>2. CASE ~ \E s \in Sessions : RunStatement(s)
    BY <1>2 DEF Next, Step, Call, CheckAccess, TakeSnapshot, RaiseError,
                ListNewTables, RecordTable, Return, Crash, vars
  <1>3. QED
    BY <1>1, <1>2

\* The owner a step gives to a name is that of a helper that owes it.
LEMMA OwnerStep ==
  ASSUME TypeOK, PositionOK, [Next]_vars, NEW n \in Names
  PROVE  \/ owner'[n] = owner[n] \/ n \in edited'
         \/ \E s \in Sessions : /\ n \in Owes(s) /\ owner'[n] = UserOf[s]
                                /\ n \notin SystemTables
  <1> USE DEF helperVars, historyVars
  <1>1. ASSUME NEW s \in Sessions, RecordTable(s), owner'[n] # owner[n]
        PROVE  /\ n \in Owes(s) /\ owner'[n] = UserOf[s]
               /\ n \notin SystemTables
    <2>1. PICK t \in new[s] : RecordTableOwner(t, UserOf[s])
      BY <1>1 DEF RecordTable
    <2>2. n = t /\ owner'[n] = UserOf[s] /\ t \notin SystemTables
      BY <1>1, <2>1 DEF RecordTableOwner, TypeOK
    <2>3. pc[s] = "record"
      BY <1>1 DEF RecordTable
    <2>4. QED
      BY <2>1, <2>2, <2>3 DEF Owes
  <1>2. ASSUME NEW s \in Sessions, RunStatement(s)
        PROVE  owner'[n] = owner[n] \/ n \in edited'
    <2>1. owner' = owner \/ EditOwnership
      BY <1>2 DEF RunStatement, CreateTable, DropTable
    <2>2. ASSUME EditOwnership PROVE owner'[n] = owner[n] \/ n \in edited'
      <3>1. PICK row \in Edits : /\ owner' = [owner EXCEPT ![row.name] = row.owner]
                                 /\ edited' = edited \cup {row.name}
        BY <2>2 DEF EditOwnership
      <3>2. QED
        BY <3>1 DEF TypeOK
    <2>3. QED
      BY <2>1, <2>2
  <1>3. CASE ~ \E s \in Sessions : RecordTable(s) \/ RunStatement(s)
    BY <1>3 DEF Next, Step, Call, CheckAccess, TakeSnapshot,
                RaiseError, ListNewTables, Return, Crash, vars
  <1>4. QED
    BY <1>1, <1>2, <1>3

\* No step records a seeded table that was never dropped, or lets another name
\* of it in.
LEMMA SeedsStep == IInv /\ [Next]_vars => SeedsOK'
  <1> SUFFICES ASSUME IInv, [Next]_vars, NEW t \in Seeded \ dropped'
               PROVE  /\ t \in exists'
                      /\ owner'[t] = NoOwner \/ t \in edited'
                      /\ \A s \in Sessions : t \notin Owes(s)'
                      /\ \A m \in Names :
                             m # t /\ SameTable(m, t) => present'[m] = {}
    BY DEF SeedsOK, Seeded, SameTable
  <1>1. /\ TypeOK /\ PositionOK /\ t \in Names
        /\ t \in Seeded \ dropped
    BY HistoriesGrow, TableAssumption DEF IInv, Seeded
  <1>2. /\ t \in exists
        /\ owner[t] = NoOwner \/ t \in edited
        /\ \A s \in Sessions : t \notin Owes(s)
        /\ \A m \in Names : m # t /\ SameTable(m, t) => present[m] = {}
    BY <1>1 DEF IInv, SeedsOK
  <1>3. t \in exists'
    BY <1>1, <1>2, TablesStep
  <1>4. owner'[t] = NoOwner \/ t \in edited'
    BY <1>1, <1>2, OwnerStep, HistoriesGrow
  <1>5. \A s \in Sessions : t \notin Owes(s)'
    BY <1>1, <1>2, OwesStep
  <1>6. ASSUME NEW m \in Names, m # t, SameTable(m, t) PROVE present'[m] = {}
    <2>1. InDatabase(m)
      BY <1>2, <1>6 DEF InDatabase, SameTable
    <2>2. QED
      BY <1>1, <1>2, <1>6, <2>1, TablesStep
  <1>7. QED
    BY <1>3, <1>4, <1>5, <1>6

\* Who creates a table is there, with whoever else runs a script.
LEMMA CreatorIsPresent ==
  ASSUME TypeOK, NEW s \in Sessions, NEW o \in Sessions, NEW n \in Names,
         CreateTable(s, n), pc[o] = "run"
  PROVE  UserOf[o] \in present'[n]
  <1>1. UserOf[o] \in {UserOf[p] : p \in {r \in Sessions : pc[r] = "run"}}
    OBVIOUS
  <1>2. QED
    BY <1>1 DEF CreateTable, TypeOK

LEMMA PresentStep == IInv /\ [Next]_vars => PresentOK'
  <1> SUFFICES ASSUME IInv, [Next]_vars PROVE PresentOK'
    OBVIOUS
  <1>1. /\ TypeOK /\ PositionOK /\ PresentOK
        /\ edited \subseteq edited'
        /\ \A n \in Names : present[n] \subseteq present'[n]
    BY HistoriesGrow DEF IInv
  <1>2. ASSUME NEW n \in Names
        PROVE  owner'[n] \in {NoOwner} \cup present'[n] \/ n \in edited'
    <2>1. CASE owner'[n] = owner[n]
      BY <1>1, <2>1 DEF PresentOK, OwnersWerePresent
    <2>2. CASE \E s \in Sessions : n \in Owes(s) /\ owner'[n] = UserOf[s]
      BY <1>1, <2>2 DEF PresentOK
    <2>3. QED
      BY <1>1, <2>1, <2>2, OwnerStep
  <1>3. ASSUME NEW o \in Sessions, NEW n \in Owes(o)' PROVE UserOf[o] \in present'[n]
    <2>1. n \in Names
      <3>1. TypeOK'
        BY <1>1, TypeStep
      <3>2. Owes(o)' \subseteq Names
        BY <3>1 DEF TypeOK, Owes
      <3>3. QED
        BY <3>2
    <2>2. CASE n \in Owes(o)
      BY <1>1, <2>1, <2>2 DEF PresentOK
    <2>3. CASE pc[o] = "run" /\ \E s \in Sessions : CreateTable(s, n)
      BY <1>1, <2>1, <2>3, CreatorIsPresent
    <2>4. QED
      BY <1>1, <2>1, <2>2, <2>3, OwesStep
  <1>4. QED
    BY <1>2, <1>3 DEF PresentOK, OwnersWerePresent

\* What a step drops is gone after it.
LEMMA DropsLeave ==
  ASSUME TypeOK, [Next]_vars, NEW n \in dropped' \ dropped
  PROVE  n \notin exists'
  <1> USE DEF helperVars, historyVars
  <1>1. CASE \E s \in Sessions : RunStatement(s)
    BY <1>1 DEF RunStatement, CreateTable, DropTable, EditOwnership
  <1>2. CASE ~ \E s \in Sessions : RunStatement(s)
    BY <1>2 DEF Next, Step, Call, CheckAccess, TakeSnapshot, RaiseError,
                ListNewTables, RecordTable, Return, Crash, vars
  <1>3. QED
    BY <1>1, <1>2

LEMMA TracesStep == IInv /\ [Next]_vars => TracesOK'
  <1> SUFFICES ASSUME IInv, [Next]_vars PROVE TracesOK'
    OBVIOUS
  <1> USE DEF helperVars, historyVars
  <1>1. /\ TypeOK /\ PositionOK /\ TracesOK
        /\ exists \subseteq Names /\ exists' \subseteq Names
        /\ dropped \subseteq dropped'
        /\ \A n \in Names : present[n] \subseteq present'[n]
    BY HistoriesGrow, TypeStep DEF IInv, TypeOK
  <1>2. exists \cup dropped \subseteq exists' \cup dropped'
    BY <1>1, TablesStep
  <1>3. \A s \in Sessions : before'[s] \subseteq before[s] \cup exists
    <2>1. CASE \E s \in Sessions : TakeSnapshot(s)
      BY <1>1, <2>1 DEF TakeSnapshot, TypeOK
    <2>2. CASE ~ \E s \in Sessions : TakeSnapshot(s)
      <3>1. before' = before \/ \E ended \in SUBSET Sessions : End(ended)
        BY <2>2 DEF Next, Step, Call, CheckAccess, RunStatement, RaiseError,
                    ListNewTables, RecordTable, Return, Crash, vars
      <3>2. QED
        BY <3>1 DEF End
    <2>3. QED
      BY <2>1, <2>2
  <1>4. \A s \in Sessions : before'[s] \subseteq exists' \cup dropped'
    BY <1>1, <1>2, <1>3 DEF TracesOK
  <1>5. ASSUME NEW n \in exists'
        PROVE  n \in Seeded \ dropped' \/ present'[n] # {}
    <2>1. n \in Names
      BY <1>1
    <2>2. CASE n \in exists /\ n \in Seeded \ dropped
      <3>1. n \in dropped' => n \notin exists'
        BY <1>1, <2>2, DropsLeave
      <3>2. QED
        BY <1>5, <2>2, <3>1
    <2>3. CASE n \in exists /\ present[n] # {}
      BY <1>1, <2>1, <2>3
    <2>4. CASE \E s \in Sessions : pc[s] = "run" /\ CreateTable(s, n)
      BY <1>1, <2>1, <2>4, CreatorIsPresent
    <2>5. QED
      BY <1>1, <1>5, <2>1, <2>2, <2>3, <2>4, TablesStep DEF TracesOK
  <1>6. QED
    BY <1>4, <1>5 DEF TracesOK, Seeded

LEMMA NewTablesStep == IInv /\ [Next]_vars => NewTablesGetOwners'
  <1> SUFFICES ASSUME IInv, [Next]_vars,
                      NEW n \in NewTables' \ (dropped' \cup edited'),
                      owner'[n] = NoOwner
               PROVE  n \in abandoned' \/ \E s \in Sessions : n \in Owes(s)'
    BY DEF NewTablesGetOwners
  <1>1. /\ TypeOK /\ PositionOK /\ TracesOK /\ NewTablesGetOwners
        /\ n \in Names /\ n \in exists' /\ n \notin Seeded
        /\ dropped \subseteq dropped' /\ edited \subseteq edited'
        /\ abandoned \ dropped' \subseteq abandoned'
    BY HistoriesGrow, TypeStep DEF IInv, NewTables, Seeded, TypeOK
  <1>2. CASE n \in exists
    <2>1. owner[n] = NoOwner
      BY <1>1, OwnersStay
    <2>2. n \in abandoned \/ \E s \in Sessions : n \in Owes(s)
      BY <1>1, <1>2, <2>1 DEF NewTablesGetOwners, NewTables, Seeded
    <2>3. ASSUME NEW s \in Sessions, n \in Owes(s)
          PROVE  n \in Owes(s)' \cup abandoned'
      BY <1>1, <2>3, OwesStep DEF Seeded
    <2>4. QED
      BY <1>1, <2>2, <2>3
  <1>3. CASE n \notin exists
    <2>1. PICK s \in Sessions : /\ pc[s] = "run" /\ UNCHANGED <<pc, before>>
                                /\ CreateTable(s, n)
      BY <1>1, <1>3, TablesStep
    <2>2. n \notin before[s]
      BY <1>1, <1>3 DEF TracesOK
    <2>3. n \in Owes(s)'
      BY <1>1, <2>1, <2>2 DEF Owes
    <2>4. QED
      BY <2>3
  <1>4. QED
    BY <1>2, <1>3

---------------------------------------------------------------------------
(* The theorems.                                                           *)

LEMMA Invariance == Spec => []IInv
  <1>1. IInv /\ [Next]_vars => IInv'
    BY TypeStep, PositionStep, SeedsStep, PresentStep, TracesStep, NewTablesStep
       DEF IInv
  <1>2. QED
    BY InvariantInit, <1>1, PTL DEF Spec

\* Every variable stays in its domain, for any sessions, users and names.
THEOREM TypeCorrect == Spec => []TypeOK
  <1>1. IInv => TypeOK
    BY DEF IInv
  <1>2. QED
    BY Invariance, <1>1, PTL

\* Only a DROP, or DML on table_ownership, can cost a seeded table its public
\* status: no interleaving of snapshots, scripts and recordings
\* (admin.py:24-35) gives it an owner.
THEOREM SeedsStayPublic == Spec => []SeedTablesStayPublic
  <1>1. IInv => SeedTablesStayPublic
    BY DEF IInv, SeedsOK, SeedTablesStayPublic, Seeded
  <1>2. QED
    BY Invariance, <1>1, PTL

\* Whoever is recorded as an owner ran a script while a table of that name was
\* created (admin.py:78-81, 103-106), whatever the sessions run, in whatever
\* order, and wherever helpers fail or the process stops.
THEOREM OwnersArePresent == Spec => []OwnersWerePresent
  <1>1. IInv => OwnersWerePresent
    BY DEF IInv, PresentOK
  <1>2. QED
    BY Invariance, <1>1, PTL

\* A new table has an owner, or is about to get one, unless its helper failed
\* or died between the script and the record (admin.py:33-35).
THEOREM NewTablesAreOwned == Spec => []NewTablesGetOwners
  <1>1. IInv => NewTablesGetOwners
    BY DEF IInv
  <1>2. QED
    BY Invariance, <1>1, PTL

\* What _check_access (admin.py:42-58) does guarantee: another user's table is
\* reached under its own name only by a statement that needs no check, or if
\* it was public when it was checked.  The whole script is checked before it
\* runs, and no helper takes an owner away in between.
THEOREM ForeignTablesAreSafe == Spec => ForeignTablesUntouched
  <1>1. IInv /\ [Next]_vars =>
            [ \A s \in Sessions, m \in Names :
                 RunStatement(s) /\ Reaches(s, m) =>
                     \/ IsExempt(s) \/ IsSuperuser(UserOf[s])
                     \/ CurrentStatement(s).name # m
                     \/ m \in vetted[s] \cup edited ]_vars
    BY RunsVetted
  <1>2. QED
    BY Invariance, <1>1, PTL DEF Spec, ForeignTablesUntouched

=============================================================================
