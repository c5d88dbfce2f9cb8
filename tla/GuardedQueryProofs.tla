------------------------- MODULE GuardedQueryProofs -------------------------
(***************************************************************************)
(* Proofs about GuardedQuery: what a question may read while other         *)
(* sessions create, drop and record tables, for every set of sessions,     *)
(* tables, questions and LIMIT clauses.  TableOwnershipProofs supplies     *)
(* that no helper takes an owner away and that a seeded table has no other *)
(* name before it is dropped, which is what makes the two separate         *)
(* readings of the ownership table safe.                                   *)
(***************************************************************************)
EXTENDS GuardedQuery, TableOwnershipProofs

\* A statement may keep the LIMIT that ApplyRowLimit gave it.
AnyStatement == [table : Names \cup {"none"}, limit : Limit]

\* Every variable of a question stays in its domain.
QueryTypeOK ==
    /\ step \in [Questions -> Steps]
    /\ typed \in [Questions -> BOOLEAN]
    /\ names \in [Questions -> SUBSET Names]
    /\ context \in [Questions -> SUBSET Names]
    /\ statement \in [Questions -> AnyStatement]
    /\ result \in [Questions -> Nat]
    /\ index \subseteq Names
    /\ rankerDown \in BOOLEAN
    /\ barred \in [Questions -> SUBSET Names]
    /\ approved \in [Questions -> BOOLEAN]

\* What was barred when the question was asked is still not readable, so no
\* later reading of the schema brings it back.
BarredOK(q) ==
    /\ step[q] = "idle" => context[q] = {}
    /\ \A n \in barred[q] \ edited :
           /\ ~ CanAccessTable(n, Asker[q])
           /\ n \notin context[q]
           /\ step[q] \in {"execute", "done"} /\ ~ approved[q] =>
                  ~ SameTable(n, statement[q].table) \/ Respelled(n)

\* A statement that goes to the database without a reviewer has a limit.
LimitOK(q) ==
    /\ step[q] = "execute" /\ ~ approved[q] =>
           \/ statement[q].limit.kind = "literal"
           \/ /\ statement[q].limit.kind = "integer"
              /\ statement[q].limit.value <= MaxRowLimit
    /\ step[q] = "done" /\ ~ approved[q] =>
           result[q] <= MaxRowLimit \/ statement[q].limit.kind = "literal"

\* The collection covers the schema of a question about to be ranked by it.
IndexOK(q) == step[q] = "query_index" => context[q] \subseteq index

QueryInv ==
    /\ QueryTypeOK
    /\ \A q \in Questions : BarredOK(q) /\ LimitOK(q) /\ IndexOK(q)

---------------------------------------------------------------------------
(* The ownership tables underneath.                                        *)

\* GuardedQuery runs the helpers of TableOwnership and nothing else on the
\* tables.
LEMMA HelpersStep == QueryNext => [Next]_vars
  BY DEF QueryNext, Next

LEMMA HelpersRun == QuerySpec => []IInv
  <1>1. QueryInit => Init
    BY DEF QueryInit
  <1>2. [QueryNext]_<<vars, queryVars>> => [Next]_vars
    BY HelpersStep
  <1>3. QuerySpec => Spec
    BY <1>1, <1>2, PTL DEF QuerySpec, Spec
  <1>4. QED
    BY <1>3, Invariance, PTL

\* What a user may not read now, the user will not be allowed to read later.
LEMMA StaysUnreadable ==
  ASSUME TypeOK, [Next]_vars, NEW t \in Names, NEW u \in Users,
         ~ CanAccessTable(t, u), t \notin edited'
  PROVE  ~ CanAccessTable(t, u)'
  <1>1. ~ IsSuperuser(u) /\ (t \in SystemTables \/ owner[t] \notin {NoOwner, u})
    BY DEF CanAccessTable
  <1>2. CASE t \in SystemTables
    BY <1>1, <1>2 DEF CanAccessTable
  <1>3. CASE owner[t] \notin {NoOwner, u}
    <2>1. owner'[t] = owner[t]
      BY <1>3, OwnersStay
    <2>2. QED
      BY <1>1, <1>3, <2>1 DEF CanAccessTable
  <1>4. QED
    BY <1>1, <1>2, <1>3

\* The schema a question reads holds only what its asker may read.
LEMMA SchemaIsReadable ==
  ASSUME TypeOK, QueryTypeOK, NEW q \in Questions
  PROVE  /\ Schema(q) \subseteq Names
         /\ \A t \in Schema(q) : CanAccessTable(t, Asker[q])
  BY AskerAssumption DEF Schema, VisibleTables, CanAccessTable, TypeOK,
                         QueryTypeOK

\* Another name by which a user finds a table that was not the user's to read
\* was created at some time: seeded tables have one name each until they are
\* dropped, and owners of other names come with tables that were created.
LEMMA UnreadableIsRespelled ==
  ASSUME IInv, NEW n \in Names \ edited, NEW u \in Users, ~ CanAccessTable(n, u),
         NEW m \in exists, m # n, SameTable(m, n)
  PROVE  Respelled(n)
  <1>1. /\ m \in Names /\ present \in [Names -> SUBSET Users]
        /\ m \in Seeded \ dropped \/ present[m] # {}
    BY DEF IInv, TypeOK, TracesOK
  <1>2. CASE present[m] # {}
    BY <1>1, <1>2 DEF Respelled
  <1>3. CASE m \in Seeded \ dropped
    <2>1. n \notin Seeded
      BY <1>3, TableAssumption DEF SameTable, Seeded
    <2>2. present[n] = {}
      BY <1>3 DEF IInv, SeedsOK, SameTable
    <2>3. owner[n] = NoOwner
      BY <2>2 DEF IInv, PresentOK, OwnersWerePresent
    <2>4. QED
      BY <2>1, <2>3 DEF CanAccessTable, Seeded
  <1>4. QED
    BY <1>1, <1>2, <1>3

\* What check_sql lets through is not a table that was barred at first.
LEMMA KnownIsReadable ==
  ASSUME IInv, QueryTypeOK, NEW q \in Questions, NEW t, Known(q, t),
         NEW n \in Names \ edited, ~ CanAccessTable(n, Asker[q])
  PROVE  ~ SameTable(n, t) \/ Respelled(n)
  <1>1. TypeOK
    BY DEF IInv
  <1>2. PICK m \in Schema(q) : SameTable(m, t)
    BY DEF Known
  <1>3. m \in exists /\ m # n /\ Asker[q] \in Users
    BY <1>1, <1>2, SchemaIsReadable, AskerAssumption DEF Schema, VisibleTables
  <1>4. SUFFICES ASSUME SameTable(n, t) PROVE Respelled(n)
    OBVIOUS
  <1>5. SameTable(m, n)
    BY <1>2, <1>4 DEF SameTable
  <1>6. QED
    BY <1>3, <1>5, UnreadableIsRespelled

\* The limit of an accepted statement.
LEMMA RowLimitBounds ==
  ASSUME NEW limit \in Limit
  PROVE  /\ ApplyRowLimit(limit) \in Limit
         /\ limit.kind # "expression" =>
              \/ ApplyRowLimit(limit).kind = "literal"
              \/ /\ ApplyRowLimit(limit).kind = "integer"
                 /\ ApplyRowLimit(limit).value <= MaxRowLimit
  <1>0. /\ limit.kind \in {"none", "integer", "literal", "expression"}
        /\ limit.value \in Nat
        /\ MaxRowLimit \in Nat /\ DefaultRowLimit \in Nat
        /\ DefaultRowLimit <= MaxRowLimit
    BY LimitAssumption DEF Limit
  <1>1. CASE limit.kind = "none"
    BY <1>0, <1>1 DEF ApplyRowLimit, Limit
  <1>2. CASE limit.kind = "integer" /\ limit.value > MaxRowLimit
    BY <1>0, <1>2 DEF ApplyRowLimit, Limit
  <1>3. CASE ~ (limit.kind = "none")
             /\ ~ (limit.kind = "integer" /\ limit.value > MaxRowLimit)
    <2>1. ApplyRowLimit(limit) = limit
      BY <1>3 DEF ApplyRowLimit
    <2>2. QED
      BY <1>0, <1>3, <2>1
  <1>4. QED
    BY <1>1, <1>2, <1>3

LEMMA RowsBound ==
  ASSUME NEW limit \in Limit
  PROVE  /\ RowsOf(limit) \in Nat
         /\ limit.kind # "none" => RowsOf(limit) <= limit.value
  BY LimitAssumption DEF RowsOf, Limit

---------------------------------------------------------------------------
(* Types.                                                                  *)

LEMMA QueryInvInit == QueryInit => QueryInv
  <1> SUFFICES ASSUME QueryInit PROVE QueryInv
    OBVIOUS
  <1>1. NoStatement \in AnyStatement
    BY DEF NoStatement, AnyStatement, Limit
  <1>2. step \in [Questions -> Steps]
    BY DEF QueryInit, Steps
  <1>3. statement \in [Questions -> AnyStatement]
    BY <1>1 DEF QueryInit
  <1>4. index \subseteq Names /\ rankerDown \in BOOLEAN
    BY RankingAssumption DEF QueryInit
  <1>5. /\ typed \in [Questions -> BOOLEAN]
        /\ approved \in [Questions -> BOOLEAN]
        /\ result \in [Questions -> Nat]
    BY DEF QueryInit
  <1>6. /\ names \in [Questions -> SUBSET Names]
        /\ context \in [Questions -> SUBSET Names]
        /\ barred \in [Questions -> SUBSET Names]
    BY DEF QueryInit
  <1>7. QueryTypeOK
    BY <1>2, <1>3, <1>4, <1>5, <1>6 DEF QueryTypeOK
  <1>8. \A q \in Questions : /\ step[q] = "idle"
                             /\ context[q] = {} /\ barred[q] = {}
    BY DEF QueryInit
  <1>9. QED
    BY <1>7, <1>8 DEF QueryInv, BarredOK, LimitOK, IndexOK

\* The statements a question may come by.
LEMMA StatementTypes == Statements \subseteq AnyStatement
  BY LimitAssumption DEF Statements, AnyStatement

\* How each operation changes the question it belongs to; the step it goes to
\* is one of Steps.
LEMMA QueryStepType ==
  ASSUME TypeOK, QueryTypeOK, NEW q \in Questions, QueryStep(q)
  PROVE  QueryTypeOK'
  <1> USE DEF rankerVars
  <1>a. \A label \in Steps : [step EXCEPT ![q] = label] \in [Questions -> Steps]
    BY DEF QueryTypeOK
  <1>b. \A s \in Statements : [statement EXCEPT ![q] = s]
                                \in [Questions -> AnyStatement]
    BY StatementTypes DEF QueryTypeOK
  <1>c. \A tables \in SUBSET Names : [context EXCEPT ![q] = tables]
                                        \in [Questions -> SUBSET Names]
    BY DEF QueryTypeOK
  <1>d. context[q] \subseteq Names
    BY DEF QueryTypeOK
  <1>1. CASE Ask(q)
    <2>1. step' \in [Questions -> Steps] /\ typed' \in [Questions -> BOOLEAN]
      BY <1>1, <1>a DEF Ask, Proceed, Steps, QueryTypeOK
    <2>2. statement' \in [Questions -> AnyStatement]
      BY <1>1, <1>b DEF Ask, QueryTypeOK
    <2>3. barred' \in [Questions -> SUBSET Names]
      BY <1>1 DEF Ask, NotReadable, QueryTypeOK
    <2>4. QED
      BY <1>1, <2>1, <2>2, <2>3 DEF Ask, QueryTypeOK
  <1>2. CASE ReadNames(q)
    <2>1. step' \in [Questions -> Steps]
      BY <1>2, <1>a DEF ReadNames, Proceed, Steps
    <2>2. names' \in [Questions -> SUBSET Names]
      BY <1>2 DEF ReadNames, QueryTypeOK, TypeOK
    <2>3. QED
      BY <1>2, <2>1, <2>2 DEF ReadNames, QueryTypeOK
  <1>3. CASE Retrieve(q)
    <2>1. step' \in [Questions -> Steps]
      BY <1>3, <1>a DEF Retrieve, Proceed, Steps
    <2>2. context' \in [Questions -> SUBSET Names]
      BY <1>3, <1>c, SchemaIsReadable DEF Retrieve
    <2>3. QED
      BY <1>3, <2>1, <2>2 DEF Retrieve, QueryTypeOK
  <1>4. CASE Lexical(q)
    <2>1. step' \in [Questions -> Steps] /\ rankerDown' \in BOOLEAN
      BY <1>4, <1>a DEF Lexical, RankLexically, Proceed, Steps, QueryTypeOK
    <2>2. context' \in [Questions -> SUBSET Names]
      BY <1>4, <1>c, <1>d DEF Lexical, RankLexically
    <2>3. QED
      BY <1>4, <2>1, <2>2 DEF Lexical, QueryTypeOK
  <1>5. CASE Upsert(q)
    <2>1. step' \in [Questions -> Steps]
      BY <1>5, <1>a DEF Upsert, Proceed, Steps
    <2>2. QED
      BY <1>5, <1>d, <2>1 DEF Upsert, QueryTypeOK
  <1>6. CASE QueryIndex(q)
    <2>1. step' \in [Questions -> Steps]
      BY <1>6, <1>a DEF QueryIndex, Proceed, Steps
    <2>2. PICK best \in SUBSET context[q] : context' = [context EXCEPT ![q] = best]
      BY <1>6 DEF QueryIndex, Fullest
    <2>3. context' \in [Questions -> SUBSET Names]
      BY <1>c, <1>d, <2>2
    <2>4. QED
      BY <1>6, <2>1, <2>3 DEF QueryIndex, QueryTypeOK
  <1>7. CASE Generate(q)
    <2>1. step' \in [Questions -> Steps]
      BY <1>7, <1>a DEF Generate, Proceed, Steps
    <2>2. statement' \in [Questions -> AnyStatement]
      BY <1>7, <1>b DEF Generate
    <2>3. QED
      BY <1>7, <2>1, <2>2 DEF Generate, QueryTypeOK
  <1>8. CASE Validate(q)
    <2>1. step' \in [Questions -> Steps]
      BY <1>8, <1>a DEF Validate, Proceed, Steps, Ends
    <2>2. statement[q] \in AnyStatement /\ ApplyRowLimit(statement[q].limit) \in Limit
      BY RowLimitBounds DEF QueryTypeOK, AnyStatement
    <2>3. [statement EXCEPT ![q].limit = ApplyRowLimit(@)]
            \in [Questions -> AnyStatement]
      BY <2>2 DEF QueryTypeOK, AnyStatement
    <2>4. statement' \in [Questions -> AnyStatement]
      BY <1>8, <2>3 DEF Validate, QueryTypeOK
    <2>5. QED
      BY <1>8, <2>1, <2>4 DEF Validate, QueryTypeOK
  <1>9. CASE Review(q)
    <2>1. step' \in [Questions -> Steps] /\ approved' \in [Questions -> BOOLEAN]
      BY <1>9, <1>a DEF Review, Proceed, Steps, Ends, QueryTypeOK
    <2>2. statement' \in [Questions -> AnyStatement]
      BY <1>9, <1>b DEF Review, QueryTypeOK
    <2>3. QED
      BY <1>9, <2>1, <2>2 DEF Review, QueryTypeOK
  <1>10. CASE Execute(q)
    <2>1. step' \in [Questions -> Steps]
      BY <1>10, <1>a DEF Execute, Proceed, Steps, Ends
    <2>2. RowsOf(statement[q].limit) \in Nat
      BY RowsBound DEF QueryTypeOK, AnyStatement
    <2>3. result' \in [Questions -> Nat]
      BY <1>10, <2>2 DEF Execute, QueryTypeOK
    <2>4. QED
      BY <1>10, <2>1, <2>3 DEF Execute, QueryTypeOK
  <1>11. QED
    BY <1>1, <1>2, <1>3, <1>4, <1>5, <1>6, <1>7, <1>8, <1>9, <1>10
       DEF QueryStep

---------------------------------------------------------------------------
(* The invariant.                                                          *)

\* A question that a step does not belong to, or that dies with the process.
LEMMA BystanderKeeps ==
  ASSUME TypeOK, QueryInv, [Next]_vars, NEW p \in Questions,
         barred'[p] = barred[p], approved'[p] = approved[p],
         context'[p] = context[p], statement'[p] = statement[p],
         result'[p] = result[p], index \subseteq index',
         step'[p] \in {step[p], "lost"}
  PROVE  BarredOK(p)' /\ LimitOK(p)' /\ IndexOK(p)'
  <1>1. BarredOK(p) /\ LimitOK(p) /\ IndexOK(p) /\ barred[p] \subseteq Names
        /\ Asker[p] \in Users /\ edited \subseteq edited'
        /\ \A m \in Names : present[m] \subseteq present'[m]
    BY AskerAssumption, HistoriesGrow DEF QueryInv, QueryTypeOK
  <1>2. ASSUME NEW n \in barred'[p] \ edited'
        PROVE  /\ ~ CanAccessTable(n, Asker[p])'
               /\ n \notin context'[p]
               /\ step'[p] \in {"execute", "done"} /\ ~ approved'[p] =>
                      ~ SameTable(n, statement'[p].table) \/ Respelled(n)'
    <2>1. /\ n \in Names /\ n \in barred[p] \ edited
          /\ ~ CanAccessTable(n, Asker[p])
      BY <1>1, <1>2 DEF BarredOK
    <2>2. ~ CanAccessTable(n, Asker[p])'
      BY <1>1, <1>2, <2>1, StaysUnreadable
    <2>3. Respelled(n) => Respelled(n)'
      BY <1>1 DEF Respelled
    <2>4. QED
      BY <1>1, <2>1, <2>2, <2>3 DEF BarredOK
  <1>3. BarredOK(p)'
    BY <1>1, <1>2 DEF BarredOK, SameTable
  <1>4. LimitOK(p)' /\ IndexOK(p)'
    BY <1>1 DEF LimitOK, IndexOK
  <1>5. QED
    BY <1>3, <1>4

\* The operations of one question leave the others alone; the collection
\* only grows.
LEMMA OthersKeep ==
  ASSUME QueryTypeOK, NEW q \in Questions, QueryStep(q)
  PROVE  /\ index \subseteq index'
         /\ \A p \in Questions \ {q} :
                /\ barred'[p] = barred[p] /\ approved'[p] = approved[p]
                /\ context'[p] = context[p] /\ statement'[p] = statement[p]
                /\ result'[p] = result[p] /\ step'[p] = step[p]
  <1> USE DEF rankerVars, Proceed, QueryTypeOK
  <1>1. index \subseteq index'
    BY DEF QueryStep, Ask, ReadNames, Retrieve, Lexical, Upsert, QueryIndex,
           Generate, Validate, Review, Execute
  <1> SUFFICES ASSUME NEW p \in Questions \ {q}
               PROVE  /\ barred'[p] = barred[p] /\ approved'[p] = approved[p]
                      /\ context'[p] = context[p]
                      /\ statement'[p] = statement[p]
                      /\ result'[p] = result[p] /\ step'[p] = step[p]
    BY <1>1
  <1>2. CASE Ask(q) \/ ReadNames(q) \/ Retrieve(q) \/ Upsert(q)
    BY <1>2 DEF Ask, ReadNames, Retrieve, Upsert
  <1>3. CASE Lexical(q) \/ QueryIndex(q)
    BY <1>3 DEF Lexical, RankLexically, QueryIndex
  <1>4. CASE Generate(q)
    BY <1>4 DEF Generate
  <1>5. CASE Validate(q)
    BY <1>5 DEF Validate
  <1>6. CASE Review(q) \/ Execute(q)
    BY <1>6 DEF Review, Execute
  <1>7. QED
    BY <1>2, <1>3, <1>4, <1>5, <1>6 DEF QueryStep

\* What each operation does to its own question's part of the invariant.
LEMMA OwnStep ==
  ASSUME IInv, QueryInv, NEW q \in Questions, QueryStep(q), UNCHANGED vars
  PROVE  BarredOK(q)' /\ LimitOK(q)' /\ IndexOK(q)'
  <1> USE DEF rankerVars, Proceed
  <1>a. /\ QueryTypeOK /\ BarredOK(q) /\ LimitOK(q) /\ IndexOK(q)
        /\ TypeOK /\ barred[q] \subseteq Names
        /\ UNCHANGED <<owner, exists, present, edited>>
    BY DEF QueryInv, QueryTypeOK, IInv, vars, historyVars
  <1>b. \A n : /\ CanAccessTable(n, Asker[q])' = CanAccessTable(n, Asker[q])
               /\ Respelled(n) => Respelled(n)'
    BY <1>a DEF CanAccessTable, Respelled
  <1>c. \A n \in barred[q] \ edited : n \notin Schema(q)
    BY <1>a, SchemaIsReadable DEF BarredOK
  <1>d. ASSUME barred'[q] = barred[q], step'[q] # "idle",
               context'[q] \subseteq context[q] \cup Schema(q),
               step'[q] \in {"execute", "done"} /\ ~ approved'[q] =>
                   \A n \in barred[q] \ edited :
                       ~ SameTable(n, statement'[q].table) \/ Respelled(n)
        PROVE  BarredOK(q)'
    <2>1. ASSUME NEW n \in barred[q] \ edited
          PROVE  /\ ~ CanAccessTable(n, Asker[q])'
                 /\ n \notin context'[q]
                 /\ step'[q] \in {"execute", "done"} /\ ~ approved'[q] =>
                        ~ SameTable(n, statement'[q].table) \/ Respelled(n)'
      BY <1>a, <1>b, <1>c, <1>d, <2>1 DEF BarredOK
    <2>2. QED
      BY <1>a, <1>d, <2>1 DEF BarredOK, SameTable
  <1>1. CASE Ask(q)
    <2>1. /\ step[q] = "idle" /\ context[q] = {}
          /\ step'[q] \in {"retrieve", "validate"} /\ context'[q] = {}
          /\ barred'[q] = NotReadable(Asker[q])
      BY <1>1, <1>a DEF Ask, BarredOK, QueryTypeOK
    <2>2. \A n \in barred'[q] : ~ CanAccessTable(n, Asker[q])'
      BY <1>b, <2>1 DEF NotReadable
    <2>3. QED
      BY <2>1, <2>2 DEF BarredOK, LimitOK, IndexOK
  <1>2. CASE ReadNames(q)
    <2>1. /\ step'[q] \in {"retrieve_owners", "validate_owners"}
          /\ context'[q] = context[q] /\ barred'[q] = barred[q]
      BY <1>2, <1>a DEF ReadNames, QueryTypeOK
    <2>2. QED
      BY <1>a, <1>d, <2>1 DEF LimitOK, IndexOK
  <1>3. CASE Retrieve(q)
    <2>1. /\ step'[q] = "rank"
          /\ context'[q] = Schema(q) /\ barred'[q] = barred[q]
      BY <1>3, <1>a DEF Retrieve, QueryTypeOK
    <2>2. QED
      BY <1>d, <2>1 DEF LimitOK, IndexOK
  <1>4. CASE Lexical(q) \/ QueryIndex(q)
    <2>1. /\ step'[q] = "generate" /\ barred'[q] = barred[q]
          /\ context'[q] \subseteq context[q]
      BY <1>4, <1>a DEF Lexical, RankLexically, QueryIndex, Fullest, QueryTypeOK
    <2>2. QED
      BY <1>d, <2>1 DEF LimitOK, IndexOK
  <1>5. CASE Upsert(q)
    <2>1. /\ step'[q] = "query_index" /\ barred'[q] = barred[q]
          /\ context'[q] = context[q] /\ context[q] \subseteq index'
      BY <1>5, <1>a DEF Upsert, QueryTypeOK
    <2>2. QED
      BY <1>d, <2>1 DEF LimitOK, IndexOK
  <1>6. CASE Generate(q)
    <2>1. /\ step'[q] = "validate" /\ barred'[q] = barred[q]
          /\ context'[q] = context[q]
      BY <1>6, <1>a DEF Generate, QueryTypeOK
    <2>2. QED
      BY <1>d, <2>1 DEF LimitOK, IndexOK
  <1>7. CASE Validate(q)
    <2>1. /\ barred'[q] = barred[q] /\ context'[q] = context[q]
          /\ step'[q] \in {"failed", "generate", "review", "refused", "execute"}
      BY <1>7, <1>a DEF Validate, QueryTypeOK
    <2>2. CASE step'[q] = "execute"
      <3>1. /\ Known(q, statement[q].table)
            /\ statement[q].limit.kind # "expression"
            /\ statement' = [statement EXCEPT ![q].limit = ApplyRowLimit(@)]
        BY <1>7, <1>a, <2>2 DEF Validate, QueryTypeOK
      <3>2. statement[q] \in AnyStatement
        BY <1>a DEF QueryTypeOK
      <3>3. /\ statement'[q].table = statement[q].table
            /\ statement'[q].limit = ApplyRowLimit(statement[q].limit)
        BY <1>a, <3>1, <3>2 DEF QueryTypeOK, AnyStatement
      <3>4. \/ statement'[q].limit.kind = "literal"
            \/ /\ statement'[q].limit.kind = "integer"
               /\ statement'[q].limit.value <= MaxRowLimit
        BY <3>1, <3>2, <3>3, RowLimitBounds DEF AnyStatement
      <3>5. ASSUME NEW n \in barred[q] \ edited
            PROVE  ~ SameTable(n, statement[q].table) \/ Respelled(n)
        <4>1. n \in Names \ edited /\ ~ CanAccessTable(n, Asker[q])
          BY <1>a, <3>5 DEF BarredOK
        <4>2. QED
          BY <1>a, <3>1, <4>1, KnownIsReadable
      <3>6. BarredOK(q)'
        BY <1>d, <2>1, <2>2, <3>3, <3>5
      <3>7. QED
        BY <2>2, <3>4, <3>6 DEF LimitOK, IndexOK
    <2>3. CASE step'[q] # "execute"
      BY <1>d, <2>1, <2>3 DEF LimitOK, IndexOK
    <2>4. QED
      BY <2>2, <2>3
  <1>8. CASE Review(q)
    <2>1. /\ barred'[q] = barred[q] /\ context'[q] = context[q]
          /\ \/ step'[q] = "refused"
             \/ step'[q] = "execute" /\ approved'[q]
      BY <1>8, <1>a DEF Review, QueryTypeOK
    <2>2. QED
      BY <1>d, <2>1 DEF LimitOK, IndexOK
  <1>9. CASE Execute(q)
    <2>1. /\ barred'[q] = barred[q] /\ context'[q] = context[q]
          /\ approved'[q] = approved[q] /\ statement'[q] = statement[q]
          /\ step[q] = "execute"
          /\ \/ step'[q] = "failed"
             \/ step'[q] = "done" /\ result'[q] = RowsOf(statement[q].limit)
      BY <1>9, <1>a DEF Execute, QueryTypeOK
    <2>2. BarredOK(q)' /\ IndexOK(q)'
      BY <1>a, <1>d, <2>1 DEF BarredOK, IndexOK
    <2>3. ASSUME step'[q] = "done", ~ approved[q],
                 statement[q].limit.kind # "literal"
          PROVE  result'[q] <= MaxRowLimit
      <3>1. /\ statement[q].limit \in Limit
            /\ statement[q].limit.kind = "integer"
            /\ statement[q].limit.value <= MaxRowLimit
        BY <1>a, <2>1, <2>3 DEF LimitOK, QueryTypeOK, AnyStatement
      <3>2. /\ RowsOf(statement[q].limit) \in Nat
            /\ RowsOf(statement[q].limit) <= statement[q].limit.value
            /\ statement[q].limit.value \in Nat /\ MaxRowLimit \in Nat
        BY <3>1, RowsBound, LimitAssumption DEF Limit
      <3>3. QED
        BY <2>1, <2>3, <3>1, <3>2
    <2>4. QED
      BY <2>1, <2>2, <2>3 DEF LimitOK
  <1>10. QED
    BY <1>1, <1>2, <1>3, <1>4, <1>5, <1>6, <1>7, <1>8, <1>9 DEF QueryStep

LEMMA QueryInvStep ==
    IInv /\ QueryInv /\ [QueryNext]_<<vars, queryVars>> => QueryInv'
  <1> SUFFICES ASSUME IInv, QueryInv, [QueryNext]_<<vars, queryVars>>
               PROVE  QueryInv'
    OBVIOUS
  <1>a. TypeOK /\ QueryTypeOK /\ [Next]_vars
    BY HelpersStep DEF QueryInv, IInv
  <1>1. CASE UNCHANGED queryVars
    <2>1. QueryTypeOK'
      BY <1>1, <1>a DEF queryVars, rankerVars, QueryTypeOK
    <2>2. \A p \in Questions : BarredOK(p)' /\ LimitOK(p)' /\ IndexOK(p)'
      BY <1>1, <1>a, BystanderKeeps DEF queryVars, rankerVars
    <2>3. QED
      BY <2>1, <2>2 DEF QueryInv
  <1>2. CASE LoseQuestions
    <2>1. \A p \in Questions : step'[p] \in {step[p], "lost"}
      BY <1>2 DEF LoseQuestions
    <2>2. step' \in [Questions -> Steps] /\ rankerDown' \in BOOLEAN
      BY <1>2, <1>a DEF LoseQuestions, QueryTypeOK, Steps, Ends
    <2>3. QueryTypeOK'
      BY <1>2, <1>a, <2>2 DEF LoseQuestions, QueryTypeOK
    <2>4. \A p \in Questions : BarredOK(p)' /\ LimitOK(p)' /\ IndexOK(p)'
      BY <1>2, <1>a, <2>1, BystanderKeeps DEF LoseQuestions
    <2>5. QED
      BY <2>3, <2>4 DEF QueryInv
  <1>3. ASSUME NEW q \in Questions, QueryStep(q), UNCHANGED vars
        PROVE  QueryInv'
    <2>1. QueryTypeOK'
      BY <1>3, <1>a, QueryStepType
    <2>2. BarredOK(q)' /\ LimitOK(q)' /\ IndexOK(q)'
      BY <1>3, OwnStep
    <2>3. \A p \in Questions \ {q} : BarredOK(p)' /\ LimitOK(p)' /\ IndexOK(p)'
      BY <1>3, <1>a, OthersKeep, BystanderKeeps
    <2>4. QED
      BY <2>1, <2>2, <2>3 DEF QueryInv
  <1>4. QED
    BY <1>1, <1>2, <1>3 DEF QueryNext

LEMMA QueryInvariance == QuerySpec => []QueryInv
  BY QueryInvInit, QueryInvStep, HelpersRun, PTL DEF QuerySpec

---------------------------------------------------------------------------
(* The theorems.                                                           *)

\* However tables are created, dropped and recorded while a question is
\* answered (graph.py:165-169), none that was private to another user or a
\* system table at the start is shown to the model or read without a review,
\* unless its ownership row was written to or it came back in another case.
THEOREM PrivateTablesStayPrivate == QuerySpec => []RecordedTablesStayPrivate
  <1>1. QueryInv => RecordedTablesStayPrivate
    BY DEF QueryInv, BarredOK, RecordedTablesStayPrivate
  <1>2. QED
    BY <1>1, QueryInvariance, PTL

\* apply_row_limit (guardrails.py:91-110) caps every statement that passed,
\* for any limits and any size of the tables, but for literals it cannot read.
THEOREM RowsStayCapped == QuerySpec => []RowsAreCapped
  <1>1. QueryInv => RowsAreCapped
    BY DEF QueryInv, LimitOK, RowsAreCapped
  <1>2. QED
    BY <1>1, QueryInvariance, PTL

\* The hits of one asker are the best TopK of the asker's own tables, whatever
\* other users have put into the collection (semantic_schema.py:83-110).
THEOREM RankingIsUndisturbed == QuerySpec => RankedContextIsFull
  <1>1. QueryInv => [ \A q \in Questions :
            QueryIndex(q) => context'[q] \in Fullest(context[q]) ]_queryVars
    <2> SUFFICES ASSUME QueryInv, NEW q \in Questions, QueryIndex(q)
                 PROVE  context'[q] \in Fullest(context[q])
      OBVIOUS
    <2>1. index \cap context[q] = context[q]
      BY DEF QueryInv, IndexOK, QueryIndex
    <2>2. QED
      BY <2>1 DEF QueryIndex, QueryInv, QueryTypeOK
  <1>2. QED
    BY <1>1, QueryInvariance, PTL DEF QuerySpec, RankedContextIsFull

=============================================================================
