---------------------------- MODULE ValkeyProofs ----------------------------
(***************************************************************************)
(* Type correctness and the safety invariants of Valkey, for any number of *)
(* questions and users, any limit, and any number of outages and restarts. *)
(* Nothing assumes that there are finitely many questions: the sets that   *)
(* are counted stay finite because a question joins them one at a time.    *)
(***************************************************************************)
EXTENDS Valkey, FiniteSetTheorems, TLAPS

---------------------------------------------------------------------------
(* Type correctness.                                                       *)

\* A question's key is a key of the cache, and its user has counters.
LEMMA QuestionTypes ==
  ASSUME NEW q \in Questions
  PROVE  Asker[q] \in Users /\ Key(q) \in Keys
  BY QuestionAssumption DEF Key, Keys

LEMMA IncrementedType ==
  ASSUME TypeOK, NEW q \in Questions
  PROVE  /\ Incremented(q) \in [Users -> [Windows -> Nat]]
         /\ Incremented(q)[Asker[q]][now] = counter[Asker[q]][now] + 1
         /\ \A u \in Users, w \in Windows :
               counter[u][w] <= Incremented(q)[u][w]
  <1>1. /\ Incremented(q) \in [Users -> [Windows -> Nat]]
        /\ Incremented(q)[Asker[q]][now] = counter[Asker[q]][now] + 1
        /\ \A u \in Users, w \in Windows :
              u # Asker[q] \/ w # now => Incremented(q)[u][w] = counter[u][w]
    BY QuestionTypes DEF TypeOK, Incremented
  <1>2. \A u \in Users, w \in Windows : counter[u][w] \in Nat
    BY DEF TypeOK
  <1>3. QED
    BY <1>1, <1>2

LEMMA TypeInit == Init => TypeOK
  <1> SUFFICES ASSUME Init PROVE TypeOK
    OBVIOUS
  <1>1. MaxWindow \in Nat /\ now \in Windows
    BY BoundsAssumption DEF Init, Windows
  <1>2. /\ counter \in [Users -> [Windows -> Nat]]
        /\ entries \in [Keys -> Keys \cup {NoKey}]
        /\ text \in [Questions -> Keys \cup {NoKey}]
        /\ pc \in [Questions -> PCs]
        /\ attempt \in [Questions -> 0 .. MaxAttempts]
        /\ counted \in [Questions -> Windows \cup {NoWindow}]
        /\ repeats \in [Users -> Nat]
    BY DEF Init, PCs, MaxAttempts
  <1>3. QED
    BY <1>1, <1>2 DEF Init, TypeOK

LEMMA TypeStep == TypeOK /\ [Next]_vars => TypeOK'
  <1> SUFFICES ASSUME TypeOK, [Next]_vars PROVE TypeOK'
    OBVIOUS
  <1> USE DEF serverVars, processVars, historyVars
  <1>0. MaxWindow \in Nat
    BY BoundsAssumption
  <1>1. ASSUME NEW q \in Questions, Ask(q) PROVE TypeOK'
    BY <1>1 DEF Ask, Goto, TypeOK, PCs, MaxAttempts
  <1>2. ASSUME NEW q \in Questions, Count(q) PROVE TypeOK'
    <2>1. counter' \in [Users -> [Windows -> Nat]]
      BY <1>2, IncrementedType DEF Count
    <2>2. counted' \in [Questions -> Windows \cup {NoWindow}]
      BY <1>2 DEF Count, TypeOK
    <2>3. pc' \in [Questions -> PCs]
      BY <1>2 DEF Count, Goto, TypeOK, PCs
    <2>4. QED
      BY <1>2, <2>1, <2>2, <2>3 DEF Count, TypeOK
  <1>3. ASSUME NEW q \in Questions, Expire(q) \/ PassGuard(q) \/ Miss(q)
        PROVE  TypeOK'
    BY <1>3 DEF Expire, PassGuard, Miss, Goto, TypeOK, PCs
  <1>4. ASSUME NEW q \in Questions, Resend(q) PROVE TypeOK'
    <2>1. counter' \in [Users -> [Windows -> Nat]]
      BY <1>4, IncrementedType DEF Resend
    <2>2. repeats' \in [Users -> Nat]
      BY <1>4, QuestionTypes DEF Resend, TypeOK
    <2>3. outages' \in Nat
      BY <1>4 DEF Resend, TypeOK
    <2>4. QED
      BY <1>4, <2>1, <2>2, <2>3 DEF Resend, TypeOK
  <1>5. ASSUME NEW q \in Questions, FailOpen(q) PROVE TypeOK'
    BY <1>5 DEF FailOpen, Goto, TypeOK, PCs
  <1>6. ASSUME NEW q \in Questions, RaiseInGuard(q) PROVE TypeOK'
    <2>1. repeats' \in [Users -> Nat]
      BY <1>6, QuestionTypes DEF RaiseInGuard, TypeOK
    <2>2. pc' \in [Questions -> PCs]
      BY <1>6 DEF RaiseInGuard, Goto, TypeOK, PCs
    <2>3. attempt' \in [Questions -> 0 .. MaxAttempts]
      BY <1>6 DEF RaiseInGuard, TypeOK, MaxAttempts
    <2>4. QED
      BY <1>6, <2>1, <2>2, <2>3 DEF RaiseInGuard, TypeOK
  <1>7. ASSUME NEW q \in Questions, Hit(q) \/ CallModel(q) \/ Store(q)
        PROVE  TypeOK'
    BY <1>7, QuestionTypes DEF Hit, CallModel, Store, Goto, TypeOK, PCs, Key
  <1>8. ASSUME NEW q \in Questions, Bypass(q) PROVE TypeOK'
    BY <1>8 DEF Bypass, Goto, TypeOK, PCs
  <1>9. ASSUME NEW k \in Keys, Evict(k) PROVE TypeOK'
    BY <1>9 DEF Evict, TypeOK
  <1>10. CASE Tick
    BY <1>10, <1>0 DEF Tick, TypeOK, Windows
  <1>11. ASSUME Outage \/ Recover PROVE TypeOK'
    <2>1. /\ counter' \in [Users -> [Windows -> Nat]]
          /\ entries' \in [Keys -> Keys \cup {NoKey}]
      BY <1>11 DEF Outage, Recover, TypeOK
    <2>2. outages' \in Nat
      BY <1>11 DEF Outage, Recover, TypeOK
    <2>3. up' \in BOOLEAN
      BY <1>11 DEF Outage, Recover
    <2>4. dataLost' \in BOOLEAN
      BY <1>11 DEF Outage, Recover, TypeOK
    <2>5. QED
      BY <1>11, <2>1, <2>2, <2>3, <2>4 DEF Outage, Recover, TypeOK
  <1>12. CASE Restart
    BY <1>12 DEF Restart, TypeOK, PCs
  <1>13. CASE UNCHANGED vars
    BY <1>13 DEF vars, TypeOK
  <1>14. QED
    BY <1>1, <1>2, <1>3, <1>4, <1>5, <1>6, <1>7, <1>8, <1>9, <1>10, <1>11,
       <1>12, <1>13 DEF Next, Step

\* Every variable of the server, the process and the questions stays in its
\* domain; in particular no question gets a fifth attempt.
THEOREM TypeCorrect == Spec => []TypeOK
  BY TypeInit, TypeStep, PTL DEF Spec

---------------------------------------------------------------------------
(* The cache.                                                              *)

\* TextsAreOwn together with the entries the texts come from.
EntriesAreOwn == \A k \in Keys : entries[k] \in {NoKey, k}

\* A completion never reaches a question with another model or prompt.
THEOREM CompletionsAreOwn == Spec => []TextsAreOwn
  <1> DEFINE Inv == EntriesAreOwn /\ TextsAreOwn
  <1>1. Init => Inv
    BY DEF Init, EntriesAreOwn, TextsAreOwn
  <1>2. TypeOK /\ Inv /\ [Next]_vars => Inv'
    <2> SUFFICES ASSUME TypeOK, Inv, [Next]_vars PROVE Inv'
      OBVIOUS
    <2> USE DEF serverVars, processVars, EntriesAreOwn, TextsAreOwn
    <2>1. ASSUME NEW q \in Questions, Hit(q) \/ CallModel(q) \/ Store(q)
          PROVE  Inv'
      BY <2>1, QuestionTypes DEF Hit, CallModel, Store, TypeOK, Key
    <2>2. ASSUME NEW k \in Keys, Evict(k) PROVE Inv'
      BY <2>2 DEF Evict, TypeOK
    <2>3. CASE Recover
      BY <2>3 DEF Recover, TypeOK
    <2>4. CASE UNCHANGED <<entries, text>>
      BY <2>4
    <2>5. QED
      BY <2>1, <2>2, <2>3, <2>4
         DEF Next, Step, Ask, Count, Expire, Resend, FailOpen, PassGuard,
             RaiseInGuard, Miss, Bypass, Tick, Outage, Restart, vars
  <1>3. QED
    BY TypeCorrect, <1>1, <1>2, PTL DEF Spec

---------------------------------------------------------------------------
(* The limit.                                                              *)

\* What the limiter has let through in window w, with a count.
Admitted(u, w) ==
    {q \in Questions : /\ Asker[q] = u /\ counted[q] = w
                       /\ pc[q] \in {"expire", "guard"} \cup Passed}

\* While the server keeps its data, its counter has seen every one of them.
WindowOK(u, w) ==
    /\ IsFiniteSet(Admitted(u, w))
    /\ Cardinality(Admitted(u, w)) <= counter[u][w]
    /\ Cardinality(Admitted(u, w)) <= Limit

\* A step that admits nobody keeps a window as it was.
LEMMA WindowKept ==
  ASSUME TypeOK, TypeOK', NEW u \in Users, NEW w \in Windows, WindowOK(u, w),
         Admitted(u, w)' \subseteq Admitted(u, w),
         counter[u][w] <= counter'[u][w]
  PROVE  WindowOK(u, w)'
  <1>1. /\ IsFiniteSet(Admitted(u, w)')
        /\ Cardinality(Admitted(u, w)') <= Cardinality(Admitted(u, w))
    BY FS_Subset DEF WindowOK
  <1>2. Cardinality(Admitted(u, w)') \in Nat /\ Cardinality(Admitted(u, w)) \in Nat
    BY <1>1, FS_CardinalityType DEF WindowOK
  <1>3. counter[u][w] \in Nat /\ counter'[u][w] \in Nat /\ Limit \in Nat
    BY LimitAssumption DEF TypeOK
  <1>4. QED
    BY <1>1, <1>2, <1>3 DEF WindowOK

\* Counting a question keeps every window.
LEMMA CountKeepsWindow ==
  ASSUME TypeOK, TypeOK', NEW q \in Questions, Count(q),
         NEW u \in Users, NEW w \in Windows, WindowOK(u, w)
  PROVE  WindowOK(u, w)'
  <1> DEFINE n == counter[Asker[q]][now] + 1
  <1>0. /\ counter' = Incremented(q) /\ counter'[Asker[q]][now] = n
        /\ counted' = [counted EXCEPT ![q] = now]
        /\ pc[q] = "count"
        /\ pc' = [pc EXCEPT ![q] = IF n = 1 THEN "expire"
                                   ELSE IF n <= Limit THEN "guard" ELSE "refused"]
    BY IncrementedType DEF Count, Goto, Allows
  <1>1. counter[u][w] \in Nat /\ counter'[u][w] \in Nat /\ Limit \in Nat \ {0}
        /\ n \in Nat
    BY LimitAssumption, QuestionTypes DEF TypeOK
  <1>2. CASE u = Asker[q] /\ w = now /\ n <= Limit
    <2>1. Admitted(u, w)' \subseteq Admitted(u, w) \cup {q}
      BY <1>0 DEF Admitted, TypeOK
    <2>2. /\ IsFiniteSet(Admitted(u, w) \cup {q})
          /\ Cardinality(Admitted(u, w) \cup {q}) <= Cardinality(Admitted(u, w)) + 1
      <3>1. IsFiniteSet(Admitted(u, w)) /\ Cardinality(Admitted(u, w)) \in Nat
        BY FS_CardinalityType DEF WindowOK
      <3>2. Cardinality(Admitted(u, w) \cup {q})
              = IF q \in Admitted(u, w) THEN Cardinality(Admitted(u, w))
                                        ELSE Cardinality(Admitted(u, w)) + 1
        BY <3>1, FS_AddElement
      <3>3. IsFiniteSet(Admitted(u, w) \cup {q})
        BY <3>1, FS_AddElement
      <3>4. QED
        BY <3>1, <3>2, <3>3
    <2>3. /\ IsFiniteSet(Admitted(u, w)')
          /\ Cardinality(Admitted(u, w)') <= Cardinality(Admitted(u, w) \cup {q})
      BY <2>1, <2>2, FS_Subset
    <2>4. /\ Cardinality(Admitted(u, w)) \in Nat
          /\ Cardinality(Admitted(u, w)') \in Nat
          /\ Cardinality(Admitted(u, w) \cup {q}) \in Nat
      BY <2>2, <2>3, FS_CardinalityType DEF WindowOK
    <2>5. QED
      BY <1>0, <1>1, <1>2, <2>2, <2>3, <2>4 DEF WindowOK
  <1>3. CASE ~ (u = Asker[q] /\ w = now /\ n <= Limit)
    <2>1. q \notin Admitted(u, w)'
      BY <1>0, <1>1, <1>3 DEF Admitted, TypeOK, Passed
    <2>2. Admitted(u, w)' \subseteq Admitted(u, w)
      BY <1>0, <2>1 DEF Admitted, TypeOK
    <2>3. counter[u][w] <= counter'[u][w]
      BY <1>0, <1>1, IncrementedType DEF TypeOK
    <2>4. QED
      BY <2>2, <2>3, WindowKept
  <1>4. QED
    BY <1>2, <1>3

LimitInv == ~ dataLost => \A u \in Users, w \in Windows : WindowOK(u, w)

LEMMA LimitStep == TypeOK /\ TypeOK' /\ LimitInv /\ [Next]_vars => LimitInv'
  <1> SUFFICES ASSUME TypeOK, TypeOK', LimitInv, [Next]_vars, ~ dataLost',
                      NEW u \in Users, NEW w \in Windows
               PROVE  WindowOK(u, w)'
    BY DEF LimitInv
  <1> USE DEF serverVars, processVars, historyVars
  <1>0. WindowOK(u, w)
    BY DEF LimitInv, Next, Ask, Step, Count, Expire, FailOpen, PassGuard, Hit,
           Miss, CallModel, Store, Bypass, Resend, RaiseInGuard, Evict, Tick,
           Outage, Recover, Restart, vars
  <1>1. ASSUME NEW q \in Questions, Count(q) PROVE WindowOK(u, w)'
    BY <1>0, <1>1, CountKeepsWindow
  <1>2. ASSUME NEW q \in Questions, Resend(q) PROVE WindowOK(u, w)'
    <2>1. counter[u][w] <= counter'[u][w]
      BY <1>2, IncrementedType DEF Resend, TypeOK
    <2>2. Admitted(u, w)' \subseteq Admitted(u, w)
      BY <1>2 DEF Resend, Admitted
    <2>3. QED
      BY <1>0, <2>1, <2>2, WindowKept
  <1>3. ASSUME UNCHANGED counter, Admitted(u, w)' \subseteq Admitted(u, w)
        PROVE  WindowOK(u, w)'
    <2>1. counter[u][w] \in Nat
      BY DEF TypeOK
    <2>2. QED
      BY <1>0, <1>3, <2>1, WindowKept
  <1>4. ASSUME NEW q \in Questions, FailOpen(q) PROVE WindowOK(u, w)'
    <2>1. w # NoWindow
      BY BoundsAssumption DEF Windows, NoWindow
    <2>2. Admitted(u, w)' \subseteq Admitted(u, w)
      BY <1>4, <2>1 DEF FailOpen, Goto, Admitted, TypeOK, Passed
    <2>3. QED
      BY <1>3, <1>4, <2>2 DEF FailOpen
  <1>5. ASSUME NEW q \in Questions, Ask(q) \/ RaiseInGuard(q)
        PROVE  WindowOK(u, w)'
    BY <1>3, <1>5 DEF Ask, RaiseInGuard, Goto, Admitted, TypeOK, Passed
  <1>6. ASSUME NEW q \in Questions,
               \/ Expire(q) \/ PassGuard(q) \/ Hit(q) \/ Miss(q)
               \/ CallModel(q) \/ Store(q) \/ Bypass(q)
        PROVE  WindowOK(u, w)'
    BY <1>3, <1>6 DEF Expire, PassGuard, Hit, Miss, CallModel, Store, Bypass,
                      Goto, Admitted, TypeOK, Passed
  <1>7. CASE Restart
    BY <1>3, <1>7 DEF Restart, Admitted, TypeOK, Passed
  <1>8. CASE UNCHANGED <<counter, counted, pc>>
    BY <1>3, <1>8 DEF Admitted
  <1>9. QED
    BY <1>1, <1>2, <1>4, <1>5, <1>6, <1>7, <1>8
       DEF Next, Step, Evict, Tick, Outage, Recover, vars

\* As long as the server keeps its data, no user gets more than Limit counted
\* questions of one window past the limiter, for any limit and any number of
\* threads, retries, lost replies and restarts.
THEOREM LimitHolds == Spec => []AtMostLimit
  <1>1. Init => LimitInv
    <2> SUFFICES ASSUME Init, NEW u \in Users, NEW w \in Windows
                 PROVE  WindowOK(u, w)
      BY DEF LimitInv
    <2>1. Admitted(u, w) = {}
      BY DEF Init, Admitted, Passed
    <2>2. counter[u][w] = 0 /\ Limit \in Nat
      BY LimitAssumption DEF Init
    <2>3. QED
      BY <2>1, <2>2, FS_EmptySet DEF WindowOK
  <1>2. TypeOK /\ LimitInv => AtMostLimit
    <2> SUFFICES ASSUME TypeOK, LimitInv, ~ dataLost,
                        NEW u \in Users, NEW w \in Windows
                 PROVE  Cardinality({q \in Questions :
                            Asker[q] = u /\ pc[q] \in Passed
                                         /\ counted[q] = w}) <= Limit
      BY DEF AtMostLimit
    <2> DEFINE S == {q \in Questions : Asker[q] = u /\ pc[q] \in Passed
                                                    /\ counted[q] = w}
    <2>1. S \subseteq Admitted(u, w) /\ WindowOK(u, w)
      BY DEF Admitted, LimitInv
    <2> HIDE DEF S
    <2>2. /\ IsFiniteSet(S)
          /\ Cardinality(S) <= Cardinality(Admitted(u, w))
      BY <2>1, FS_Subset DEF WindowOK
    <2>3. Cardinality(S) \in Nat /\ Cardinality(Admitted(u, w)) \in Nat
          /\ Limit \in Nat
      BY <2>1, <2>2, FS_CardinalityType, LimitAssumption DEF WindowOK
    <2>4. Cardinality(S) <= Limit
      BY <2>1, <2>2, <2>3 DEF WindowOK
    <2>5. QED
      BY <2>4 DEF S
  <1>3. QED
    BY TypeCorrect, LimitStep, <1>1, <1>2, PTL DEF Spec

---------------------------------------------------------------------------
(* Refusals.                                                               *)

\* The questions of user u that have been asked, and those of them that are
\* not waiting to be counted.
Asked(u) == {q \in Questions : Asker[q] = u /\ attempt[q] > 0}

Accounted(u) == {q \in Asked(u) : pc[q] # "count"}

\* No counter is ahead of the user's own questions and their repetitions.
AccountOK(u) ==
    /\ IsFiniteSet(Asked(u))
    /\ \A w \in Windows :
           counter[u][w] <= Cardinality(Accounted(u)) + repeats[u]
    /\ \A q \in Questions :
           pc[q] = "refused" /\ Asker[q] = u =>
               Cardinality(Asked(u)) + repeats[u] > Limit

IdleOK == \A q \in Questions : pc[q] = "idle" => attempt[q] = 0
AskedOK ==
    \A q \in Questions :
        pc[q] \in {"count", "expire", "guard"} => attempt[q] > 0

RefusalInv == IdleOK /\ AskedOK /\ \A u \in Users : AccountOK(u)

LEMMA AccountedTypes ==
  ASSUME TypeOK, NEW u \in Users, AccountOK(u)
  PROVE  /\ IsFiniteSet(Accounted(u))
         /\ Cardinality(Accounted(u)) \in Nat /\ Cardinality(Asked(u)) \in Nat
         /\ Cardinality(Accounted(u)) <= Cardinality(Asked(u))
         /\ repeats[u] \in Nat /\ \A w \in Windows : counter[u][w] \in Nat
  <1>1. Accounted(u) \subseteq Asked(u) /\ IsFiniteSet(Asked(u))
    BY DEF Accounted, AccountOK
  <1>2. /\ IsFiniteSet(Accounted(u))
        /\ Cardinality(Accounted(u)) <= Cardinality(Asked(u))
    BY <1>1, FS_Subset
  <1>3. Cardinality(Accounted(u)) \in Nat /\ Cardinality(Asked(u)) \in Nat
    BY <1>1, <1>2, FS_CardinalityType
  <1>4. QED
    BY <1>2, <1>3 DEF TypeOK

\* The account of a user stays right when questions are only added to it and
\* neither counters nor refusals are.
LEMMA AccountKept ==
  ASSUME TypeOK, TypeOK', NEW u \in Users, AccountOK(u),
         Asked(u)' = Asked(u), Accounted(u) \subseteq Accounted(u)',
         repeats'[u] >= repeats[u],
         \A w \in Windows : counter'[u][w] <= counter[u][w],
         \A q \in Questions :
             pc'[q] = "refused" /\ Asker[q] = u => pc[q] = "refused"
  PROVE  AccountOK(u)'
  <1>1. IsFiniteSet(Accounted(u)')
    <2>1. Accounted(u)' \subseteq Asked(u)' /\ IsFiniteSet(Asked(u)')
      BY DEF Accounted, AccountOK
    <2>2. QED
      BY <2>1, FS_Subset
  <1>2. Cardinality(Accounted(u)) <= Cardinality(Accounted(u)')
    BY <1>1, FS_Subset
  <1>3. Cardinality(Accounted(u)') \in Nat
    BY <1>1, FS_CardinalityType
  <1>4. /\ repeats[u] \in Nat /\ repeats'[u] \in Nat /\ Limit \in Nat
        /\ \A w \in Windows : counter[u][w] \in Nat /\ counter'[u][w] \in Nat
    BY LimitAssumption DEF TypeOK
  <1>5. \A w \in Windows :
            counter'[u][w] <= Cardinality(Accounted(u)') + repeats'[u]
    BY <1>2, <1>3, <1>4, AccountedTypes DEF AccountOK
  <1>6. ASSUME NEW q \in Questions, pc'[q] = "refused", Asker[q] = u
        PROVE  Cardinality(Asked(u)') + repeats'[u] > Limit
    BY <1>4, <1>6, AccountedTypes DEF AccountOK
  <1>7. QED
    BY <1>5, <1>6 DEF AccountOK

\* Asking, counting, and raising before the next count, for their own user.
LEMMA AskAccount ==
  ASSUME TypeOK, TypeOK', NEW q \in Questions, Ask(q), IdleOK,
         NEW u \in Users, AccountOK(u)
  PROVE  AccountOK(u)'
  <1> USE DEF serverVars, historyVars
  <1>0. /\ pc[q] = "idle" /\ attempt[q] = 0
        /\ pc' = [pc EXCEPT ![q] = "count"]
        /\ attempt' = [attempt EXCEPT ![q] = 1]
        /\ UNCHANGED <<counter, repeats>>
    BY DEF Ask, Goto, IdleOK
  <1>1. Accounted(u)' = Accounted(u)
    BY <1>0 DEF Accounted, Asked, TypeOK
  <1>2. CASE Asker[q] = u
    <2>1. Asked(u)' = Asked(u) \cup {q}
      BY <1>0, <1>2 DEF Asked, TypeOK
    <2>2. /\ IsFiniteSet(Asked(u)) /\ IsFiniteSet(Asked(u)')
          /\ Cardinality(Asked(u)) <= Cardinality(Asked(u)')
      <3>1. IsFiniteSet(Asked(u)')
        BY <2>1, FS_AddElement DEF AccountOK
      <3>2. QED
        BY <2>1, <3>1, FS_Subset DEF AccountOK
    <2>3. Cardinality(Asked(u)) \in Nat /\ Cardinality(Asked(u)') \in Nat
          /\ repeats[u] \in Nat /\ Limit \in Nat
      BY <2>2, FS_CardinalityType, LimitAssumption DEF TypeOK
    <2>4. \A p \in Questions : pc'[p] = "refused" => pc[p] = "refused"
      BY <1>0 DEF TypeOK
    <2>5. QED
      BY <1>0, <1>1, <2>2, <2>3, <2>4 DEF AccountOK
  <1>3. CASE Asker[q] # u
    <2>1. Asked(u)' = Asked(u)
      BY <1>0, <1>3 DEF Asked, TypeOK
    <2>2. repeats[u] \in Nat /\ \A w \in Windows : counter[u][w] \in Nat
      BY DEF TypeOK
    <2>3. \A p \in Questions : pc'[p] = "refused" => pc[p] = "refused"
      BY <1>0 DEF TypeOK
    <2>4. QED
      BY <1>0, <1>1, <2>1, <2>2, <2>3, AccountKept
  <1>4. QED
    BY <1>2, <1>3

LEMMA CountAccount ==
  ASSUME TypeOK, TypeOK', NEW q \in Questions, Count(q), AskedOK,
         NEW u \in Users, AccountOK(u)
  PROVE  AccountOK(u)'
  <1> DEFINE n == counter[Asker[q]][now] + 1
  <1>0. /\ counter' = Incremented(q) /\ counter'[Asker[q]][now] = n
        /\ pc[q] = "count" /\ attempt[q] > 0
        /\ pc' = [pc EXCEPT ![q] = IF n = 1 THEN "expire"
                                   ELSE IF n <= Limit THEN "guard" ELSE "refused"]
        /\ UNCHANGED <<attempt, repeats>>
    BY IncrementedType DEF Count, Goto, Allows, AskedOK
  <1>1. Asked(u)' = Asked(u) /\ now \in Windows
    BY <1>0 DEF Asked, TypeOK
  <1>2. CASE Asker[q] = u
    <2>1. q \in Asked(u) /\ q \notin Accounted(u)
      BY <1>0, <1>2 DEF Asked, Accounted
    <2>2. Accounted(u)' = Accounted(u) \cup {q}
      BY <1>0, <1>1, <2>1 DEF Accounted, TypeOK
    <2>3. IsFiniteSet(Accounted(u)) /\ Cardinality(Accounted(u)) \in Nat
      BY AccountedTypes
    <2>4. Cardinality(Accounted(u)') = Cardinality(Accounted(u)) + 1
      BY <2>1, <2>2, <2>3, FS_AddElement
    <2>5. Cardinality(Accounted(u)') <= Cardinality(Asked(u))
      <3>1. Accounted(u)' \subseteq Asked(u) /\ IsFiniteSet(Asked(u))
        BY <1>1 DEF Accounted, AccountOK
      <3>2. QED
        BY <3>1, FS_Subset
    <2>6. /\ repeats[u] \in Nat /\ Limit \in Nat /\ n \in Nat
          /\ \A w \in Windows : counter[u][w] \in Nat /\ counter'[u][w] \in Nat
      BY <1>2, LimitAssumption, QuestionTypes DEF TypeOK
    <2>7. \A w \in Windows : counter'[u][w] <= counter[u][w] + 1
      <3>1. ASSUME NEW w \in Windows, w # now
            PROVE  counter'[u][w] = counter[u][w]
        BY <1>0, <3>1, QuestionTypes DEF Incremented, TypeOK
      <3>2. QED
        BY <1>0, <1>2, <2>6, <3>1
    <2>8. \A w \in Windows :
              counter'[u][w] <= Cardinality(Accounted(u)') + repeats[u]
      BY <2>3, <2>4, <2>6, <2>7 DEF AccountOK
    <2>9. ASSUME NEW p \in Questions, pc'[p] = "refused", Asker[p] = u
          PROVE  Cardinality(Asked(u)) + repeats[u] > Limit
      <3>1. CASE p # q
        BY <1>0, <2>9, <3>1 DEF AccountOK, TypeOK
      <3>2. CASE p = q
        <4>1. n > Limit /\ counter'[u][now] = n
          BY <1>0, <1>2, <2>6, <2>9, <3>2 DEF TypeOK
        <4>2. n <= Cardinality(Accounted(u)') + repeats[u]
          BY <1>1, <2>8, <4>1
        <4>3. Cardinality(Asked(u)) \in Nat
          BY AccountedTypes
        <4>4. QED
          BY <2>3, <2>4, <2>5, <2>6, <4>1, <4>2, <4>3
      <3>3. QED
        BY <3>1, <3>2
    <2>10. QED
      BY <1>0, <1>1, <2>8, <2>9 DEF AccountOK
  <1>3. CASE Asker[q] # u
    <2>1. Accounted(u)' = Accounted(u)
      BY <1>0, <1>1, <1>3 DEF Accounted, Asked, TypeOK
    <2>2. \A w \in Windows : counter'[u][w] = counter[u][w]
      BY <1>0, <1>3, QuestionTypes DEF Incremented, TypeOK
    <2>3. repeats[u] \in Nat /\ \A w \in Windows : counter[u][w] \in Nat
      BY DEF TypeOK
    <2>4. \A p \in Questions :
              pc'[p] = "refused" /\ Asker[p] = u => pc[p] = "refused"
      BY <1>0, <1>3 DEF TypeOK
    <2>5. QED
      BY <1>0, <1>1, <2>1, <2>2, <2>3, <2>4, AccountKept
  <1>4. QED
    BY <1>2, <1>3

LEMMA RepeatAccount ==
  ASSUME TypeOK, TypeOK', NEW q \in Questions, Resend(q) \/ RaiseInGuard(q),
         AskedOK, NEW u \in Users, AccountOK(u)
  PROVE  AccountOK(u)'
  <1> USE DEF serverVars, processVars
  <1>0. repeats' = [repeats EXCEPT ![Asker[q]] = @ + 1]
    BY DEF Resend, RaiseInGuard
  <1>1. Asked(u)' = Asked(u)
    <2>1. attempt[q] > 0
      BY DEF AskedOK, Resend, RaiseInGuard
    <2>2. \A p \in Questions : attempt'[p] > 0 <=> attempt[p] > 0
      BY <2>1 DEF Resend, RaiseInGuard, TypeOK
    <2>3. QED
      BY <2>2 DEF Asked
  <1>2. \A p \in Questions : pc'[p] = "refused" => pc[p] = "refused"
    BY DEF Resend, RaiseInGuard, Goto, TypeOK
  <1>3. /\ Cardinality(Asked(u)) \in Nat /\ Limit \in Nat
        /\ repeats[u] \in Nat
        /\ \A w \in Windows : counter[u][w] \in Nat /\ counter'[u][w] \in Nat
    BY AccountedTypes, LimitAssumption DEF TypeOK
  <1>4. CASE Asker[q] = u
    <2>1. repeats'[u] = repeats[u] + 1
      BY <1>0, <1>4 DEF TypeOK
    <2>2. \A w \in Windows :
              counter'[u][w] <= Cardinality(Accounted(u)') + repeats'[u]
      <3>1. CASE Resend(q)
        <4>1. Accounted(u)' = Accounted(u)
          BY <1>1, <3>1 DEF Accounted, Resend
        <4>2. \A w \in Windows : counter'[u][w] <= counter[u][w] + 1
          <5>1. ASSUME NEW w \in Windows, w # now
                PROVE  counter'[u][w] = counter[u][w]
            BY <3>1, <5>1, QuestionTypes DEF Resend, Incremented, TypeOK
          <5>2. counter'[u][now] = counter[u][now] + 1
            BY <1>4, <3>1, IncrementedType DEF Resend
          <5>3. QED
            BY <1>3, <5>1, <5>2
        <4>3. Cardinality(Accounted(u)) \in Nat
          BY AccountedTypes
        <4>4. QED
          BY <1>3, <2>1, <4>1, <4>2, <4>3 DEF AccountOK
      <3>2. CASE RaiseInGuard(q)
        <4>1. /\ Accounted(u)' \subseteq Accounted(u)
              /\ Accounted(u) \subseteq Accounted(u)' \cup {q}
          <5>1. /\ pc[q] = "guard" /\ \A p \in Questions \ {q} : pc'[p] = pc[p]
            BY <3>2 DEF RaiseInGuard, Goto, TypeOK
          <5>2. QED
            BY <1>1, <5>1 DEF Accounted, Asked
        <4>2. IsFiniteSet(Accounted(u)) /\ Cardinality(Accounted(u)) \in Nat
          BY AccountedTypes
        <4>3. IsFiniteSet(Accounted(u)') /\ Cardinality(Accounted(u)') \in Nat
          BY <4>1, <4>2, FS_Subset, FS_CardinalityType
        <4>4. /\ IsFiniteSet(Accounted(u)' \cup {q})
              /\ Cardinality(Accounted(u)' \cup {q})
                   = IF q \in Accounted(u)' THEN Cardinality(Accounted(u)')
                     ELSE Cardinality(Accounted(u)') + 1
          BY <4>3, FS_AddElement
        <4>5. Cardinality(Accounted(u)) <= Cardinality(Accounted(u)' \cup {q})
          BY <4>1, <4>4, FS_Subset
        <4>6. Cardinality(Accounted(u)) <= Cardinality(Accounted(u)') + 1
          BY <4>2, <4>3, <4>4, <4>5
        <4>7. counter' = counter
          BY <3>2 DEF RaiseInGuard
        <4>8. QED
          BY <1>3, <2>1, <4>2, <4>3, <4>6, <4>7 DEF AccountOK
      <3>3. QED
        BY <3>1, <3>2
    <2>3. QED
      BY <1>1, <1>2, <1>3, <2>1, <2>2 DEF AccountOK
  <1>5. CASE Asker[q] # u
    <2>1. Accounted(u)' = Accounted(u)
      BY <1>1, <1>5
         DEF Accounted, Asked, Resend, RaiseInGuard, Goto, TypeOK
    <2>2. repeats'[u] = repeats[u]
      BY <1>0, <1>5 DEF TypeOK
    <2>3. \A w \in Windows : counter'[u][w] = counter[u][w]
      BY <1>5, QuestionTypes DEF Resend, RaiseInGuard, Incremented, TypeOK
    <2>4. QED
      BY <1>1, <1>2, <1>3, <2>1, <2>2, <2>3, AccountKept
  <1>6. QED
    BY <1>4, <1>5

LEMMA RefusalStep == TypeOK /\ TypeOK' /\ RefusalInv /\ [Next]_vars => RefusalInv'
  <1> SUFFICES ASSUME TypeOK, TypeOK', RefusalInv, [Next]_vars
               PROVE  RefusalInv'
    OBVIOUS
  <1> USE DEF serverVars, processVars, historyVars
  <1>1. IdleOK' /\ AskedOK'
    BY DEF RefusalInv, IdleOK, AskedOK, TypeOK, Goto, MaxAttempts, Next, Step,
           Ask, Count, Expire, Resend, FailOpen, PassGuard, RaiseInGuard, Hit,
           Miss, CallModel, Store, Bypass, Evict, Tick, Outage, Recover,
           Restart, vars
  <1>2. SUFFICES ASSUME NEW u \in Users PROVE AccountOK(u)'
    BY <1>1 DEF RefusalInv
  <1>3. AccountOK(u) /\ IdleOK /\ AskedOK
    BY DEF RefusalInv
  <1>4. ASSUME NEW q \in Questions, Ask(q) PROVE AccountOK(u)'
    BY <1>3, <1>4, AskAccount
  <1>5. ASSUME NEW q \in Questions, Count(q) PROVE AccountOK(u)'
    BY <1>3, <1>5, CountAccount
  <1>6. ASSUME NEW q \in Questions, Resend(q) \/ RaiseInGuard(q)
        PROVE  AccountOK(u)'
    BY <1>3, <1>6, RepeatAccount
  <1>7. ASSUME UNCHANGED <<attempt, repeats>>,
               counter' = counter
                 \/ counter' = [v \in Users |-> [w \in Windows |-> 0]],
               \A q \in Questions :
                   /\ pc'[q] = "refused" => pc[q] = "refused"
                   /\ pc'[q] = "count" => pc[q] = "count"
        PROVE  AccountOK(u)'
    <2>1. Asked(u)' = Asked(u)
      BY <1>7 DEF Asked
    <2>2. Accounted(u) \subseteq Accounted(u)'
      BY <1>7, <2>1 DEF Accounted, Asked
    <2>3. /\ repeats[u] \in Nat
          /\ \A w \in Windows : counter[u][w] \in Nat
          /\ \A w \in Windows : counter'[u][w] <= counter[u][w]
      BY <1>7 DEF TypeOK
    <2>4. QED
      BY <1>3, <1>7, <2>1, <2>2, <2>3, AccountKept
  <1>8. ASSUME NEW q \in Questions,
               \/ Expire(q) \/ FailOpen(q) \/ PassGuard(q) \/ Hit(q) \/ Miss(q)
               \/ CallModel(q) \/ Store(q) \/ Bypass(q)
        PROVE  AccountOK(u)'
    BY <1>7, <1>8 DEF Expire, FailOpen, PassGuard, Hit, Miss, CallModel, Store,
                      Bypass, Goto, TypeOK
  <1>9. CASE Recover \/ Restart
    BY <1>7, <1>9 DEF Recover, Restart, TypeOK
  <1>10. CASE UNCHANGED <<attempt, repeats, counter, pc>>
    BY <1>7, <1>10
  <1>11. QED
    BY <1>4, <1>5, <1>6, <1>8, <1>9, <1>10
       DEF Next, Step, Evict, Tick, Outage, vars

\* A user who is told of the limit has exceeded it, whatever other users ask:
\* for any limit and any number of threads, retries and lost replies.
THEOREM RefusalsHold == Spec => []RefusalsAreOwn
  <1>1. Init => RefusalInv
    <2> SUFFICES ASSUME Init PROVE RefusalInv
      OBVIOUS
    <2>1. \A u \in Users : Asked(u) = {} /\ Accounted(u) = {}
      BY DEF Init, Asked, Accounted
    <2>2. QED
      BY <2>1, FS_EmptySet DEF Init, RefusalInv, IdleOK, AskedOK, AccountOK
  <1>2. RefusalInv => RefusalsAreOwn
    BY QuestionTypes DEF RefusalInv, AccountOK, RefusalsAreOwn, Asked
  <1>3. QED
    BY TypeCorrect, RefusalStep, <1>1, <1>2, PTL DEF Spec

=============================================================================
