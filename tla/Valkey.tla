------------------------------ MODULE Valkey ------------------------------
(***************************************************************************)
(* The two clients of the Valkey server: check_rate_limit, called by       *)
(* input_guard, and the LLM cache around the model call of a node.  The    *)
(* questions of all sessions run in threads of one process and share its   *)
(* two _unavailable flags; the counters and entries are in the server.     *)
(*                                                                         *)
(* A question goes through input_guard, which resilient_node retries from  *)
(* its first line, and then through one node with a cached model call.     *)
(***************************************************************************)
EXTENDS Naturals, FiniteSets

CONSTANTS
    Questions, Users, Asker, \* the questions and who asks them
    Models, Prompts,         \* what the cache key is made of, per question
    ModelOf, PromptOf,
    Limit,                   \* rate_limit_per_minute
    MaxWindow,               \* bound on the minute windows
    Fragile,                 \* bound: questions check_input or mask_text raise on
    MaxOutages, MaxRestarts  \* bounds on lost replies and outages, on restarts

ASSUME QuestionAssumption ==
    /\ Asker \in [Questions -> Users]
    /\ ModelOf \in [Questions -> Models] /\ PromptOf \in [Questions -> Prompts]
ASSUME LimitAssumption == Limit \in Nat \ {0}
ASSUME BoundsAssumption ==
    Fragile \subseteq Questions /\ {MaxWindow, MaxOutages, MaxRestarts} \subseteq Nat

VARIABLES
    counter, \* server: ratelimit:<user>:<window>
    entries, \* server: the cache entries, by key
    up,      \* the server answers
    now,     \* the minute window
    limiting, caching, \* ~ _unavailable, of rate_limit.py and of cache.py
    pc, attempt,       \* each question's next call; attempts at input_guard
    text,              \* the completion the question's node works with,
                       \* named by the key it was made for
    outages, restarts

VARIABLES
    counted,  \* history: the window of a question's latest count
    repeats,  \* history: a user's increments beyond one per question
    dataLost  \* history: the server has come back empty

serverVars  == <<counter, entries, up, now, outages>>
processVars == <<limiting, caching, restarts>>
historyVars == <<counted, repeats, dataLost>>
vars == <<serverVars, processVars, pc, attempt, text, historyVars>>

MaxAttempts == 4

Windows == 0 .. MaxWindow
NoWindow == MaxWindow + 1
Keys == Models \X Prompts
NoKey == <<>>

PCs == {"idle", "count", "expire", "guard", "get", "model", "set",
        "answered", "refused", "failed", "gone"}

Init ==
    /\ counter = [u \in Users |-> [w \in Windows |-> 0]]
    /\ entries = [k \in Keys |-> NoKey]
    /\ up = TRUE /\ now = 0
    /\ limiting = TRUE /\ caching = TRUE
    /\ pc = [q \in Questions |-> "idle"]
    /\ attempt = [q \in Questions |-> 0]
    /\ text = [q \in Questions |-> NoKey]
    /\ outages = 0 /\ restarts = 0
    /\ counted = [q \in Questions |-> NoWindow]
    /\ repeats = [u \in Users |-> 0]
    /\ dataLost = FALSE

Goto(q, label) == pc' = [pc EXCEPT ![q] = label]

---------------------------------------------------------------------------
(* rate_limit.py and the rest of input_guard.                              *)

Ask(q) ==
    /\ pc[q] = "idle"
    /\ Goto(q, "count")
    /\ attempt' = [attempt EXCEPT ![q] = 1]
    /\ UNCHANGED <<serverVars, processVars, text, historyVars>>

\* Mutant: the key does not name the user.
CounterOfAll(q) == [u \in Users |-> [counter[u] EXCEPT ![now] = @ + 1]]

Incremented(q) == [counter EXCEPT ![Asker[q]][now] = @ + 1]

\* Mutant: the limit is passed by one.
AllowsOneMore(count) == count <= Limit + 1

Allows(count) == count <= Limit

Count(q) ==
    /\ pc[q] = "count" /\ limiting /\ up
    /\ counter' = Incremented(q)
    /\ LET count == counter'[Asker[q]][now] IN
       Goto(q, IF count = 1 THEN "expire"
               ELSE IF Allows(count) THEN "guard" ELSE "refused")
    /\ counted' = [counted EXCEPT ![q] = now]
    /\ UNCHANGED <<entries, up, now, outages, processVars, attempt, text,
                   repeats, dataLost>>

\* The expiry only clears counters of windows that are over.
Expire(q) ==
    /\ pc[q] = "expire" /\ up
    /\ Goto(q, "guard")
    /\ UNCHANGED <<serverVars, processVars, attempt, text, historyVars>>

\* The increment is done, its answer is lost: the client library sends again.
Resend(q) ==
    /\ pc[q] = "count" /\ limiting /\ up /\ outages < MaxOutages
    /\ counter' = Incremented(q)
    /\ outages' = outages + 1
    /\ repeats' = [repeats EXCEPT ![Asker[q]] = @ + 1]
    /\ UNCHANGED <<entries, up, now, processVars, pc, attempt, text,
                   counted, dataLost>>

\* Mutant: an error of the server sends the question back to the limiter.
TryAgain(q) ==
    /\ pc[q] \in {"count", "expire"}
    /\ ~ up \/ (pc[q] = "count" /\ ~ limiting)
    /\ Goto(q, IF limiting THEN "count" ELSE "guard")
    /\ UNCHANGED <<serverVars, processVars, attempt, text, historyVars>>

\* A RedisError, or the flag one has left: the question is allowed.
FailOpen(q) ==
    /\ pc[q] \in {"count", "expire"}
    /\ ~ up \/ (pc[q] = "count" /\ ~ limiting)
    /\ limiting' = FALSE
    /\ Goto(q, "guard")
    /\ counted' = [counted EXCEPT ![q] = IF pc[q] = "count" THEN NoWindow ELSE @]
    /\ UNCHANGED <<serverVars, caching, restarts, attempt, text, repeats,
                   dataLost>>

\* check_input and mask_text return.
PassGuard(q) ==
    /\ pc[q] = "guard"
    /\ Goto(q, "get")
    /\ UNCHANGED <<serverVars, processVars, attempt, text, historyVars>>

\* Mutant: one attempt too many.
RaiseOnceMore(q) ==
    /\ pc[q] = "guard" /\ q \in Fragile
    /\ repeats' = [repeats EXCEPT ![Asker[q]] = @ + 1]
    /\ IF attempt[q] <= MaxAttempts
       THEN /\ attempt' = [attempt EXCEPT ![q] = @ + 1]
            /\ Goto(q, "count")
       ELSE /\ Goto(q, "failed")
            /\ UNCHANGED attempt
    /\ UNCHANGED <<serverVars, processVars, text, counted, dataLost>>

\* They raise: the next attempt starts with the limiter again.
RaiseInGuard(q) ==
    /\ pc[q] = "guard" /\ q \in Fragile
    /\ repeats' = [repeats EXCEPT ![Asker[q]] = @ + 1]
    /\ IF attempt[q] < MaxAttempts
       THEN /\ attempt' = [attempt EXCEPT ![q] = @ + 1]
            /\ Goto(q, "count")
       ELSE /\ Goto(q, "failed")
            /\ UNCHANGED attempt
    /\ UNCHANGED <<serverVars, processVars, text, counted,
                   dataLost>>

---------------------------------------------------------------------------
(* cache.py around a model call.                                           *)

\* Mutant: the key leaves out the model name.
KeyOfPrompt(q) == <<CHOOSE m \in Models : TRUE, PromptOf[q]>>

Key(q) == <<ModelOf[q], PromptOf[q]>>

Hit(q) ==
    /\ pc[q] = "get" /\ caching /\ up
    /\ entries[Key(q)] # NoKey
    /\ text' = [text EXCEPT ![q] = entries[Key(q)]]
    /\ Goto(q, "answered")
    /\ UNCHANGED <<serverVars, processVars, attempt, historyVars>>

Miss(q) ==
    /\ pc[q] = "get" /\ caching /\ up
    /\ entries[Key(q)] = NoKey
    /\ Goto(q, "model")
    /\ UNCHANGED <<serverVars, processVars, attempt, text, historyVars>>

CallModel(q) ==
    /\ pc[q] = "model"
    /\ text' = [text EXCEPT ![q] = <<ModelOf[q], PromptOf[q]>>]
    /\ Goto(q, "set")
    /\ UNCHANGED <<serverVars, processVars, attempt, historyVars>>

Store(q) ==
    /\ pc[q] = "set" /\ caching /\ up
    /\ entries' = [entries EXCEPT ![Key(q)] = text[q]]
    /\ Goto(q, "answered")
    /\ UNCHANGED <<counter, up, now, outages, processVars, attempt, text,
                   historyVars>>

\* A RedisError, or the flag one has left: a miss, or nothing stored.
Bypass(q) ==
    /\ pc[q] \in {"get", "set"}
    /\ ~ up \/ ~ caching
    /\ caching' = FALSE
    /\ Goto(q, IF pc[q] = "get" THEN "model" ELSE "answered")
    /\ UNCHANGED <<serverVars, limiting, restarts, attempt, text, historyVars>>

Step(q) ==
    \/ Count(q) \/ Expire(q) \/ FailOpen(q) \/ PassGuard(q)
    \/ Hit(q) \/ Miss(q) \/ CallModel(q) \/ Store(q) \/ Bypass(q)

---------------------------------------------------------------------------
(* The server and the process.                                             *)

Tick ==
    /\ now < MaxWindow
    /\ now' = now + 1
    /\ UNCHANGED <<counter, entries, up, outages, processVars, pc, attempt,
                   text, historyVars>>

\* The TTL has passed, or the server needs room.
Evict(k) ==
    /\ entries[k] # NoKey
    /\ entries' = [entries EXCEPT ![k] = NoKey]
    /\ UNCHANGED <<counter, up, now, outages, processVars, pc, attempt, text,
                   historyVars>>

Outage ==
    /\ up /\ outages < MaxOutages
    /\ up' = FALSE /\ outages' = outages + 1
    /\ UNCHANGED <<counter, entries, now, processVars, pc, attempt, text,
                   historyVars>>

\* The server is back, with or without its data.
Recover ==
    /\ ~ up
    /\ up' = TRUE
    /\ \/ UNCHANGED <<counter, entries, dataLost>>
       \/ /\ counter' = [u \in Users |-> [w \in Windows |-> 0]]
          /\ entries' = [k \in Keys |-> NoKey]
          /\ dataLost' = TRUE
    /\ UNCHANGED <<now, outages, processVars, pc, attempt, text, counted,
                   repeats>>

\* Mutant: a restart empties the counters, as if they were the process's.
RestartAll ==
    /\ restarts < MaxRestarts
    /\ restarts' = restarts + 1
    /\ limiting' = TRUE /\ caching' = TRUE
    /\ counter' = [u \in Users |-> [w \in Windows |-> 0]]
    /\ pc' = [q \in Questions |->
                 IF pc[q] \in {"idle", "answered", "refused", "failed"}
                 THEN pc[q] ELSE "gone"]
    /\ UNCHANGED <<entries, up, now, outages, attempt, text, historyVars>>

\* The flags are the process's; questions under way are lost with it.
Restart ==
    /\ restarts < MaxRestarts
    /\ restarts' = restarts + 1
    /\ limiting' = TRUE /\ caching' = TRUE
    /\ pc' = [q \in Questions |->
                 IF pc[q] \in {"idle", "answered", "refused", "failed"}
                 THEN pc[q] ELSE "gone"]
    /\ UNCHANGED <<serverVars, attempt, text, historyVars>>

Next ==
    \/ \E q \in Questions : Ask(q) \/ Step(q) \/ Resend(q) \/ RaiseInGuard(q)
    \/ \E k \in Keys : Evict(k)
    \/ Tick \/ Outage \/ Recover \/ Restart

\* A thread goes on with its question: the calls of the two clients end by
\* their socket timeouts (0.5 s).  The model call has no timeout, and nobody
\* has to ask; the server has to neither fail nor recover.
Spec == /\ Init /\ [][Next]_vars
        /\ \A q \in Questions : WF_vars(pc[q] # "model" /\ Step(q))

---------------------------------------------------------------------------
(* Properties.                                                             *)

Passed == {"get", "model", "set", "answered"}

\* Every variable stays in its domain.
TypeOK ==
    /\ counter \in [Users -> [Windows -> Nat]]
    /\ entries \in [Keys -> Keys \cup {NoKey}]
    /\ text \in [Questions -> Keys \cup {NoKey}]
    /\ up \in BOOLEAN /\ limiting \in BOOLEAN
    /\ caching \in BOOLEAN /\ dataLost \in BOOLEAN
    /\ now \in Windows
    /\ pc \in [Questions -> PCs]
    /\ attempt \in [Questions -> 0 .. MaxAttempts]
    /\ outages \in Nat /\ restarts \in Nat
    /\ counted \in [Questions -> Windows \cup {NoWindow}]
    /\ repeats \in [Users -> Nat]

\* The fixed window holds (rate_limit.py:1): unless the server has lost its
\* data, a user gets at most Limit of the questions counted in one window past
\* the limiter, however threads interleave, inputs are retried and the process
\* restarts.  What fails open is not counted.
AtMostLimit ==
    ~ dataLost =>
        \A u \in Users, w \in Windows :
            Cardinality({q \in Questions :
                Asker[q] = u /\ pc[q] \in Passed /\ counted[q] = w}) <= Limit

\* A user is told of the limit only when the user's own questions exceed it,
\* each counted again for every attempt that raised and every lost reply.
RefusalsAreOwn ==
    \A q \in Questions :
        pc[q] = "refused" =>
            LET u == Asker[q] IN
            Cardinality({p \in Questions :
                Asker[p] = u /\ attempt[p] > 0}) + repeats[u] > Limit

\* A completion is used for the model and the prompt it was made for, also
\* when several sessions fill and read the cache at once (cache.py:33-37).
TextsAreOwn ==
    \A q \in Questions : text[q] \in {NoKey, <<ModelOf[q], PromptOf[q]>>}

\* An outage degrades "to 'unlimited' rather than 'broken'"
\* (rate_limit.py:3-5), and the cache is a miss: no question waits for the
\* server, at whatever call it goes away.  What a question may wait for is the
\* model's answer, before and after which the clients are called.
QuestionsEnd ==
    \A q \in Questions :
        pc[q] \in {"count", "set"} ~>
            pc[q] \in {"model", "answered", "refused", "failed", "gone"}
============================================================================
