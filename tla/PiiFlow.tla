------------------------------ MODULE PiiFlow ------------------------------
(***************************************************************************)
(* Where values that identify a person go: from a question and its rows    *)
(* through mask_text and the vault into the prompts of the models, from a  *)
(* completion, which the LLM cache shares between all runs, through        *)
(* check_output and unmask_text into the answer, and from the chat into    *)
(* the running summary of summarize_if_needed.                             *)
(*                                                                         *)
(* A text is a sequence of values and tokens; the words between them are   *)
(* left out.  Structured values are found by a regular expression, Named   *)
(* ones by Presidio, which may be missing or fail at any call.             *)
(***************************************************************************)
EXTENDS Naturals, FiniteSets, Sequences

CONSTANTS
    Turns, Sessions,   \* runs of the graph, and the chats they are asked in
    SessionOf,
    Structured, Named, \* the values
    Unset,
    Question,          \* user_query_raw, by turn
    RowTexts,          \* bound: results a turn's statement may have
    MaxTokens,         \* bound on the tokens of one entity in one text
    CriticEnabled,     \* AGENTIC_CRITIC_ENABLED
    KeepLast,          \* keep_last, in messages
    MaxRestarts        \* bound

Values == Structured \cup Named
Tokens == {"email", "name"} \X (1 .. MaxTokens)

ASSUME TurnAssumption ==
    SessionOf \in [Turns -> Sessions] /\ Turns \cap {"idle", "append", "fold"} = {}

\* No pattern matches a token: "<<PII_EMAIL_1>>" is no value.
ASSUME ValueAssumption ==
    /\ Structured \cap Named = {} /\ Unset \notin Values
    /\ Values \cap Tokens = {}
ASSUME TextAssumption ==
    \A t \in Turns : \A text \in {Question[t]} \cup RowTexts[t] :
        text \in Seq(Values) /\ Len(text) <= MaxTokens
ASSUME BoundAssumption ==
    /\ KeepLast \in Nat \ {0} /\ {MaxTokens, MaxRestarts} \subseteq Nat
    /\ CriticEnabled \in BOOLEAN

VARIABLES
    pc,       \* the next operation of each turn
    masked,   \* user_query_masked
    rows,     \* execution_result
    prompt,   \* the masked question and rows of response_formatter's prompt
    draft,    \* answer_masked
    shown,    \* final_answer, as far as it is made of values and tokens
    vault,    \* PIIVault._store: one process, emptied by its restart only
    cache,    \* response_formatter's entries: pairs of prompt and completion
    script,   \* each session's script: idle, folding, or the turn it streams
    chat,     \* st.session_state.messages: a turn's question or its answer
    summary,  \* the messages conversation_summary was made from
    folding,  \* what summarize_if_needed is about to return
    restarts

VARIABLES
    seen,     \* history: the values each prompt has shown to a model
    orphaned, \* history: turns that paused and lost their vault
    folded    \* history: the chat's latest script run came to its end

turnVars == <<pc, masked, rows, prompt, draft, shown>>
chatVars == <<script, chat, summary, folding, folded>>
vars == <<turnVars, vault, cache, chatVars, restarts, seen, orphaned>>

NoMap == [k \in Tokens |-> Unset]
Items(text) == {text[i] : i \in DOMAIN text}
Callers == {"sql_generator", "response_formatter", "critic", "memory"}

Init ==
    /\ pc = [t \in Turns |-> "new"]
    /\ masked = [t \in Turns |-> <<>>] /\ rows = [t \in Turns |-> <<>>]
    /\ prompt = [t \in Turns |-> <<>>] /\ draft = [t \in Turns |-> <<>>]
    /\ shown = [t \in Turns |-> <<>>]
    /\ vault = [t \in Turns |-> NoMap]
    /\ cache = {}
    /\ script = [s \in Sessions |-> "idle"]
    /\ chat = [s \in Sessions |-> <<>>]
    /\ summary = [s \in Sessions |-> {}]
    /\ folding = [s \in Sessions |-> {}]
    /\ folded = [s \in Sessions |-> FALSE]
    /\ restarts = 0
    /\ seen = [c \in Callers |-> {}]
    /\ orphaned = {}

---------------------------------------------------------------------------
(* pii.py.                                                                 *)

Detected(ner) == Structured \cup (IF ner THEN Named ELSE {})

\* Mutant: the first token of an entity is 0.
TokenFromZero(text, i) ==
    IF text[i] \in Structured
    THEN <<"email", Cardinality({j \in 1 .. (i - 1) : text[j] \in Structured})>>
    ELSE <<"name", Cardinality({j \in (i + 1) .. Len(text) : text[j] \in Named})>>

\* The regular expressions number from the left, _mask_ner from the right, and
\* both start at 1 in every text.
Token(text, i) ==
    IF text[i] \in Structured
    THEN <<"email", Cardinality({j \in 1 .. i : text[j] \in Structured})>>
    ELSE <<"name", Cardinality({j \in i .. Len(text) : text[j] \in Named})>>

Mask(text, ner) ==
    [i \in DOMAIN text |->
        IF text[i] \in Detected(ner) THEN Token(text, i) ELSE text[i]]

\* Mutant: a token that is in the vault keeps its value.
PutOnce(map, text, ner) ==
    [k \in Tokens |->
        LET at == {i \in DOMAIN text :
                      text[i] \in Detected(ner) /\ Token(text, i) = k} IN
        IF at = {} \/ map[k] # Unset THEN map[k] ELSE text[CHOOSE i \in at : TRUE]]

Put(map, text, ner) ==
    [k \in Tokens |->
        LET at == {i \in DOMAIN text :
                      text[i] \in Detected(ner) /\ Token(text, i) = k} IN
        IF at = {} THEN map[k] ELSE text[CHOOSE i \in at : TRUE]]

Unmask(text, map) ==
    [i \in DOMAIN text |->
        IF text[i] \in Tokens /\ map[text[i]] # Unset
        THEN map[text[i]] ELSE text[i]]

\* Mutant: one map for all traces.
SharedSlot(t) == CHOOSE p \in Turns : TRUE

Slot(t) == t

Goto(t, label) == pc' = [pc EXCEPT ![t] = label]

Show(caller, texts) ==
    seen' = [seen EXCEPT ![caller] =
                @ \cup ((UNION {Items(text) : text \in texts}) \cap Values)]

---------------------------------------------------------------------------
(* A turn of the chat: run_new_query and the graph's nodes.                *)

\* input_guard, once the question is accepted.
Ask(t) ==
    /\ pc[t] = "new" /\ script[SessionOf[t]] = "idle"
    /\ script' = [script EXCEPT ![SessionOf[t]] = t]
    /\ \E ner \in BOOLEAN :
           /\ masked' = [masked EXCEPT ![t] = Mask(Question[t], ner)]
           /\ vault' = [vault EXCEPT ![Slot(t)] = Put(@, Question[t], ner)]
    /\ chat' = [chat EXCEPT ![SessionOf[t]] = Append(@, <<t, "user">>)]
    /\ Goto(t, "generate")
    /\ folded' = [folded EXCEPT ![SessionOf[t]] = FALSE]
    /\ UNCHANGED <<rows, prompt, draft, shown, cache, summary, folding,
                   restarts, seen, orphaned>>

\* Mutant: the prompt is made from user_query_raw.
RawQuestion(t) == Question[t]

\* All a generator prompt says of a person.
PromptQuestion(t) == masked[t]

Generate(t) ==
    /\ pc[t] = "generate"
    /\ Show("sql_generator", {PromptQuestion(t)})
    /\ Goto(t, "execute")
    /\ UNCHANGED <<masked, rows, prompt, draft, shown, vault, cache, chatVars,
                   restarts, orphaned>>

\* The chat that streams the turn gets its message; a resumed turn updates the
\* message it has.
Deliver(t) ==
    LET s == SessionOf[t] IN
    IF script[s] = t
    THEN /\ script' = [script EXCEPT ![s] = "append"]
         /\ chat' = [chat EXCEPT ![s] = Append(@, <<t, "assistant">>)]
    ELSE UNCHANGED <<script, chat>>

\* Mutant: the vault is discarded when run_query returns.
PauseAndClear(t) ==
    /\ pc[t] = "execute" /\ script[SessionOf[t]] = t
    /\ Deliver(t)
    /\ Goto(t, "paused")
    /\ vault' = [vault EXCEPT ![Slot(t)] = NoMap]
    /\ UNCHANGED <<masked, rows, prompt, draft, shown, cache, summary,
                   folding, folded, restarts, seen, orphaned>>

\* The statement stays invalid: the run pauses for its review.  The script
\* shows the turn, or raises on the stream's interrupt entry (QueryGraph).
Pause(t) ==
    /\ pc[t] = "execute" /\ script[SessionOf[t]] = t
    /\ \/ Deliver(t)
       \/ script' = [script EXCEPT ![SessionOf[t]] = "idle"] /\ UNCHANGED chat
    /\ Goto(t, "paused")
    /\ UNCHANGED <<masked, rows, prompt, draft, shown, vault, cache, summary,
                   folding, folded, restarts, seen, orphaned>>

\* resume_review after an approval, by whichever process has the checkpoint.
Resume(t) ==
    /\ pc[t] = "paused"
    /\ Goto(t, "execute")
    /\ UNCHANGED <<masked, rows, prompt, draft, shown, vault, cache, chatVars,
                   restarts, seen, orphaned>>

Execute(t) ==
    /\ pc[t] = "execute"
    /\ rows' \in {[rows EXCEPT ![t] = text] : text \in RowTexts[t]}
    /\ Goto(t, "format")
    /\ UNCHANGED <<masked, prompt, draft, shown, vault, cache, chatVars,
                   restarts, seen, orphaned>>

\* A rejection, a node that fails for good, a blocked answer.
EndWithoutAnswer(t) ==
    /\ pc[t] \in {"generate", "execute", "format", "model", "check"}
    /\ Goto(t, "done")
    /\ Deliver(t)
    /\ UNCHANGED <<masked, rows, prompt, draft, shown, vault, cache, summary,
                   folding, folded, restarts, seen, orphaned>>

Cached(p) == {entry \in cache : entry[1] = p}

\* response_formatter up to cache_get.
Format(t) ==
    /\ pc[t] = "format"
    /\ \E ner \in BOOLEAN :
           LET p == <<masked[t], Mask(rows[t], ner)>> IN
           /\ vault' = [vault EXCEPT ![Slot(t)] = Put(@, rows[t], ner)]
           /\ prompt' = [prompt EXCEPT ![t] = p]
           /\ IF Cached(p) = {}
              THEN /\ Goto(t, "model")
                   /\ UNCHANGED draft
              ELSE /\ Goto(t, "check")
                   /\ draft' \in {[draft EXCEPT ![t] = entry[2]] :
                                     entry \in Cached(p)}
    /\ UNCHANGED <<masked, rows, shown, cache, chatVars, restarts, seen,
                   orphaned>>

CacheSet(p, text) == (cache \ Cached(p)) \cup {<<p, text>>}

\* The model says something of its prompt, or invents a token.
Completions(p) ==
    {<<>>} \cup {<<item>> : item \in Items(p[1]) \cup Items(p[2]) \cup Tokens}

CallModel(t) ==
    /\ pc[t] = "model"
    /\ Show("response_formatter", Items(prompt[t]))
    /\ \E text \in Completions(prompt[t]) :
           /\ draft' = [draft EXCEPT ![t] = text]
           /\ cache' = CacheSet(prompt[t], text)
    /\ Goto(t, "check")
    /\ UNCHANGED <<masked, rows, prompt, shown, vault, chatVars, restarts,
                   orphaned>>

\* contains_pii: a structured value is always found.
ContainsPii(text) == Items(text) \cap Structured # {}

\* check_output passes, and the answer is rehydrated.
Rehydrate(t) ==
    /\ pc[t] = "check"
    /\ ~ ContainsPii(draft[t])
    /\ shown' = [shown EXCEPT ![t] = Unmask(draft[t], vault[Slot(t)])]
    /\ Goto(t, "critic")
    /\ UNCHANGED <<masked, rows, prompt, draft, vault, cache, chatVars,
                   restarts, seen, orphaned>>

\* The critic's prompt has the rows and the answer as the user sees them.
Criticise(t) ==
    /\ pc[t] = "critic"
    /\ IF CriticEnabled
       THEN Show("critic", {masked[t], rows[t], shown[t]})
       ELSE UNCHANGED seen
    /\ Goto(t, "done")
    /\ Deliver(t)
    /\ UNCHANGED <<masked, rows, prompt, draft, shown, vault, cache, summary,
                   folding, folded, restarts, orphaned>>

---------------------------------------------------------------------------
(* The chat around it: summarize_if_needed after each turn, New chat.      *)

Older(s) == {chat[s][i] : i \in 1 .. (Len(chat[s]) - KeepLast)}

Content(m) == IF m[2] = "user" THEN Question[m[1]] ELSE shown[m[1]]

\* The model call of summarize_if_needed, when there is one: every older
\* message again, and the summary there is.
Summarize(s) ==
    /\ script[s] = "append"
    /\ folding' = [folding EXCEPT ![s] = summary[s] \cup Older(s)]
    /\ seen' = [seen EXCEPT !["memory"] =
                   @ \cup ((UNION {Items(Content(m)) : m \in Older(s)}) \cap Values)]
    /\ script' = [script EXCEPT ![s] = "fold"]
    /\ UNCHANGED <<turnVars, vault, cache, chat, summary, folded, restarts,
                   orphaned>>

\* It raises out of the script: the summary stays what it was.
SummarizeFails(s) ==
    /\ script[s] = "append"
    /\ script' = [script EXCEPT ![s] = "idle"]
    /\ UNCHANGED <<turnVars, vault, cache, chat, summary, folding, folded,
                   restarts, seen, orphaned>>

StoreSummary(s) ==
    /\ script[s] = "fold"
    /\ summary' = [summary EXCEPT ![s] = folding[s]]
    /\ folding' = [folding EXCEPT ![s] = {}]
    /\ folded' = [folded EXCEPT ![s] = TRUE]
    /\ script' = [script EXCEPT ![s] = "idle"]
    /\ UNCHANGED <<turnVars, vault, cache, chat, restarts, seen, orphaned>>

\* Turns that a script run takes with it when it is stopped.
Stopped(s) == {t \in Turns : script[s] = t}

\* Another click stops the script; what is in the session state stays.
Rerun(s) ==
    /\ script[s] # "idle"
    /\ script' = [script EXCEPT ![s] = "idle"]
    /\ folding' = [folding EXCEPT ![s] = {}]
    /\ pc' = [t \in Turns |-> IF t \in Stopped(s) THEN "gone" ELSE pc[t]]
    /\ UNCHANGED <<masked, rows, prompt, draft, shown, vault, cache, chat,
                   summary, folded, restarts, seen, orphaned>>

\* Mutant: the summary outlives the chat.
NewChatKeepsSummary(s) ==
    /\ chat' = [chat EXCEPT ![s] = <<>>]
    /\ folding' = [folding EXCEPT ![s] = {}]
    /\ folded' = [folded EXCEPT ![s] = FALSE]
    /\ script' = [script EXCEPT ![s] = "idle"]
    /\ pc' = [t \in Turns |-> IF t \in Stopped(s) THEN "gone" ELSE pc[t]]
    /\ UNCHANGED <<masked, rows, prompt, draft, shown, vault, cache, summary,
                   restarts, seen, orphaned>>

\* New chat and Log out: the click stops the script that runs.
NewChat(s) ==
    /\ chat[s] # <<>>
    /\ chat' = [chat EXCEPT ![s] = <<>>]
    /\ summary' = [summary EXCEPT ![s] = {}]
    /\ folding' = [folding EXCEPT ![s] = {}]
    /\ folded' = [folded EXCEPT ![s] = FALSE]
    /\ script' = [script EXCEPT ![s] = "idle"]
    /\ pc' = [t \in Turns |-> IF t \in Stopped(s) THEN "gone" ELSE pc[t]]
    /\ UNCHANGED <<masked, rows, prompt, draft, shown, vault, cache, restarts,
                   seen, orphaned>>

\* The process restarts.  The server of the cache and the checkpoints of
\* paused runs outlive it; chats, summaries and the vault do not.
Restart ==
    /\ restarts < MaxRestarts
    /\ restarts' = restarts + 1
    /\ vault' = [t \in Turns |-> NoMap]
    /\ orphaned' = orphaned \cup {t \in Turns : pc[t] = "paused"}
    /\ pc' = [t \in Turns |->
                 IF pc[t] \in {"new", "paused", "done"} THEN pc[t] ELSE "gone"]
    /\ script' = [s \in Sessions |-> "idle"]
    /\ chat' = [s \in Sessions |-> <<>>]
    /\ summary' = [s \in Sessions |-> {}] /\ folding' = [s \in Sessions |-> {}]
    /\ folded' = [s \in Sessions |-> FALSE]
    /\ UNCHANGED <<masked, rows, prompt, draft, shown, cache, seen>>

Next ==
    \/ \E t \in Turns :
           \/ Ask(t) \/ Generate(t) \/ Pause(t) \/ Resume(t) \/ Execute(t)
           \/ EndWithoutAnswer(t) \/ Format(t) \/ CallModel(t)
           \/ Rehydrate(t) \/ Criticise(t)
    \/ \E s \in Sessions :
           \/ Summarize(s) \/ SummarizeFails(s) \/ StoreSummary(s) \/ Rerun(s)
           \/ NewChat(s)
    \/ Restart

Spec == Init /\ [][Next]_vars

---------------------------------------------------------------------------
(* Properties.                                                             *)

Texts == Seq(Values \cup Tokens)

\* Every variable stays in its domain.
TypeOK ==
    /\ \A t \in Turns :
           /\ {masked[t], rows[t], draft[t], shown[t]} \subseteq Texts
           /\ vault[t] \in [Tokens -> Values \cup {Unset}]
           /\ pc[t] \in {"new", "generate", "execute", "paused", "format",
                         "model", "check", "critic", "done", "gone"}
    /\ \A entry \in cache : entry[2] \in Texts
    /\ \A s \in Sessions :
           /\ script[s] \in {"idle", "append", "fold"} \cup Turns
           /\ Items(chat[s]) \cup summary[s] \cup folding[s]
                  \subseteq Turns \X {"user", "assistant"}
    /\ folded \in [Sessions -> BOOLEAN]
    /\ seen \in [Callers -> SUBSET Values]
    /\ orphaned \subseteq Turns /\ restarts \in 0 .. MaxRestarts

\* "never persisted ... only for the original requesting user" (pii.py:8-9):
\* an answer shows values of its own question and rows only, although the
\* vault and the cached completions are shared by all runs of the process.
AnswersAreOwn ==
    \A t \in Turns :
        Items(shown[t]) \cap Values \subseteq Items(Question[t]) \cup Items(rows[t])

\* A token of the masked rows is shown as the value the rows have there, also
\* when the completion was made for another run with the same prompt.
RowTokensRehydrate ==
    \A t \in Turns :
        pc[t] = "critic" =>
            \A i \in DOMAIN rows[t], j \in DOMAIN draft[t] :
                (draft[t][j] = prompt[t][2][i]) => shown[t][j] = rows[t][i]

\* The vault keeps a run's tokens as long as the run may come back: the user
\* sees a token of the prompt only in a run that was paused across a restart.
LeftoversOnlyAfterRestart ==
    \A t \in Turns :
        pc[t] = "critic" /\ t \notin orphaned =>
            Items(shown[t]) \cap (Items(prompt[t][1]) \cup Items(prompt[t][2]))
                \cap Tokens = {}

\* "sql_generator and response_formatter" get masked content (cache.py:6-7):
\* whatever other runs put into vault and cache, no structured value is in
\* their prompts.
NodesSeeNoValues ==
    (seen["sql_generator"] \cup seen["response_formatter"]) \cap Structured = {}

\* The summary is what the chat no longer shows in full: nothing that New
\* chat or Log out has cleared comes back with a summary that was being made
\* (streamlit_app.py:276-284), and a failed fold loses nothing, as the next
\* one that returns covers every message but the last KeepLast
\* (memory.py:29-31).
SummaryIsOldTurns ==
    \A s \in Sessions :
        /\ summary[s] \subseteq Items(chat[s])
        /\ script[s] = "idle" /\ folded[s] => Older(s) \subseteq summary[s]

\* "Reversible tokenization masks PII before it ever reaches an LLM"
\* (README.md:70).  The critic and the summary get raw rows, questions and
\* rehydrated answers.
ModelsSeeNoValues == \A c \in Callers : seen[c] \cap Structured = {}

\* "Masking is reversible tokenization" (pii.py:7): a token of the question
\* in the answer is shown as the value it stands for.  mask_text numbers the
\* rows from 1 again and overwrites it.
QuestionTokensRehydrate ==
    \A t \in Turns :
        pc[t] = "critic" /\ t \notin orphaned =>
            \A i \in DOMAIN masked[t], j \in DOMAIN draft[t] :
                (draft[t][j] = masked[t][i]) => shown[t][j] = Question[t][i]
=============================================================================
