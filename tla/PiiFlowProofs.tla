--------------------------- MODULE PiiFlowProofs ---------------------------
(***************************************************************************)
(* The safety invariants of PiiFlow, for any number of turns and chats,    *)
(* any texts and any number of restarts.                                   *)
(***************************************************************************)
EXTENDS PiiFlow, FiniteSetTheorems, TLAPS

---------------------------------------------------------------------------
(* The inductive invariant.                                                *)

Steps == {"new", "generate", "execute", "paused", "format", "model", "check",
          "critic", "done", "gone"}

Messages == Turns \X {"user", "assistant"}

Prompts == Texts \X Texts

Types ==
    /\ pc \in [Turns -> Steps]
    /\ masked \in [Turns -> Texts] /\ rows \in [Turns -> Texts]
    /\ draft \in [Turns -> Texts] /\ shown \in [Turns -> Texts]
    /\ prompt \in [Turns -> {<<>>} \cup Prompts]
    /\ vault \in [Turns -> [Tokens -> Values \cup {Unset}]]
    /\ cache \subseteq Prompts \X Texts
    /\ script \in [Sessions -> {"idle", "append", "fold"} \cup Turns]
    /\ chat \in [Sessions -> Seq(Messages)]
    /\ summary \in [Sessions -> SUBSET Messages]
    /\ folding \in [Sessions -> SUBSET Messages]
    /\ folded \in [Sessions -> BOOLEAN]
    /\ seen \in [Callers -> SUBSET Values]
    /\ orphaned \subseteq Turns /\ restarts \in 0 .. MaxRestarts

\* A question or a result, as the program gets it.
IsRaw(text) == text \in Seq(Values) /\ Len(text) <= MaxTokens

\* What the turn keeps of a person is its own; before its statement runs there
\* are no rows.
OwnOK(t) ==
    /\ IsRaw(rows[t])
    /\ pc[t] \in {"new", "generate", "execute", "paused"} => rows[t] = <<>>
    /\ Items(masked[t]) \cap Values \subseteq Items(Question[t]) \ Structured
    /\ \A k \in Tokens :
           vault[t][k] \in {Unset} \cup Items(Question[t]) \cup Items(rows[t])
    /\ Items(shown[t]) \cap Values \subseteq Items(Question[t]) \cup Items(rows[t])

\* The tokens of the question are in the vault until the run has its answer.
KeptOK(t) ==
    pc[t] \in {"generate", "execute", "paused", "format", "model", "check"}
    /\ t \notin orphaned =>
        \A k \in Items(masked[t]) \cap Tokens : vault[t][k] # Unset

\* The second half of a prompt is a mask of text whose tokens map m resolves.
Resolved(text, ner, m) ==
    \A i \in DOMAIN text :
        text[i] \in Detected(ner) => m[Token(text, i)] = text[i]

\* Nobody touches the vault of a turn between its prompt and its answer.
PromptOK(t) ==
    pc[t] \in {"model", "check"} =>
        \E ner \in BOOLEAN :
            /\ prompt[t] = <<masked[t], Mask(rows[t], ner)>>
            /\ Resolved(rows[t], ner, vault[t])

\* A completion is made of its prompt's items and of tokens.
IsCompletion(p, text) == Items(text) \subseteq Items(p[1]) \cup Items(p[2]) \cup Tokens

DraftOK(t) == pc[t] = "check" => IsCompletion(prompt[t], draft[t])

AnswerOK(t) ==
    pc[t] = "critic" =>
        /\ \A i \in DOMAIN rows[t], j \in DOMAIN draft[t] :
               (draft[t][j] = prompt[t][2][i]) => shown[t][j] = rows[t][i]
        /\ t \notin orphaned =>
               Items(shown[t]) \cap (Items(prompt[t][1]) \cup Items(prompt[t][2]))
                   \cap Tokens = {}

TurnOK(t) == OwnOK(t) /\ KeptOK(t) /\ PromptOK(t) /\ DraftOK(t) /\ AnswerOK(t)

CacheOK == \A entry \in cache : IsCompletion(entry[1], entry[2])

ChatOK(s) ==
    /\ summary[s] \cup folding[s] \subseteq Items(chat[s])
    /\ script[s] # "idle" => ~ folded[s]
    /\ script[s] = "fold" => Older(s) \subseteq folding[s]
    /\ script[s] = "idle" /\ folded[s] => Older(s) \subseteq summary[s]

Inv ==
    /\ Types
    /\ \A t \in Turns : TurnOK(t)
    /\ CacheOK
    /\ NodesSeeNoValues
    /\ \A s \in Sessions : ChatOK(s)

---------------------------------------------------------------------------
(* mask_text, the vault and unmask_text.                                   *)

\* A text the program is given is a text; a value is no token.
LEMMA RawFacts ==
  ASSUME NEW text, IsRaw(text)
  PROVE  /\ text \in Texts /\ Len(text) \in Nat /\ DOMAIN text = 1 .. Len(text)
         /\ \A i \in DOMAIN text : text[i] \in Values /\ text[i] \notin Tokens
         /\ Items(text) \subseteq Values
  <1>1. text \in Seq(Values)
    BY DEF IsRaw
  <1>2. text \in Texts
    BY <1>1 DEF Texts
  <1>3. \A i \in DOMAIN text : text[i] \in Values
    BY <1>1
  <1>4. QED
    BY <1>1, <1>2, <1>3, ValueAssumption DEF Items

\* The number in a token counts a set of positions from 1 on.
LEMMA CountInRange ==
  ASSUME NEW n \in Nat, NEW S \in SUBSET (1 .. n), NEW i \in S
  PROVE  IsFiniteSet(S) /\ Cardinality(S) \in 1 .. n
  <1>1. IsFiniteSet(1 .. n) /\ Cardinality(1 .. n) = n
    BY FS_Interval
  <1>2. IsFiniteSet(S) /\ Cardinality(S) <= n /\ Cardinality(S) \in Nat
    BY <1>1, FS_Subset, FS_CardinalityType
  <1>3. Cardinality(S) # 0
    BY <1>2, FS_EmptySet
  <1>4. QED
    BY <1>2, <1>3

\* Counting on, a later position has a higher number.
LEMMA CountGrows ==
  ASSUME NEW S, NEW R \in SUBSET S, IsFiniteSet(S), NEW i \in S, i \notin R
  PROVE  Cardinality(R) # Cardinality(S)
  BY FS_Subset

\* The positions a token of a structured value or of a name counts.
Before(text, i) == {j \in 1 .. i : text[j] \in Structured}
After(text, i) == {j \in i .. Len(text) : text[j] \in Named}

LEMMA TokenCounts ==
  ASSUME NEW text, IsRaw(text), NEW i \in DOMAIN text
  PROVE  /\ text[i] \in Structured =>
               /\ Token(text, i) = <<"email", Cardinality(Before(text, i))>>
               /\ i \in Before(text, i)
         /\ text[i] \notin Structured =>
               /\ Token(text, i) = <<"name", Cardinality(After(text, i))>>
               /\ i \in After(text, i)
         /\ Before(text, i) \in SUBSET (1 .. Len(text))
         /\ After(text, i) \in SUBSET (1 .. Len(text))
  <1>1. i \in 1 .. Len(text) /\ Len(text) \in Nat /\ text[i] \in Values
    BY RawFacts
  <1>2. QED
    BY <1>1 DEF Token, Before, After, Values

LEMMA TokenType ==
  ASSUME NEW text, IsRaw(text), NEW i \in DOMAIN text
  PROVE  Token(text, i) \in Tokens
  <1>1. Len(text) \in Nat /\ Len(text) <= MaxTokens /\ MaxTokens \in Nat
    BY RawFacts, BoundAssumption DEF IsRaw
  <1>2. CASE text[i] \in Structured
    <2>1. Cardinality(Before(text, i)) \in 1 .. Len(text)
      BY <1>1, <1>2, TokenCounts, CountInRange
    <2>2. QED
      BY <1>1, <1>2, <2>1, TokenCounts DEF Tokens
  <1>3. CASE text[i] \notin Structured
    <2>1. Cardinality(After(text, i)) \in 1 .. Len(text)
      BY <1>1, <1>3, TokenCounts, CountInRange
    <2>2. QED
      BY <1>1, <1>3, <2>1, TokenCounts DEF Tokens
  <1>4. QED
    BY <1>2, <1>3

\* Within one text no two places get the same token.
LEMMA TokenInjective ==
  ASSUME NEW text, IsRaw(text), NEW i \in DOMAIN text, NEW j \in DOMAIN text, i < j
  PROVE  Token(text, i) # Token(text, j)
  <1>1. /\ Len(text) \in Nat /\ i \in 1 .. Len(text) /\ j \in 1 .. Len(text)
    BY RawFacts
  <1>2. CASE text[i] \in Structured /\ text[j] \in Structured
    <2>1. /\ Before(text, i) \in SUBSET Before(text, j)
          /\ j \in Before(text, j) /\ j \notin Before(text, i)
      BY <1>1, <1>2 DEF Before
    <2>2. IsFiniteSet(Before(text, j))
      BY <1>1, <2>1, TokenCounts, CountInRange
    <2>3. QED
      BY <1>2, <2>1, <2>2, CountGrows, TokenCounts
  <1>3. CASE text[i] \notin Structured /\ text[j] \notin Structured
    <2>1. /\ After(text, j) \in SUBSET After(text, i)
          /\ i \in After(text, i) /\ i \notin After(text, j)
      <3>1. i \in After(text, i)
        BY <1>3, TokenCounts
      <3>2. \A a \in j .. Len(text) : a \in i .. Len(text) /\ a # i
        BY <1>1
      <3>3. QED
        BY <3>1, <3>2 DEF After
    <2>2. IsFiniteSet(After(text, i))
      BY <1>1, <2>1, TokenCounts, CountInRange
    <2>3. QED
      BY <1>3, <2>1, <2>2, CountGrows, TokenCounts
  <1>4. CASE (text[i] \in Structured) # (text[j] \in Structured)
    <2>1. ASSUME NEW a, NEW b PROVE <<"email", a>> # <<"name", b>>
      <3>1. <<"email", a>>[1] = "email" /\ <<"name", b>>[1] = "name"
        OBVIOUS
      <3>2. "email" # "name"
        OBVIOUS
      <3>3. QED
        BY <3>1, <3>2
    <2>2. QED
      BY <1>4, <2>1, TokenCounts
  <1>5. QED
    BY <1>2, <1>3, <1>4

\* A mask has a token for each value it detects and keeps the others: no
\* structured value is left in it.
LEMMA MaskFacts ==
  ASSUME NEW text, IsRaw(text), NEW ner \in BOOLEAN
  PROVE  /\ Mask(text, ner) \in Texts
         /\ DOMAIN Mask(text, ner) = DOMAIN text
         /\ \A i \in DOMAIN text :
                Mask(text, ner)[i] = IF text[i] \in Detected(ner)
                                     THEN Token(text, i) ELSE text[i]
         /\ Items(Mask(text, ner)) \cap Values \subseteq Items(text) \ Structured
         /\ \A k \in Items(Mask(text, ner)) \cap Tokens :
                \E i \in DOMAIN text : text[i] \in Detected(ner) /\ k = Token(text, i)
  <1> DEFINE mask == Mask(text, ner)
  <1>1. DOMAIN mask = DOMAIN text
    BY DEF Mask
  <1>2. \A i \in DOMAIN text :
            mask[i] = IF text[i] \in Detected(ner) THEN Token(text, i) ELSE text[i]
    BY DEF Mask
  <1>3. Structured \subseteq Detected(ner)
    BY DEF Detected
  <1>4. DOMAIN text = 1 .. Len(text) /\ Len(text) \in Nat
    BY RawFacts
  <1>5. mask \in Texts
    <2>1. mask \in [1 .. Len(text) -> Values \cup Tokens]
      <3>1. \A i \in DOMAIN text : Token(text, i) \in Tokens /\ text[i] \in Values
        BY TokenType, RawFacts
      <3>2. QED
        BY <1>4, <3>1 DEF Mask
    <2> HIDE DEF mask
    <2>2. QED
      BY <1>4, <2>1 DEF Texts
  <1> HIDE DEF mask
  <1>6. Items(mask) \cap Values \subseteq Items(text) \ Structured
    <2>1. SUFFICES ASSUME NEW i \in DOMAIN text, mask[i] \in Values
                   PROVE  mask[i] \in Items(text) \ Structured
      BY <1>1 DEF Items
    <2>2. Token(text, i) \notin Values
      BY TokenType, ValueAssumption
    <2>3. mask[i] = text[i] /\ text[i] \notin Detected(ner)
      BY <1>2, <2>1, <2>2
    <2>4. QED
      BY <1>3, <2>3 DEF Items
  <1>7. ASSUME NEW k \in Items(mask) \cap Tokens
        PROVE  \E i \in DOMAIN text : text[i] \in Detected(ner) /\ k = Token(text, i)
    <2>1. PICK i \in DOMAIN text : k = mask[i]
      BY <1>1, <1>7 DEF Items
    <2>2. text[i] \notin Tokens
      BY RawFacts
    <2>3. QED
      BY <1>2, <1>7, <2>1, <2>2
  <1>8. QED
    BY <1>1, <1>2, <1>5, <1>6, <1>7 DEF mask

\* Storing a text's tokens resolves each of them, takes values from the text
\* only and drops nothing.
LEMMA PutFacts ==
  ASSUME NEW text, IsRaw(text), NEW ner \in BOOLEAN,
         NEW m \in [Tokens -> Values \cup {Unset}]
  PROVE  /\ Put(m, text, ner) \in [Tokens -> Values \cup {Unset}]
         /\ \A k \in Tokens : /\ Put(m, text, ner)[k] \in {m[k]} \cup Items(text)
                              /\ m[k] # Unset => Put(m, text, ner)[k] # Unset
         /\ Resolved(text, ner, Put(m, text, ner))
  <1> DEFINE put == Put(m, text, ner)
             At(k) == {i \in DOMAIN text : text[i] \in Detected(ner) /\ Token(text, i) = k}
  <1>1. \A k \in Tokens :
            put[k] = IF At(k) = {} THEN m[k] ELSE text[CHOOSE i \in At(k) : TRUE]
    BY DEF Put
  <1>2. ASSUME NEW k \in Tokens, At(k) # {}
        PROVE  \E i \in At(k) : put[k] = text[i]
    <2>1. (CHOOSE i \in At(k) : TRUE) \in At(k)
      BY <1>2
    <2>2. QED
      BY <1>1, <1>2, <2>1
  <1>3. \A k \in Tokens : \A i \in At(k) : text[i] \in Values /\ text[i] \in Items(text)
    BY RawFacts DEF Items
  <1>4. put \in [Tokens -> Values \cup {Unset}]
    <2>1. \A k \in Tokens : put[k] \in Values \cup {Unset}
      BY <1>1, <1>2, <1>3
    <2>2. DOMAIN put = Tokens /\ put = [k \in Tokens |-> put[k]]
      BY DEF Put
    <2> HIDE DEF put
    <2>3. QED
      BY <2>1, <2>2
  <1>5. ASSUME NEW k \in Tokens
        PROVE  /\ put[k] \in {m[k]} \cup Items(text)
               /\ m[k] # Unset => put[k] # Unset
    BY <1>1, <1>2, <1>3, ValueAssumption
  <1>6. Resolved(text, ner, put)
    <2>1. SUFFICES ASSUME NEW i \in DOMAIN text, text[i] \in Detected(ner)
                   PROVE  put[Token(text, i)] = text[i]
      BY DEF Resolved
    <2>2. Token(text, i) \in Tokens
      BY TokenType
    <2>3. \A j \in At(Token(text, i)) : j = i
      <3>1. SUFFICES ASSUME NEW j \in DOMAIN text, Token(text, j) = Token(text, i), j # i
                     PROVE  FALSE
        OBVIOUS
      <3>2. i \in Nat /\ j \in Nat
        BY RawFacts
      <3>3. i < j \/ j < i
        BY <3>1, <3>2
      <3>4. QED
        BY <3>1, <3>3, TokenInjective
    <2>4. i \in At(Token(text, i))
      BY <2>1
    <2> HIDE DEF At, put
    <2>5. QED
      BY <1>2, <2>2, <2>3, <2>4
  <1>7. QED
    BY <1>4, <1>5, <1>6

\* Rehydrating changes tokens the map resolves, and only those.
LEMMA UnmaskFacts ==
  ASSUME NEW text \in Texts, NEW m \in [Tokens -> Values \cup {Unset}]
  PROVE  /\ Unmask(text, m) \in Texts
         /\ DOMAIN Unmask(text, m) = DOMAIN text
         /\ \A i \in DOMAIN text :
                Unmask(text, m)[i] = IF text[i] \in Tokens /\ m[text[i]] # Unset
                                     THEN m[text[i]] ELSE text[i]
  <1>1. /\ text \in [1 .. Len(text) -> Values \cup Tokens] /\ Len(text) \in Nat
        /\ DOMAIN text = 1 .. Len(text)
    BY DEF Texts
  <1>2. \A i \in DOMAIN text :
            (IF text[i] \in Tokens /\ m[text[i]] # Unset THEN m[text[i]] ELSE text[i])
                \in Values \cup Tokens
    BY <1>1
  <1>3. Unmask(text, m) \in [1 .. Len(text) -> Values \cup Tokens]
    BY <1>1, <1>2 DEF Unmask
  <1>4. QED
    BY <1>1, <1>3 DEF Unmask, Texts

---------------------------------------------------------------------------
(* Types of the operations.                                                *)

LEMMA EmptyText == <<>> \in Texts /\ IsRaw(<<>>) /\ Items(<<>>) = {}
  <1>1. MaxTokens \in Nat
    BY BoundAssumption
  <1>2. QED
    BY <1>1 DEF Texts, IsRaw, Items

\* The questions and the results a statement may have are raw texts.
LEMMA GivenTexts ==
  ASSUME NEW t \in Turns
  PROVE  IsRaw(Question[t]) /\ \A text \in RowTexts[t] : IsRaw(text)
  BY TextAssumption DEF IsRaw

LEMMA SessionType == ASSUME NEW t \in Turns PROVE SessionOf[t] \in Sessions
  BY TurnAssumption

\* What a model may return on a prompt is a text, made of that prompt.
LEMMA CompletionFacts ==
  ASSUME NEW p \in Prompts, NEW text \in Completions(p)
  PROVE  text \in Texts /\ IsCompletion(p, text)
  <1>1. \A part \in Texts : Items(part) \subseteq Values \cup Tokens
    BY DEF Texts, Items
  <1>2. p[1] \in Texts /\ p[2] \in Texts
    BY DEF Prompts
  <1>3. CASE text = <<>>
    BY <1>3, EmptyText DEF IsCompletion
  <1>4. CASE \E item \in Items(p[1]) \cup Items(p[2]) \cup Tokens : text = <<item>>
    <2>1. PICK item \in Items(p[1]) \cup Items(p[2]) \cup Tokens : text = <<item>>
      BY <1>4
    <2>2. item \in Values \cup Tokens
      BY <1>1, <1>2, <2>1
    <2>3. text \in Texts
      BY <2>1, <2>2 DEF Texts
    <2>4. Items(text) = {item}
      BY <2>1 DEF Items
    <2>5. QED
      BY <2>1, <2>3, <2>4 DEF IsCompletion
  <1>5. QED
    BY <1>3, <1>4 DEF Completions

\* Showing texts to a caller's model adds values to what it has seen.
LEMMA ShowType ==
  ASSUME seen \in [Callers -> SUBSET Values], NEW c \in Callers, NEW texts,
         Show(c, texts)
  PROVE  /\ seen' \in [Callers -> SUBSET Values]
         /\ seen'[c] = seen[c] \cup ((UNION {Items(text) : text \in texts}) \cap Values)
         /\ \A d \in Callers \ {c} : seen'[d] = seen[d]
  <1> DEFINE all == UNION {Items(text) : text \in texts}
             new == all \cap Values
  <1>0. seen' = [seen EXCEPT ![c] = @ \cup new]
    BY DEF Show
  <1> HIDE DEF all
  <1>1. seen' = [seen EXCEPT ![c] = @ \cup new] /\ new \in SUBSET Values
    BY <1>0
  <1> HIDE DEF new
  <1>2. /\ seen' \in [Callers -> SUBSET Values] /\ seen'[c] = seen[c] \cup new
        /\ \A d \in Callers \ {c} : seen'[d] = seen[d]
    BY <1>1
  <1>3. QED
    BY <1>2 DEF new, all

LEMMA DeliverType ==
  ASSUME Types, NEW t \in Turns, Deliver(t)
  PROVE  /\ script' \in [Sessions -> {"idle", "append", "fold"} \cup Turns]
         /\ chat' \in [Sessions -> Seq(Messages)]
  <1>1. SessionOf[t] \in Sessions /\ <<t, "assistant">> \in Messages
    BY SessionType DEF Messages
  <1>2. chat[SessionOf[t]] \in Seq(Messages)
    BY <1>1 DEF Types
  <1>3. Append(chat[SessionOf[t]], <<t, "assistant">>) \in Seq(Messages)
    BY <1>1, <1>2
  <1>4. QED
    BY <1>1, <1>3 DEF Deliver, Types

\* The older messages of a chat are messages of it.
LEMMA OlderIsOld ==
  ASSUME Types, NEW s \in Sessions
  PROVE  /\ Older(s) \subseteq Items(chat[s])
         /\ Items(chat[s]) \subseteq Messages
  <1>1. chat[s] \in Seq(Messages) /\ KeepLast \in Nat
    BY BoundAssumption DEF Types
  <1>2. QED
    BY <1>1 DEF Older, Items

\* Appending a message loses none.
LEMMA AppendKeeps ==
  ASSUME NEW c \in Seq(Messages), NEW m \in Messages
  PROVE  Append(c, m) \in Seq(Messages) /\ Items(c) \subseteq Items(Append(c, m))
  BY DEF Items

---------------------------------------------------------------------------
(* A turn and its frame.                                                   *)

\* Turn t is left alone by the step, or ended where it was.
Untouched(t) ==
    /\ pc'[t] \in {pc[t], "done", "gone"}
    /\ masked'[t] = masked[t] /\ rows'[t] = rows[t] /\ prompt'[t] = prompt[t]
    /\ draft'[t] = draft[t] /\ shown'[t] = shown[t] /\ vault'[t] = vault[t]
    /\ orphaned \subseteq orphaned'

LEMMA UntouchedKeeps ==
  ASSUME NEW t \in Turns, TurnOK(t), Untouched(t)
  PROVE  TurnOK(t)'
  <1> USE DEF Untouched
  <1>1. OwnOK(t)'
    BY DEF TurnOK, OwnOK
  <1>2. KeptOK(t)'
    BY DEF TurnOK, KeptOK
  <1>3. PromptOK(t)'
    BY DEF TurnOK, PromptOK
  <1>4. DraftOK(t)'
    BY DEF TurnOK, DraftOK
  <1>5. AnswerOK(t)'
    BY DEF TurnOK, AnswerOK
  <1>6. QED
    BY <1>1, <1>2, <1>3, <1>4, <1>5 DEF TurnOK

\* One operation of turn t.
Operation(t) ==
    \/ Ask(t) \/ Generate(t) \/ Pause(t) \/ Resume(t) \/ Execute(t)
    \/ EndWithoutAnswer(t) \/ Format(t) \/ CallModel(t)
    \/ Rehydrate(t) \/ Criticise(t)

\* An operation of one turn writes nothing of another: vault, cache and the
\* chat's script are the only things they share.
LEMMA OperationIsLocal ==
  ASSUME Types, NEW t \in Turns, Operation(t), NEW u \in Turns \ {t}
  PROVE  Untouched(u)
  <1> USE DEF Goto, Slot, Types, Untouched
  <1>1. CASE Ask(t)
    BY <1>1 DEF Ask
  <1>2. CASE Generate(t)
    BY <1>2 DEF Generate
  <1>3. CASE Pause(t)
    BY <1>3 DEF Pause
  <1>4. CASE Resume(t)
    BY <1>4 DEF Resume
  <1>5. CASE Execute(t)
    BY <1>5 DEF Execute
  <1>6. CASE EndWithoutAnswer(t)
    BY <1>6 DEF EndWithoutAnswer
  <1>7. CASE Format(t)
    <2>1. \/ pc' = [pc EXCEPT ![t] = "model"] /\ draft' = draft
          \/ /\ pc' = [pc EXCEPT ![t] = "check"]
             /\ \E text : draft' = [draft EXCEPT ![t] = text]
      BY <1>7 DEF Format
    <2>2. pc'[u] = pc[u] /\ draft'[u] = draft[u]
      BY <2>1
    <2>3. QED
      BY <1>7, <2>2 DEF Format
  <1>8. CASE CallModel(t)
    BY <1>8 DEF CallModel
  <1>9. CASE Rehydrate(t)
    BY <1>9 DEF Rehydrate
  <1>10. CASE Criticise(t)
    BY <1>10 DEF Criticise
  <1>11. QED
    BY <1>1, <1>2, <1>3, <1>4, <1>5, <1>6, <1>7, <1>8, <1>9, <1>10 DEF Operation

---------------------------------------------------------------------------
(* Each operation keeps its turn's part of the invariant, and the types.   *)

LEMMA AskKeeps ==
  ASSUME Inv, NEW t \in Turns, Ask(t)
  PROVE  Types' /\ TurnOK(t)'
  <1> DEFINE s == SessionOf[t]
             text == Question[t]
  <1>1. /\ Types /\ TurnOK(t) /\ IsRaw(text) /\ s \in Sessions
        /\ vault[t] \in [Tokens -> Values \cup {Unset}]
    BY GivenTexts, SessionType DEF Inv, Types
  <1>2. PICK ner \in BOOLEAN :
            /\ masked' = [masked EXCEPT ![t] = Mask(text, ner)]
            /\ vault' = [vault EXCEPT ![t] = Put(@, text, ner)]
    BY DEF Ask, Slot
  <1> DEFINE mask == Mask(text, ner)
             put == Put(vault[t], text, ner)
  <1>3. /\ mask \in Texts /\ Items(mask) \cap Values \subseteq Items(text) \ Structured
        /\ \A k \in Items(mask) \cap Tokens :
              \E i \in DOMAIN text : text[i] \in Detected(ner) /\ k = Token(text, i)
    BY <1>1, MaskFacts
  <1>4. /\ put \in [Tokens -> Values \cup {Unset}] /\ Resolved(text, ner, put)
        /\ \A k \in Tokens : put[k] \in {vault[t][k]} \cup Items(text)
    BY <1>1, PutFacts
  <1>5. masked' = [masked EXCEPT ![t] = mask] /\ vault' = [vault EXCEPT ![t] = put]
    BY <1>2
  <1> HIDE DEF mask, put
  <1>6. /\ script' = [script EXCEPT ![s] = t]
        /\ chat' = [chat EXCEPT ![s] = Append(@, <<t, "user">>)]
        /\ pc' = [pc EXCEPT ![t] = "generate"]
        /\ folded' = [folded EXCEPT ![s] = FALSE]
        /\ UNCHANGED <<rows, prompt, draft, shown, cache, summary, folding,
                       restarts, seen, orphaned>>
        /\ pc[t] = "new"
    BY DEF Ask, Goto
  <1>7. Append(chat[s], <<t, "user">>) \in Seq(Messages)
    <2>1. chat[s] \in Seq(Messages) /\ <<t, "user">> \in Messages
      BY <1>1 DEF Types, Messages
    <2>2. QED
      BY <2>1, AppendKeeps
  <1>8. Types'
    BY <1>1, <1>3, <1>4, <1>5, <1>6, <1>7 DEF Types, Steps
  <1>9. /\ pc'[t] = "generate" /\ masked'[t] = mask /\ vault'[t] = put
        /\ rows'[t] = rows[t] /\ shown'[t] = shown[t]
    BY <1>1, <1>5, <1>6 DEF Types
  <1>10. OwnOK(t)'
    BY <1>1, <1>3, <1>4, <1>6, <1>9 DEF TurnOK, OwnOK
  <1>11. KeptOK(t)'
    <2>1. \A k \in Items(mask) \cap Tokens : put[k] # Unset
      BY <1>1, <1>3, <1>4, RawFacts, ValueAssumption DEF Resolved
    <2>2. QED
      BY <1>9, <2>1 DEF KeptOK
  <1>12. PromptOK(t)' /\ DraftOK(t)' /\ AnswerOK(t)'
    BY <1>9 DEF PromptOK, DraftOK, AnswerOK
  <1>13. QED
    BY <1>8, <1>10, <1>11, <1>12 DEF TurnOK

\* Operations that only move the turn on, tell a model or end the turn.
LEMMA GenerateKeeps ==
  ASSUME Inv, NEW t \in Turns, Generate(t)
  PROVE  Types' /\ TurnOK(t)'
  <1>1. Types /\ TurnOK(t) /\ "sql_generator" \in Callers
    BY DEF Inv, Callers
  <1>2. seen' \in [Callers -> SUBSET Values]
    BY <1>1, ShowType DEF Generate, Types
  <1>3. Types'
    BY <1>1, <1>2 DEF Generate, Goto, chatVars, Types, Steps
  <1>4. /\ pc'[t] = "execute" /\ pc[t] = "generate"
        /\ UNCHANGED <<masked, rows, prompt, draft, shown, vault, orphaned>>
    BY <1>1 DEF Generate, Goto, Types
  <1>5. QED
    BY <1>1, <1>3, <1>4 DEF TurnOK, OwnOK, KeptOK, PromptOK, DraftOK, AnswerOK

LEMMA PauseKeeps ==
  ASSUME Inv, NEW t \in Turns, Pause(t)
  PROVE  Types' /\ TurnOK(t)'
  <1>1. Types /\ TurnOK(t) /\ SessionOf[t] \in Sessions
    BY SessionType DEF Inv
  <1>2. /\ script' \in [Sessions -> {"idle", "append", "fold"} \cup Turns]
        /\ chat' \in [Sessions -> Seq(Messages)]
    <2>1. CASE Deliver(t)
      BY <1>1, <2>1, DeliverType
    <2>2. CASE script' = [script EXCEPT ![SessionOf[t]] = "idle"] /\ UNCHANGED chat
      BY <1>1, <2>2 DEF Types
    <2>3. QED
      BY <2>1, <2>2 DEF Pause
  <1>3. Types'
    BY <1>1, <1>2 DEF Pause, Goto, Types, Steps
  <1>4. /\ pc'[t] = "paused" /\ pc[t] = "execute"
        /\ UNCHANGED <<masked, rows, prompt, draft, shown, vault, orphaned>>
    BY <1>1 DEF Pause, Goto, Types
  <1>5. QED
    BY <1>1, <1>3, <1>4 DEF TurnOK, OwnOK, KeptOK, PromptOK, DraftOK, AnswerOK

LEMMA ResumeKeeps ==
  ASSUME Inv, NEW t \in Turns, Resume(t)
  PROVE  Types' /\ TurnOK(t)'
  <1>1. Types /\ TurnOK(t)
    BY DEF Inv
  <1>2. Types'
    BY <1>1 DEF Resume, Goto, chatVars, Types, Steps
  <1>3. /\ pc'[t] = "execute" /\ pc[t] = "paused"
        /\ UNCHANGED <<masked, rows, prompt, draft, shown, vault, orphaned>>
    BY <1>1 DEF Resume, Goto, Types
  <1>4. QED
    BY <1>1, <1>2, <1>3 DEF TurnOK, OwnOK, KeptOK, PromptOK, DraftOK, AnswerOK

\* Before, the turn had no rows, so nothing it kept came from any.
LEMMA ExecuteKeeps ==
  ASSUME Inv, NEW t \in Turns, Execute(t)
  PROVE  Types' /\ TurnOK(t)'
  <1>1. Types /\ TurnOK(t)
    BY DEF Inv
  <1>2. PICK text \in RowTexts[t] : rows' = [rows EXCEPT ![t] = text]
    BY DEF Execute
  <1>3. IsRaw(text) /\ text \in Texts
    BY GivenTexts, RawFacts
  <1>4. Types'
    BY <1>1, <1>2, <1>3 DEF Execute, Goto, chatVars, Types, Steps
  <1>5. /\ pc'[t] = "format" /\ pc[t] = "execute" /\ rows'[t] = text
        /\ UNCHANGED <<masked, prompt, draft, shown, vault, orphaned>>
    BY <1>1, <1>2 DEF Execute, Goto, Types
  <1>6. rows[t] = <<>> /\ Items(rows[t]) = {}
    BY <1>1, <1>5, EmptyText DEF TurnOK, OwnOK
  <1>7. OwnOK(t)'
    BY <1>1, <1>3, <1>5, <1>6 DEF TurnOK, OwnOK
  <1>8. QED
    BY <1>1, <1>4, <1>5, <1>7 DEF TurnOK, KeptOK, PromptOK, DraftOK, AnswerOK

LEMMA EndWithoutAnswerKeeps ==
  ASSUME Inv, NEW t \in Turns, EndWithoutAnswer(t)
  PROVE  Types' /\ TurnOK(t)'
  <1>1. Types /\ TurnOK(t)
    BY DEF Inv
  <1>2. Types'
    <2>1. /\ script' \in [Sessions -> {"idle", "append", "fold"} \cup Turns]
          /\ chat' \in [Sessions -> Seq(Messages)]
      BY <1>1, DeliverType DEF EndWithoutAnswer
    <2>2. QED
      BY <1>1, <2>1 DEF EndWithoutAnswer, Goto, Types, Steps
  <1>3. Untouched(t)
    BY <1>1 DEF EndWithoutAnswer, Goto, Untouched, Types
  <1>4. QED
    BY <1>1, <1>2, <1>3, UntouchedKeeps

\* The rows' tokens join those of the question, and all of them resolve.
LEMMA FormatKeeps ==
  ASSUME Inv, NEW t \in Turns, Format(t)
  PROVE  Types' /\ TurnOK(t)'
  <1> DEFINE text == rows[t]
  <1>1. /\ Types /\ TurnOK(t) /\ IsRaw(text) /\ text \in Texts /\ masked[t] \in Texts
        /\ vault[t] \in [Tokens -> Values \cup {Unset}] /\ pc[t] = "format"
    BY RawFacts DEF Inv, Types, TurnOK, OwnOK, Format
  <1>2. PICK ner \in BOOLEAN :
            LET p == <<masked[t], Mask(text, ner)>> IN
            /\ vault' = [vault EXCEPT ![t] = Put(@, text, ner)]
            /\ prompt' = [prompt EXCEPT ![t] = p]
            /\ IF Cached(p) = {}
               THEN Goto(t, "model") /\ UNCHANGED draft
               ELSE /\ Goto(t, "check")
                    /\ draft' \in {[draft EXCEPT ![t] = entry[2]] : entry \in Cached(p)}
    BY DEF Format, Slot
  <1> DEFINE mask == Mask(text, ner)
             p == <<masked[t], mask>>
             put == Put(vault[t], text, ner)
  <1>3. mask \in Texts
    BY <1>1, MaskFacts
  <1>4. /\ put \in [Tokens -> Values \cup {Unset}] /\ Resolved(text, ner, put)
        /\ \A k \in Tokens : /\ put[k] \in {vault[t][k]} \cup Items(text)
                             /\ vault[t][k] # Unset => put[k] # Unset
    BY <1>1, PutFacts
  <1>5. p \in Prompts /\ p = <<masked[t], Mask(text, ner)>>
    BY <1>1, <1>3 DEF Prompts
  <1>6. /\ vault' = [vault EXCEPT ![t] = put] /\ prompt' = [prompt EXCEPT ![t] = p]
        /\ \/ pc' = [pc EXCEPT ![t] = "model"] /\ draft' = draft
           \/ /\ pc' = [pc EXCEPT ![t] = "check"]
              /\ \E entry \in Cached(p) : draft' = [draft EXCEPT ![t] = entry[2]]
        /\ UNCHANGED <<masked, rows, shown, cache, chatVars, restarts, seen, orphaned>>
    BY <1>2 DEF Goto, Format
  <1> HIDE DEF p, put
  <1>7. \A entry \in Cached(p) : entry[2] \in Texts /\ IsCompletion(p, entry[2])
    BY DEF Cached, Inv, CacheOK, Types
  <1>8. Types'
    BY <1>1, <1>4, <1>5, <1>6, <1>7 DEF chatVars, Types, Steps
  <1>9. /\ pc'[t] \in {"model", "check"} /\ masked'[t] = masked[t]
        /\ rows'[t] = text /\ shown'[t] = shown[t] /\ prompt'[t] = p
        /\ vault'[t] = put /\ orphaned' = orphaned
        /\ pc'[t] = "check" => IsCompletion(p, draft'[t])
    BY <1>1, <1>6, <1>7 DEF Types
  <1>10. OwnOK(t)'
    BY <1>1, <1>4, <1>9 DEF TurnOK, OwnOK
  <1>11. KeptOK(t)'
    BY <1>1, <1>4, <1>9 DEF TurnOK, KeptOK
  <1>12. PromptOK(t)'
    BY <1>4, <1>5, <1>9 DEF PromptOK
  <1>13. DraftOK(t)' /\ AnswerOK(t)'
    BY <1>9 DEF DraftOK, AnswerOK
  <1>14. QED
    BY <1>8, <1>10, <1>11, <1>12, <1>13 DEF TurnOK

LEMMA CallModelKeeps ==
  ASSUME Inv, NEW t \in Turns, CallModel(t)
  PROVE  Types' /\ TurnOK(t)' /\ CacheOK'
  <1> DEFINE p == prompt[t]
  <1>1. Types /\ TurnOK(t) /\ CacheOK /\ "response_formatter" \in Callers
        /\ pc[t] = "model"
    BY DEF Inv, Callers, CallModel
  <1>2. p \in Prompts
    <2>1. PICK ner \in BOOLEAN : p = <<masked[t], Mask(rows[t], ner)>>
      BY <1>1 DEF TurnOK, PromptOK
    <2>2. masked[t] \in Texts /\ Mask(rows[t], ner) \in Texts
      BY <1>1, MaskFacts DEF TurnOK, OwnOK, Types
    <2>3. QED
      BY <2>1, <2>2 DEF Prompts
  <1>3. PICK text \in Completions(p) : /\ draft' = [draft EXCEPT ![t] = text]
                                      /\ cache' = CacheSet(p, text)
    BY DEF CallModel
  <1>4. text \in Texts /\ IsCompletion(p, text)
    BY <1>2, <1>3, CompletionFacts
  <1>5. cache' \subseteq cache \cup {<<p, text>>}
    BY <1>3 DEF CacheSet
  <1>6. seen' \in [Callers -> SUBSET Values]
    BY <1>1, ShowType DEF CallModel, Types
  <1>7. <<p, text>> \in Prompts \X Texts
    BY <1>2, <1>4
  <1>8. Types'
    BY <1>1, <1>3, <1>4, <1>5, <1>6, <1>7 DEF CallModel, Goto, chatVars, Types, Steps
  <1>9. /\ pc'[t] = "check" /\ draft'[t] = text
        /\ UNCHANGED <<masked, rows, prompt, shown, vault, orphaned>>
    BY <1>1, <1>3 DEF CallModel, Goto, Types
  <1>10. CacheOK'
    BY <1>1, <1>4, <1>5 DEF CacheOK
  <1>11. OwnOK(t)' /\ KeptOK(t)' /\ PromptOK(t)'
    BY <1>1, <1>9 DEF TurnOK, OwnOK, KeptOK, PromptOK
  <1>12. DraftOK(t)' /\ AnswerOK(t)'
    BY <1>4, <1>9 DEF DraftOK, AnswerOK
  <1>13. QED
    BY <1>8, <1>10, <1>11, <1>12 DEF TurnOK

\* The answer has the turn's own values, every token of its rows comes back,
\* and, if the vault survived, no token of the prompt is left in it.
LEMMA RehydrateKeeps ==
  ASSUME Inv, NEW t \in Turns, Rehydrate(t)
  PROVE  Types' /\ TurnOK(t)'
  <1> DEFINE text == draft[t]
             map == vault[t]
             answer == Unmask(text, map)
  <1>1. /\ Types /\ TurnOK(t) /\ pc[t] = "check" /\ text \in Texts
        /\ map \in [Tokens -> Values \cup {Unset}] /\ IsRaw(rows[t])
    BY DEF Inv, Types, TurnOK, OwnOK, Rehydrate
  <1>2. /\ answer \in Texts /\ DOMAIN answer = DOMAIN text
        /\ \A i \in DOMAIN text : answer[i] = IF text[i] \in Tokens /\ map[text[i]] # Unset
                                              THEN map[text[i]] ELSE text[i]
    BY <1>1, UnmaskFacts
  <1>3. shown' = [shown EXCEPT ![t] = answer]
    BY DEF Rehydrate, Slot
  <1> HIDE DEF answer
  <1>4. Types'
    BY <1>1, <1>2, <1>3 DEF Rehydrate, Goto, chatVars, Types, Steps
  <1>5. /\ pc'[t] = "critic" /\ shown'[t] = answer
        /\ UNCHANGED <<masked, rows, prompt, draft, vault, orphaned>>
    BY <1>1, <1>3 DEF Rehydrate, Goto, Types
  <1>6. PICK ner \in BOOLEAN : /\ prompt[t] = <<masked[t], Mask(rows[t], ner)>>
                              /\ Resolved(rows[t], ner, map)
    BY <1>1 DEF TurnOK, PromptOK
  <1> DEFINE mask == Mask(rows[t], ner)
  <1>7. /\ DOMAIN mask = DOMAIN rows[t]
        /\ \A i \in DOMAIN rows[t] :
              mask[i] = IF rows[t][i] \in Detected(ner)
                        THEN Token(rows[t], i) ELSE rows[t][i]
        /\ Items(mask) \cap Values \subseteq Items(rows[t])
        /\ \A k \in Items(mask) \cap Tokens :
              \E i \in DOMAIN rows[t] : rows[t][i] \in Detected(ner) /\ k = Token(rows[t], i)
    BY <1>1, MaskFacts
  <1>8. prompt[t][1] = masked[t] /\ prompt[t][2] = mask
    BY <1>6
  <1> HIDE DEF mask
  <1>9. /\ Items(text) \cap Values \subseteq Items(Question[t]) \cup Items(rows[t])
        /\ \A k \in Tokens : map[k] \in {Unset} \cup Items(Question[t]) \cup Items(rows[t])
    <2>1. Items(text) \subseteq Items(masked[t]) \cup Items(mask) \cup Tokens
      BY <1>1, <1>8 DEF TurnOK, DraftOK, IsCompletion
    <2>2. Items(masked[t]) \cap Values \subseteq Items(Question[t])
      BY <1>1 DEF TurnOK, OwnOK
    <2>3. \A k \in Tokens : map[k] \in {Unset} \cup Items(Question[t]) \cup Items(rows[t])
      BY <1>1 DEF TurnOK, OwnOK
    <2>4. QED
      BY <1>7, <2>1, <2>2, <2>3, ValueAssumption
  <1>10. Items(answer) \cap Values \subseteq Items(Question[t]) \cup Items(rows[t])
    <2>1. SUFFICES ASSUME NEW i \in DOMAIN text, answer[i] \in Values
                   PROVE  answer[i] \in Items(Question[t]) \cup Items(rows[t])
      BY <1>2 DEF Items
    <2>2. CASE text[i] \in Tokens /\ map[text[i]] # Unset
      BY <1>2, <1>9, <2>2
    <2>3. CASE ~ (text[i] \in Tokens /\ map[text[i]] # Unset)
      <3>1. answer[i] = text[i] /\ text[i] \in Items(text)
        BY <1>2, <2>3 DEF Items
      <3>2. QED
        BY <1>9, <2>1, <3>1
    <2>4. QED
      BY <2>2, <2>3
  <1>11. ASSUME NEW i \in DOMAIN rows[t], NEW j \in DOMAIN text, text[j] = mask[i]
         PROVE  answer[j] = rows[t][i]
    <2>1. rows[t][i] \in Values /\ rows[t][i] \notin Tokens
      BY <1>1, RawFacts
    <2>2. CASE rows[t][i] \in Detected(ner)
      <3>1. text[j] = Token(rows[t], i) /\ Token(rows[t], i) \in Tokens
        BY <1>1, <1>7, <1>11, <2>2, TokenType
      <3>2. map[text[j]] = rows[t][i] /\ rows[t][i] # Unset
        BY <1>6, <2>1, <2>2, <3>1, ValueAssumption DEF Resolved
      <3>3. QED
        BY <1>2, <3>1, <3>2
    <2>3. CASE rows[t][i] \notin Detected(ner)
      BY <1>2, <1>7, <1>11, <2>1, <2>3
    <2>4. QED
      BY <2>2, <2>3
  <1>12. ASSUME t \notin orphaned
         PROVE  Items(answer) \cap (Items(masked[t]) \cup Items(mask)) \cap Tokens = {}
    <2>1. SUFFICES ASSUME NEW j \in DOMAIN text, answer[j] \in Tokens,
                          answer[j] \in Items(masked[t]) \cup Items(mask)
                   PROVE  FALSE
      BY <1>2 DEF Items
    <2>2. answer[j] = text[j] /\ map[answer[j]] = Unset
      <3>1. text[j] \in Tokens => map[text[j]] \in Values \cup {Unset}
        BY <1>1
      <3>2. CASE text[j] \in Tokens /\ map[text[j]] # Unset
        BY <1>2, <2>1, <3>1, <3>2, ValueAssumption
      <3>3. CASE ~ (text[j] \in Tokens /\ map[text[j]] # Unset)
        BY <1>2, <2>1, <3>3
      <3>4. QED
        BY <3>2, <3>3
    <2>3. CASE answer[j] \in Items(masked[t])
      BY <1>1, <1>12, <2>1, <2>2, <2>3 DEF TurnOK, KeptOK
    <2>4. CASE answer[j] \in Items(mask)
      <3>1. PICK i \in DOMAIN rows[t] : /\ rows[t][i] \in Detected(ner)
                                       /\ answer[j] = Token(rows[t], i)
        BY <1>7, <2>1, <2>4
      <3>2. map[answer[j]] = rows[t][i] /\ rows[t][i] \in Values
        BY <1>1, <1>6, <3>1, RawFacts DEF Resolved
      <3>3. QED
        BY <2>2, <3>2, ValueAssumption
    <2>5. QED
      BY <2>1, <2>3, <2>4
  <1>13. OwnOK(t)'
    BY <1>1, <1>5, <1>10 DEF TurnOK, OwnOK
  <1>14. KeptOK(t)' /\ PromptOK(t)' /\ DraftOK(t)'
    BY <1>5 DEF KeptOK, PromptOK, DraftOK
  <1>15. AnswerOK(t)'
    BY <1>5, <1>8, <1>11, <1>12 DEF AnswerOK
  <1>16. QED
    BY <1>4, <1>13, <1>14, <1>15 DEF TurnOK

LEMMA CriticiseKeeps ==
  ASSUME Inv, NEW t \in Turns, Criticise(t)
  PROVE  Types' /\ TurnOK(t)'
  <1>1. Types /\ TurnOK(t) /\ "critic" \in Callers
    BY DEF Inv, Callers
  <1>2. seen' \in [Callers -> SUBSET Values]
    <2>1. CASE CriticEnabled
      BY <1>1, <2>1, ShowType DEF Criticise, Types
    <2>2. CASE ~ CriticEnabled
      BY <1>1, <2>2 DEF Criticise, Types
    <2>3. QED
      BY <2>1, <2>2
  <1>3. /\ script' \in [Sessions -> {"idle", "append", "fold"} \cup Turns]
        /\ chat' \in [Sessions -> Seq(Messages)]
    BY <1>1, DeliverType DEF Criticise
  <1>4. Types'
    BY <1>1, <1>2, <1>3 DEF Criticise, Goto, Types, Steps
  <1>5. Untouched(t)
    BY <1>1 DEF Criticise, Goto, Untouched, Types
  <1>6. QED
    BY <1>1, <1>4, <1>5, UntouchedKeeps

---------------------------------------------------------------------------
(* What the models see, and the chats.                                     *)

\* The two nodes' prompts are made of masks.
LEMMA OperationSees ==
  ASSUME Inv, NEW t \in Turns, Operation(t)
  PROVE  NodesSeeNoValues'
  <1> DEFINE Shows(c, texts) == UNION {Items(text) : text \in texts}
  <1>1. Types /\ TurnOK(t) /\ NodesSeeNoValues /\ {"sql_generator", "response_formatter",
                                                   "critic", "memory"} = Callers
    BY DEF Inv, Callers
  <1>2. Items(masked[t]) \cap Structured = {}
    BY <1>1 DEF TurnOK, OwnOK, Values
  <1>3. CASE Generate(t)
    <2>1. /\ seen'["sql_generator"] = seen["sql_generator"] \cup
                 ((UNION {Items(text) : text \in {PromptQuestion(t)}}) \cap Values)
          /\ seen'["response_formatter"] = seen["response_formatter"]
      BY <1>1, <1>3, ShowType DEF Generate, Types
    <2>2. UNION {Items(text) : text \in {PromptQuestion(t)}} = Items(masked[t])
      BY DEF PromptQuestion
    <2>3. QED
      BY <1>1, <1>2, <2>1, <2>2 DEF NodesSeeNoValues
  <1>4. CASE CallModel(t)
    <2>1. PICK ner \in BOOLEAN : prompt[t] = <<masked[t], Mask(rows[t], ner)>>
      BY <1>1, <1>4 DEF CallModel, TurnOK, PromptOK
    <2>2. Items(Mask(rows[t], ner)) \cap Structured = {}
      <3>1. IsRaw(rows[t])
        BY <1>1 DEF TurnOK, OwnOK
      <3>2. Items(Mask(rows[t], ner)) \cap Values \subseteq Items(rows[t]) \ Structured
        BY <3>1, MaskFacts
      <3>3. QED
        BY <3>2 DEF Values
    <2>3. /\ seen'["response_formatter"] = seen["response_formatter"] \cup
                 ((UNION {Items(text) : text \in Items(prompt[t])}) \cap Values)
          /\ seen'["sql_generator"] = seen["sql_generator"]
      BY <1>1, <1>4, ShowType DEF CallModel, Types
    <2>4. Items(prompt[t]) = {masked[t], Mask(rows[t], ner)}
      BY <2>1 DEF Items
    <2>5. UNION {Items(text) : text \in Items(prompt[t])}
              = Items(masked[t]) \cup Items(Mask(rows[t], ner))
      BY <2>4
    <2>6. QED
      BY <1>1, <1>2, <2>2, <2>3, <2>5 DEF NodesSeeNoValues
  <1>5. CASE Criticise(t)
    <2>1. /\ seen'["sql_generator"] = seen["sql_generator"]
          /\ seen'["response_formatter"] = seen["response_formatter"]
      <3>1. CASE CriticEnabled
        BY <1>1, <1>5, <3>1, ShowType DEF Criticise, Types
      <3>2. CASE ~ CriticEnabled
        BY <1>5, <3>2 DEF Criticise
      <3>3. QED
        BY <3>1, <3>2
    <2>2. QED
      BY <1>1, <2>1 DEF NodesSeeNoValues
  <1>6. CASE seen' = seen
    BY <1>1, <1>6 DEF NodesSeeNoValues
  <1>7. QED
    BY <1>3, <1>4, <1>5, <1>6
       DEF Operation, Ask, Pause, Resume, Execute, EndWithoutAnswer, Format, Rehydrate

\* A turn's operations move the script of its chat on and append to the chat.
LEMMA OperationChats ==
  ASSUME Inv, NEW t \in Turns, Operation(t), NEW s \in Sessions
  PROVE  ChatOK(s)'
  <1> DEFINE a == SessionOf[t]
  <1>1. /\ Types /\ ChatOK(s) /\ a \in Sessions /\ ChatOK(a)
        /\ chat[a] \in Seq(Messages) /\ t \notin {"idle", "append", "fold"}
        /\ <<t, "user">> \in Messages /\ <<t, "assistant">> \in Messages
    BY SessionType, TurnAssumption DEF Inv, Types, Messages
  <1>2. UNCHANGED <<summary, folding>>
    BY DEF Operation, Ask, Generate, Pause, Resume, Execute, EndWithoutAnswer, Format,
           CallModel, Rehydrate, Criticise, chatVars
  <1>3. CASE UNCHANGED <<script, chat, folded>>
    BY <1>1, <1>2, <1>3 DEF ChatOK, Older
  <1>a. ASSUME NEW st \in {"idle", "append"} \cup Turns, NEW c,
               script' = [script EXCEPT ![a] = st], chat' = [chat EXCEPT ![a] = c],
               Items(chat[a]) \subseteq Items(c), ~ folded'[a],
               s # a => folded'[s] = folded[s]
        PROVE  ChatOK(s)'
    <2>1. CASE s = a
      <3>1. /\ script'[s] = st /\ chat'[s] = c /\ script'[s] # "fold" /\ ~ folded'[s]
        BY <1>1, <1>a, <2>1, TurnAssumption DEF Types
      <3>2. summary'[s] \cup folding'[s] \subseteq Items(chat'[s])
        BY <1>1, <1>2, <1>a, <2>1, <3>1 DEF ChatOK
      <3>3. QED
        BY <3>1, <3>2 DEF ChatOK
    <2>2. CASE s # a
      <3>1. script'[s] = script[s] /\ chat'[s] = chat[s] /\ folded'[s] = folded[s]
        BY <1>1, <1>a, <2>2 DEF Types
      <3>2. QED
        BY <1>1, <1>2, <3>1 DEF ChatOK, Older
    <2>3. QED
      BY <2>1, <2>2
  <1>4. CASE Ask(t)
    <2>1. Items(chat[a]) \subseteq Items(Append(chat[a], <<t, "user">>))
      BY <1>1, AppendKeeps
    <2>2. folded'[a] = FALSE /\ (s # a => folded'[s] = folded[s])
      BY <1>1, <1>4 DEF Ask, Types
    <2>3. QED
      BY <1>4, <2>1, <2>2, <1>a DEF Ask
  <1>5. CASE Deliver(t) /\ folded' = folded
    <2>1. CASE script[a] = t
      <3>1. Items(chat[a]) \subseteq Items(Append(chat[a], <<t, "assistant">>))
        BY <1>1, AppendKeeps
      <3>2. ~ folded[a]
        BY <1>1, <2>1 DEF ChatOK
      <3>3. QED
        BY <1>5, <2>1, <3>1, <3>2, <1>a DEF Deliver
    <2>2. CASE script[a] # t
      BY <1>3, <1>5, <2>2 DEF Deliver
    <2>3. QED
      BY <2>1, <2>2
  <1>6. CASE Pause(t) /\ ~ Deliver(t)
    <2>1. /\ script' = [script EXCEPT ![a] = "idle"] /\ chat' = chat
          /\ folded' = folded /\ script[a] = t
      BY <1>6 DEF Pause
    <2>2. ~ folded[a]
      BY <1>1, <2>1 DEF ChatOK
    <2>3. chat' = [chat EXCEPT ![a] = chat[a]]
      BY <1>1, <2>1 DEF Types
    <2>4. QED
      BY <2>1, <2>2, <2>3, <1>a
  <1>7. QED
    BY <1>3, <1>4, <1>5, <1>6
       DEF Operation, Generate, Pause, Resume, Execute, EndWithoutAnswer, Format,
           CallModel, Rehydrate, Criticise, chatVars

\* An operation keeps the whole invariant.
LEMMA OperationKeeps ==
  ASSUME Inv, NEW t \in Turns, Operation(t)
  PROVE  Inv'
  <1>1. Types' /\ TurnOK(t)'
    BY AskKeeps, GenerateKeeps, PauseKeeps, ResumeKeeps, ExecuteKeeps,
       EndWithoutAnswerKeeps, FormatKeeps, CallModelKeeps, RehydrateKeeps,
       CriticiseKeeps DEF Operation
  <1>2. \A u \in Turns \ {t} : TurnOK(u)'
    BY OperationIsLocal, UntouchedKeeps DEF Inv
  <1>3. CacheOK'
    <2>1. CASE CallModel(t)
      BY <2>1, CallModelKeeps
    <2>2. CASE ~ CallModel(t)
      <3>1. cache' = cache
        BY <2>2 DEF Operation, Ask, Generate, Pause, Resume, Execute, EndWithoutAnswer,
                    Format, Rehydrate, Criticise
      <3>2. QED
        BY <3>1 DEF Inv, CacheOK
    <2>3. QED
      BY <2>1, <2>2
  <1>4. QED
    BY <1>1, <1>2, <1>3, OperationSees, OperationChats DEF Inv

---------------------------------------------------------------------------
(* The script runs of a chat, and the restart.                             *)

\* One step of the script around the turns of chat s.
ScriptStep(s) ==
    Summarize(s) \/ SummarizeFails(s) \/ StoreSummary(s) \/ Rerun(s) \/ NewChat(s)

LEMMA ScriptTypes ==
  ASSUME Inv, NEW s \in Sessions, ScriptStep(s)
  PROVE  Types' /\ NodesSeeNoValues' /\ cache' = cache /\ \A t \in Turns : Untouched(t)
  <1>1. Types /\ NodesSeeNoValues /\ "memory" \in Callers
    BY DEF Inv, Callers
  <1>2. CASE Summarize(s)
    <2> DEFINE all == UNION {Items(Content(m)) : m \in Older(s)}
               new == all \cap Values
    <2>1. seen' = [seen EXCEPT !["memory"] = @ \cup new]
      BY <1>2 DEF Summarize
    <2> HIDE DEF all
    <2>2. new \in SUBSET Values
      OBVIOUS
    <2> HIDE DEF new
    <2>3. /\ seen' \in [Callers -> SUBSET Values]
          /\ seen'["sql_generator"] = seen["sql_generator"]
          /\ seen'["response_formatter"] = seen["response_formatter"]
      BY <1>1, <2>1, <2>2 DEF Types, Callers
    <2>4. summary[s] \cup Older(s) \in SUBSET Messages
      BY <1>1, OlderIsOld DEF Types
    <2>5. Types'
      BY <1>1, <1>2, <2>3, <2>4 DEF Summarize, turnVars, Types
    <2>6. QED
      BY <1>1, <1>2, <2>3, <2>5 DEF Summarize, turnVars, NodesSeeNoValues, Untouched
  <1>3. CASE SummarizeFails(s)
    <2>1. Types'
      BY <1>1, <1>3 DEF SummarizeFails, turnVars, Types
    <2>2. QED
      BY <1>1, <1>3, <2>1 DEF SummarizeFails, turnVars, NodesSeeNoValues, Untouched
  <1>4. CASE StoreSummary(s)
    <2>1. Types'
      BY <1>1, <1>4 DEF StoreSummary, turnVars, Types
    <2>2. QED
      BY <1>1, <1>4, <2>1 DEF StoreSummary, turnVars, NodesSeeNoValues, Untouched
  <1>5. CASE Rerun(s) \/ NewChat(s)
    <2>1. /\ pc' = [t \in Turns |-> IF t \in Stopped(s) THEN "gone" ELSE pc[t]]
          /\ UNCHANGED <<masked, rows, prompt, draft, shown, vault, cache, restarts,
                         seen, orphaned>>
      BY <1>5 DEF Rerun, NewChat
    <2>2. pc' \in [Turns -> Steps] /\ \A t \in Turns : Untouched(t)
      BY <1>1, <2>1 DEF Types, Steps, Untouched
    <2>3. /\ script' = [script EXCEPT ![s] = "idle"]
          /\ folding' = [folding EXCEPT ![s] = {}]
          /\ chat' \in {chat, [chat EXCEPT ![s] = <<>>]}
          /\ summary' \in {summary, [summary EXCEPT ![s] = {}]}
          /\ folded' \in {folded, [folded EXCEPT ![s] = FALSE]}
      BY <1>5 DEF Rerun, NewChat
    <2>4. /\ chat' \in [Sessions -> Seq(Messages)]
          /\ summary' \in [Sessions -> SUBSET Messages]
          /\ folded' \in [Sessions -> BOOLEAN]
      <3>1. <<>> \in Seq(Messages)
        OBVIOUS
      <3>2. QED
        BY <1>1, <2>3, <3>1 DEF Types
    <2>5. Types'
      BY <1>1, <2>1, <2>2, <2>3, <2>4 DEF Types
    <2>6. QED
      BY <1>1, <2>1, <2>2, <2>5 DEF NodesSeeNoValues
  <1>6. QED
    BY <1>2, <1>3, <1>4, <1>5 DEF ScriptStep

LEMMA ScriptChats ==
  ASSUME Inv, NEW s \in Sessions, ScriptStep(s), NEW q \in Sessions
  PROVE  ChatOK(q)'
  <1>1. /\ Types /\ ChatOK(s) /\ ChatOK(q)
        /\ Older(s) \subseteq Items(chat[s])
    BY OlderIsOld DEF Inv
  <1>2. CASE q # s
    <2>1. /\ script'[q] = script[q] /\ chat'[q] = chat[q] /\ summary'[q] = summary[q]
          /\ folding'[q] = folding[q] /\ folded'[q] = folded[q]
      BY <1>1, <1>2 DEF ScriptStep, Summarize, SummarizeFails, StoreSummary, Rerun,
                        NewChat, Types
    <2>2. QED
      BY <1>1, <2>1 DEF ChatOK, Older
  <1>3. CASE q = s /\ Summarize(s)
    <2>1. /\ script[s] = "append" /\ script'[s] = "fold"
          /\ folding'[s] = summary[s] \cup Older(s)
          /\ UNCHANGED <<chat, summary, folded>>
      BY <1>1, <1>3 DEF Summarize, Types
    <2>2. QED
      BY <1>1, <1>3, <2>1 DEF ChatOK, Older
  <1>4. CASE q = s /\ SummarizeFails(s)
    <2>1. /\ script[s] = "append" /\ script'[s] = "idle"
          /\ UNCHANGED <<chat, summary, folding, folded>>
      BY <1>1, <1>4 DEF SummarizeFails, Types
    <2>2. QED
      BY <1>1, <1>4, <2>1 DEF ChatOK, Older
  <1>5. CASE q = s /\ StoreSummary(s)
    <2>1. /\ script[s] = "fold" /\ script'[s] = "idle"
          /\ summary'[s] = folding[s] /\ folding'[s] = {} /\ chat' = chat
      BY <1>1, <1>5 DEF StoreSummary, Types
    <2>2. QED
      BY <1>1, <1>5, <2>1 DEF ChatOK, Older
  <1>6. CASE q = s /\ Rerun(s)
    <2>1. /\ script[s] # "idle" /\ script'[s] = "idle" /\ folding'[s] = {}
          /\ UNCHANGED <<chat, summary, folded>>
      BY <1>1, <1>6 DEF Rerun, Types
    <2>2. QED
      BY <1>1, <1>6, <2>1 DEF ChatOK, Older
  <1>7. CASE q = s /\ NewChat(s)
    <2>1. /\ script'[s] = "idle" /\ folding'[s] = {} /\ summary'[s] = {}
          /\ folded'[s] = FALSE
      BY <1>1, <1>7 DEF NewChat, Types
    <2>2. QED
      BY <1>7, <2>1 DEF ChatOK
  <1>8. QED
    BY <1>2, <1>3, <1>4, <1>5, <1>6, <1>7 DEF ScriptStep

\* A restart empties the vault: what was running is gone, what was paused is
\* marked, and a new or finished turn needs nothing from it.
LEMMA RestartKeeps ==
  ASSUME Inv, Restart
  PROVE  Inv'
  <1>1. Types /\ NodesSeeNoValues /\ CacheOK
    BY DEF Inv
  <1>2. /\ vault' = [t \in Turns |-> NoMap]
        /\ orphaned' = orphaned \cup {t \in Turns : pc[t] = "paused"}
        /\ pc' = [t \in Turns |-> IF pc[t] \in {"new", "paused", "done"}
                                 THEN pc[t] ELSE "gone"]
        /\ UNCHANGED <<masked, rows, prompt, draft, shown, cache, seen>>
    BY DEF Restart
  <1>3. NoMap \in [Tokens -> Values \cup {Unset}] /\ \A k \in Tokens : NoMap[k] = Unset
    BY DEF NoMap
  <1>4. Types'
    <2>1. pc' \in [Turns -> Steps]
      BY <1>1, <1>2 DEF Types, Steps
    <2>2. /\ vault' \in [Turns -> [Tokens -> Values \cup {Unset}]]
          /\ orphaned' \subseteq Turns
      BY <1>1, <1>2, <1>3 DEF Types
    <2>3. restarts' \in 0 .. MaxRestarts
      BY <1>1, BoundAssumption DEF Restart, Types
    <2>4. /\ script' \in [Sessions -> {"idle", "append", "fold"} \cup Turns]
          /\ chat' \in [Sessions -> Seq(Messages)]
          /\ summary' \in [Sessions -> SUBSET Messages]
          /\ folding' \in [Sessions -> SUBSET Messages]
          /\ folded' \in [Sessions -> BOOLEAN]
      <3>1. <<>> \in Seq(Messages)
        OBVIOUS
      <3>2. QED
        BY <3>1 DEF Restart
    <2>5. QED
      BY <1>1, <1>2, <2>1, <2>2, <2>3, <2>4 DEF Types
  <1>5. ASSUME NEW t \in Turns PROVE TurnOK(t)'
    <2>1. TurnOK(t)
      BY DEF Inv
    <2>2. /\ pc'[t] \in {"new", "paused", "done", "gone"}
          /\ pc'[t] \in {"new", "paused"} => pc'[t] = pc[t]
          /\ vault'[t] = NoMap
          /\ pc'[t] = "paused" => t \in orphaned'
      BY <1>2
    <2>3. OwnOK(t)'
      BY <1>2, <1>3, <2>1, <2>2 DEF TurnOK, OwnOK
    <2>4. KeptOK(t)' /\ PromptOK(t)' /\ DraftOK(t)' /\ AnswerOK(t)'
      BY <2>2 DEF KeptOK, PromptOK, DraftOK, AnswerOK
    <2>5. QED
      BY <2>3, <2>4 DEF TurnOK
  <1>6. CacheOK' /\ NodesSeeNoValues'
    BY <1>1, <1>2 DEF CacheOK, NodesSeeNoValues
  <1>7. ASSUME NEW s \in Sessions PROVE ChatOK(s)'
    <2>1. /\ script'[s] = "idle" /\ summary'[s] = {} /\ folding'[s] = {}
          /\ folded'[s] = FALSE
      BY DEF Restart
    <2>2. QED
      BY <2>1 DEF ChatOK
  <1>8. QED
    BY <1>4, <1>5, <1>6, <1>7 DEF Inv

---------------------------------------------------------------------------
(* The invariant.                                                          *)

LEMMA InvInit == Init => Inv
  <1> SUFFICES ASSUME Init PROVE Inv
    OBVIOUS
  <1>1. NoMap \in [Tokens -> Values \cup {Unset}] /\ \A k \in Tokens : NoMap[k] = Unset
    BY DEF NoMap
  <1>2. Types
    <2>1. <<>> \in Seq(Messages) /\ 0 \in 0 .. MaxRestarts
      BY BoundAssumption
    <2>2. QED
      BY <1>1, <2>1, EmptyText DEF Init, Types, Steps
  <1>3. ASSUME NEW t \in Turns PROVE TurnOK(t)
    <2>1. /\ pc[t] = "new" /\ masked[t] = <<>> /\ rows[t] = <<>> /\ shown[t] = <<>>
          /\ vault[t] = NoMap
      BY DEF Init
    <2>2. QED
      BY <1>1, <2>1, EmptyText DEF TurnOK, OwnOK, KeptOK, PromptOK, DraftOK, AnswerOK
  <1>4. CacheOK /\ NodesSeeNoValues
    BY DEF Init, CacheOK, NodesSeeNoValues, Callers
  <1>5. ASSUME NEW s \in Sessions PROVE ChatOK(s)
    BY DEF Init, ChatOK
  <1>6. QED
    BY <1>2, <1>3, <1>4, <1>5 DEF Inv

LEMMA InvStep == Inv /\ [Next]_vars => Inv'
  <1> SUFFICES ASSUME Inv, [Next]_vars PROVE Inv'
    OBVIOUS
  <1>1. ASSUME NEW t \in Turns, Operation(t) PROVE Inv'
    BY <1>1, OperationKeeps
  <1>2. ASSUME NEW s \in Sessions, ScriptStep(s) PROVE Inv'
    <2>1. /\ Types' /\ NodesSeeNoValues' /\ cache' = cache
          /\ \A t \in Turns : Untouched(t)
      BY <1>2, ScriptTypes
    <2>2. \A t \in Turns : TurnOK(t)'
      BY <2>1, UntouchedKeeps DEF Inv
    <2>3. CacheOK'
      BY <2>1 DEF Inv, CacheOK
    <2>4. QED
      BY <1>2, <2>1, <2>2, <2>3, ScriptChats DEF Inv
  <1>3. CASE Restart
    BY <1>3, RestartKeeps
  <1>4. CASE UNCHANGED vars
    <2>1. UNCHANGED <<pc, masked, rows, prompt, draft, shown, vault, cache, script, chat,
                      summary, folding, folded, restarts, seen, orphaned>>
      BY <1>4 DEF vars, turnVars, chatVars
    <2>2. Types' /\ CacheOK' /\ NodesSeeNoValues'
      BY <2>1 DEF Inv, Types, CacheOK, NodesSeeNoValues
    <2>3. \A t \in Turns : Untouched(t)
      BY <2>1 DEF Untouched
    <2>4. \A s \in Sessions : ChatOK(s)'
      BY <2>1 DEF Inv, ChatOK, Older
    <2>5. QED
      BY <2>2, <2>3, <2>4, UntouchedKeeps DEF Inv
  <1>5. QED
    BY <1>1, <1>2, <1>3, <1>4 DEF Next, Operation, ScriptStep

LEMMA Invariance == Spec => []Inv
  BY InvInit, InvStep, PTL DEF Spec

\* Type correctness, for any texts and any interleaving of turns.
THEOREM TypeCorrect == Spec => []TypeOK
  <1>1. Inv => TypeOK
    <2>1. SUFFICES ASSUME Inv PROVE TypeOK
      OBVIOUS
    <2>2. ASSUME NEW s \in Sessions
          PROVE  Items(chat[s]) \cup summary[s] \cup folding[s]
                     \subseteq Turns \X {"user", "assistant"}
      BY <2>1, OlderIsOld DEF Inv, Types, Messages
    <2>3. QED
      BY <2>1, <2>2 DEF Inv, Types, Steps, TypeOK
  <1>2. QED
    BY Invariance, <1>1, PTL

\* Although all runs share one vault and one cache of completions, no answer
\* ever shows a value of another question or of another result.
THEOREM AnswersHaveOwnValues == Spec => []AnswersAreOwn
  <1>1. Inv => AnswersAreOwn
    BY DEF Inv, TurnOK, OwnOK, AnswersAreOwn
  <1>2. QED
    BY Invariance, <1>1, PTL

\* Each token of the rows comes back as the value it was made from, whichever
\* run the completion was written for and whatever the detector missed.
THEOREM RowTokensComeBack == Spec => []RowTokensRehydrate
  <1>1. Inv => RowTokensRehydrate
    BY DEF Inv, TurnOK, AnswerOK, RowTokensRehydrate
  <1>2. QED
    BY Invariance, <1>1, PTL

\* A token of the prompt is left in an answer only if the process restarted
\* while the run was paused.
THEOREM NoTokenLeftOver == Spec => []LeftoversOnlyAfterRestart
  <1>1. Inv => LeftoversOnlyAfterRestart
    BY DEF Inv, TurnOK, AnswerOK, LeftoversOnlyAfterRestart
  <1>2. QED
    BY Invariance, <1>1, PTL

\* No structured value ever reaches a prompt of the generator or of the
\* formatter.
THEOREM NodePromptsAreMasked == Spec => []NodesSeeNoValues
  <1>1. Inv => NodesSeeNoValues
    BY DEF Inv
  <1>2. QED
    BY Invariance, <1>1, PTL

\* For chats of any length: the summary is made of the chat's own messages and
\* covers all but the last KeepLast after a fold that returned.
THEOREM SummaryCoversOldTurns == Spec => []SummaryIsOldTurns
  <1>1. Inv => SummaryIsOldTurns
    BY DEF Inv, ChatOK, SummaryIsOldTurns
  <1>2. QED
    BY Invariance, <1>1, PTL

=============================================================================
