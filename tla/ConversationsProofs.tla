------------------------- MODULE ConversationsProofs -------------------------
(***************************************************************************)
(* Conversations: the invariant, for any number of symbols, sizes, edits   *)
(* and trades, any threshold and any factor; then what it says of steps.   *)
(* Caps and streaks stay opaque: all that is used of them is that they are *)
(* functions of the symbol's closed trades.                                *)
(***************************************************************************)
EXTENDS Conversations, TLAPS

(* What a step leaves alone as long as it leaves the record alone.           *)
LEMMA RecordKept ==
    ASSUME HighLeverageIsJustified, IdsAreUnique, UNCHANGED recordVars
    PROVE  HighLeverageIsJustified' /\ IdsAreUnique'
BY DEF HighLeverageIsJustified, IdsAreUnique, recordVars

(* A draft that has no leverage yet is not blocked.                          *)
LEMMA NothingIsNotBlocked == ~ Blocked(NoLeverage)
BY ConversationAssumption DEF ConversationAssumption, Blocked, NoLeverage

(* What Persist and Forget make of the conversation.                         *)
LEMMA PersistIsTyped ==
    ASSUME NEW step \in FormSteps, NEW draft \in Drafts, Persist(step, draft)
    PROVE  /\ conv' \in [step : FormSteps \cup {"IDLE", "EDIT_CLOSED_CONFIRM"},
                         age : 0 .. Timeout + 1, draft : Drafts, edit : PendingEdits]
           /\ conv'.step = step /\ conv'.draft = draft /\ conv'.edit = NoEdit
           /\ PreviewStands'
<1>1. NoEdit \in PendingEdits
  BY DEF NoEdit, PendingEdits, NoRequest, EditRequests, Reasons
<1>2. 0 \in 0 .. Timeout + 1
  BY ConversationAssumption DEF ConversationAssumption
<1>3. step # "EDIT_CLOSED_CONFIRM"
  BY DEF FormSteps, AfterSize, AfterLeverage, PlainSteps
<1> QED
  BY <1>1, <1>2, <1>3 DEF Persist, PreviewStands

LEMMA ForgetIsSafe ==
    ASSUME Forget
    PROVE  /\ conv' \in [step : FormSteps \cup {"IDLE", "EDIT_CLOSED_CONFIRM"},
                         age : 0 .. Timeout + 1, draft : Drafts, edit : PendingEdits]
           /\ moved' \in BOOLEAN
           /\ shown'.symbol \in Symbols \cup {NoSymbol}
           /\ shown'.warning \in {"no", "yes"}
           /\ DraftMatchesStep'
           /\ SizedWithinCap'
           /\ PreviewStands'
<1>1. NoEdit \in PendingEdits
  BY DEF NoEdit, PendingEdits, NoRequest, EditRequests, Reasons
<1>2. 0 \in 0 .. Timeout + 1
  BY ConversationAssumption DEF ConversationAssumption
<1>3. EmptyDraft \in Drafts
  BY DEF EmptyDraft, Drafts, Reasons
<1>4. "IDLE" \notin FormSteps /\ "IDLE" \notin AfterSize
  BY DEF FormSteps, AfterSize, AfterLeverage, PlainSteps
<1> QED
  BY <1>1, <1>2, <1>3, <1>4
  DEF Forget, NoConversation, NoPreview, PreviewStands, DraftMatchesStep, SizedWithinCap

LEMMA InitEstablishes == Init => ConversationInvariant
<1> SUFFICES ASSUME Init PROVE ConversationInvariant
  OBVIOUS
<1>1. TypeOK
  <2>1. NoEdit \in PendingEdits
    BY DEF NoEdit, PendingEdits, NoRequest, EditRequests, Reasons
  <2>2. 0 \in 0 .. Timeout + 1 /\ 0 \in 0 .. MaxTrades
    BY ConversationAssumption DEF ConversationAssumption
  <2>3. EmptyDraft \in Drafts
    BY DEF EmptyDraft, Drafts, Reasons
  <2>4. closed \in [Symbols -> Seq(ClosedTrades)]
    BY DEF Init
  <2>5. conv \in [step : FormSteps \cup {"IDLE", "EDIT_CLOSED_CONFIRM"},
                  age : 0 .. Timeout + 1, draft : Drafts, edit : PendingEdits]
    BY <2>1, <2>2, <2>3 DEF Init, NoConversation
  <2> QED
    BY <2>2, <2>4, <2>5 DEF Init, TypeOK, NoPreview
<1>2. "IDLE" \notin FormSteps /\ "IDLE" \notin AfterSize
  BY DEF FormSteps, AfterSize, AfterLeverage, PlainSteps
<1>3. DraftMatchesStep /\ SizedWithinCap /\ PreviewStands
  BY <1>2 DEF Init, NoConversation, DraftMatchesStep, SizedWithinCap, PreviewStands
<1>4. HighLeverageIsJustified /\ IdsAreUnique
  BY DEF Init, HighLeverageIsJustified, IdsAreUnique
<1> QED
  BY <1>1, <1>3, <1>4 DEF ConversationInvariant

-----------------------------------------------------------------------------
(* The form.                                                                 *)

LEMMA StartKeeps == ConversationInvariant /\ Start => ConversationInvariant'
<1> SUFFICES ASSUME ConversationInvariant, Start PROVE ConversationInvariant'
  OBVIOUS
<1>1. "SYMBOL" \in FormSteps /\ "SYMBOL" \notin AfterSize /\ "SYMBOL" \notin AfterLeverage
  BY DEF FormSteps, AfterSize, AfterLeverage, PlainSteps
<1>2. EmptyDraft \in Drafts
  BY DEF EmptyDraft, Drafts, Reasons
<1>3. /\ conv' \in [step : FormSteps \cup {"IDLE", "EDIT_CLOSED_CONFIRM"},
                    age : 0 .. Timeout + 1, draft : Drafts, edit : PendingEdits]
      /\ conv'.step = "SYMBOL" /\ conv'.draft = EmptyDraft /\ conv'.edit = NoEdit
      /\ PreviewStands'
  BY <1>1, <1>2, PersistIsTyped DEF Start
<1>4. TypeOK'
  BY <1>3 DEF ConversationInvariant, TypeOK, Start, recordVars, NoPreview
<1>5. DraftMatchesStep' /\ SizedWithinCap'
  BY <1>1, <1>3, NothingIsNotBlocked DEF DraftMatchesStep, SizedWithinCap, EmptyDraft, NoSize
<1> QED
  BY <1>3, <1>4, <1>5, RecordKept DEF ConversationInvariant, Start

LEMMA ForgettingKeeps ==
    ConversationInvariant /\ (Cancel \/ Expire) => ConversationInvariant'
<1> SUFFICES ASSUME ConversationInvariant, Forget, UNCHANGED recordVars
             PROVE  ConversationInvariant'
  BY DEF Cancel, Expire
<1>1. TypeOK'
  BY ForgetIsSafe DEF ConversationInvariant, TypeOK, recordVars
<1> QED
  BY <1>1, ForgetIsSafe, RecordKept DEF ConversationInvariant

(* Every step of the form that only takes an answer.                         *)
LEMMA AnswerKeeps ==
    ASSUME ConversationInvariant, NEW step \in FormSteps, NEW draft \in Drafts,
           Persist(step, draft), UNCHANGED <<recordVars, shown>>, moved' \in BOOLEAN,
           draft.symbol # NoSymbol <=> step # "SYMBOL",
           draft.size # NoSize <=> step \in AfterSize,
           draft.leverage # NoLeverage <=> step \in AfterLeverage,
           draft.reason = "given" <=> Blocked(draft.leverage) /\ step # "LEV_OVERRIDE",
           step = "LEV_OVERRIDE" => Blocked(draft.leverage),
           step \in AfterSize /\ ~ moved' =>
              /\ WithinCap(draft.size, CapNow(draft.symbol))
              /\ draft.enforced = "yes" <=> CapNow(draft.symbol) # NoCap
    PROVE  ConversationInvariant'
<1>1. /\ conv' \in [step : FormSteps \cup {"IDLE", "EDIT_CLOSED_CONFIRM"},
                    age : 0 .. Timeout + 1, draft : Drafts, edit : PendingEdits]
      /\ conv'.step = step /\ conv'.draft = draft /\ conv'.edit = NoEdit
      /\ PreviewStands'
  BY PersistIsTyped
<1>2. TypeOK'
  BY <1>1 DEF ConversationInvariant, TypeOK, recordVars
<1>3. DraftMatchesStep'
  BY <1>1 DEF DraftMatchesStep
<1>4. SizedWithinCap'
  BY <1>1 DEF SizedWithinCap, CapNow, recordVars
<1> QED
  BY <1>1, <1>2, <1>3, <1>4, RecordKept DEF ConversationInvariant

(* The values of the draft an active form has at a step.                     *)
LEMMA DraftAt ==
    ASSUME ConversationInvariant, NEW step \in FormSteps, At(step)
    PROVE  /\ conv.draft \in Drafts
           /\ conv.edit = NoEdit
           /\ conv.draft.symbol # NoSymbol <=> step # "SYMBOL"
           /\ conv.draft.size # NoSize <=> step \in AfterSize
           /\ conv.draft.leverage # NoLeverage <=> step \in AfterLeverage
           /\ conv.draft.reason = "given" <=>
                 Blocked(conv.draft.leverage) /\ step # "LEV_OVERRIDE"
           /\ step = "LEV_OVERRIDE" => Blocked(conv.draft.leverage)
           /\ step \in AfterSize /\ ~ moved =>
                 /\ WithinCap(conv.draft.size, CapNow(conv.draft.symbol))
                 /\ conv.draft.enforced = "yes" <=> CapNow(conv.draft.symbol) # NoCap
           /\ moved \in BOOLEAN
BY DEF ConversationInvariant, TypeOK, DraftMatchesStep, SizedWithinCap, At

LEMMA SymbolStepKeeps ==
    ASSUME ConversationInvariant, NEW symbol \in Symbols, SymbolStep(symbol)
    PROVE  ConversationInvariant'
<1> DEFINE draft == [conv.draft EXCEPT !.symbol = symbol]
<1>1. /\ "SYMBOL" \in FormSteps \ AfterSize /\ "SYMBOL" \notin AfterLeverage
      /\ "DIRECTION" \in FormSteps \ AfterSize /\ "DIRECTION" \notin AfterLeverage
  BY DEF FormSteps, AfterSize, AfterLeverage, PlainSteps
<1>2. At("SYMBOL") /\ Persist("DIRECTION", draft) /\ UNCHANGED <<recordVars, moved, shown>>
  BY DEF SymbolStep
<1>3. /\ draft \in Drafts /\ draft.symbol = symbol
      /\ draft.size = conv.draft.size /\ draft.leverage = conv.draft.leverage
      /\ draft.reason = conv.draft.reason
  BY <1>1, <1>2, DraftAt DEF Drafts
<1>4. symbol # NoSymbol
  BY ConversationAssumption DEF ConversationAssumption
<1> HIDE DEF draft
<1> QED
  BY <1>1, <1>2, <1>3, <1>4, DraftAt, AnswerKeeps

LEMMA SizeStepKeeps ==
    ASSUME ConversationInvariant, NEW size \in Sizes, SizeStep(size)
    PROVE  ConversationInvariant'
<1> DEFINE mark == IF CapNow(conv.draft.symbol) = NoCap THEN "no" ELSE "yes"
           draft == [conv.draft EXCEPT !.size = size, !.enforced = mark]
<1>1. /\ "SIZE" \in FormSteps \ AfterSize /\ "SIZE" \notin AfterLeverage
      /\ "LEVERAGE" \in FormSteps \cap AfterSize /\ "LEVERAGE" \notin AfterLeverage
  BY DEF FormSteps, AfterSize, AfterLeverage, PlainSteps
<1>2. /\ At("SIZE") /\ Persist("LEVERAGE", draft) /\ UNCHANGED <<recordVars, shown>>
      /\ moved' = FALSE /\ WithinCap(size, CapNow(conv.draft.symbol))
  BY DEF SizeStep
<1>3. /\ draft \in Drafts /\ draft.symbol = conv.draft.symbol
      /\ draft.size = size /\ draft.leverage = conv.draft.leverage
      /\ draft.reason = conv.draft.reason
      /\ draft.enforced = mark
  BY <1>1, <1>2, DraftAt DEF Drafts
<1>4. size # NoSize
  BY ConversationAssumption DEF ConversationAssumption, NoSize
<1>5. mark = "yes" <=> CapNow(conv.draft.symbol) # NoCap
  OBVIOUS
<1> HIDE DEF draft, mark
<1> QED
  BY <1>1, <1>2, <1>3, <1>4, <1>5, DraftAt, AnswerKeeps

LEMMA LeverageStepKeeps ==
    ASSUME ConversationInvariant, NEW leverage \in Leverages, LeverageStep(leverage)
    PROVE  ConversationInvariant'
<1> DEFINE next == IF Blocked(leverage) THEN "LEV_OVERRIDE" ELSE "ENTRY"
           draft == [conv.draft EXCEPT !.leverage = leverage]
<1>1. /\ "LEVERAGE" \in FormSteps \cap AfterSize /\ "LEVERAGE" \notin AfterLeverage
      /\ next \in FormSteps /\ next \in AfterSize \cap AfterLeverage /\ next # "SYMBOL"
      /\ next = "LEV_OVERRIDE" <=> Blocked(leverage)
  BY DEF FormSteps, AfterSize, AfterLeverage, PlainSteps
<1>2. At("LEVERAGE") /\ Persist(next, draft) /\ UNCHANGED <<recordVars, moved, shown>>
  BY DEF LeverageStep
<1>3. /\ draft \in Drafts /\ draft.symbol = conv.draft.symbol
      /\ draft.size = conv.draft.size /\ draft.leverage = leverage
      /\ draft.reason = conv.draft.reason /\ draft.enforced = conv.draft.enforced
  BY <1>1, <1>2, DraftAt DEF Drafts
<1>4. leverage # NoLeverage /\ conv.draft.leverage = NoLeverage
  BY <1>1, <1>2, DraftAt, ConversationAssumption DEF ConversationAssumption, NoLeverage
<1> HIDE DEF draft, next
<1> QED
  BY <1>1, <1>2, <1>3, <1>4, NothingIsNotBlocked, DraftAt, AnswerKeeps

LEMMA OverrideStepKeeps == ConversationInvariant /\ OverrideStep => ConversationInvariant'
<1> SUFFICES ASSUME ConversationInvariant, OverrideStep PROVE ConversationInvariant'
  OBVIOUS
<1> DEFINE draft == [conv.draft EXCEPT !.reason = "given"]
<1>1. /\ "LEV_OVERRIDE" \in FormSteps \cap AfterSize /\ "LEV_OVERRIDE" \in AfterLeverage
      /\ "ENTRY" \in FormSteps \cap AfterSize /\ "ENTRY" \in AfterLeverage
  BY DEF FormSteps, AfterSize, AfterLeverage, PlainSteps
<1>2. At("LEV_OVERRIDE") /\ Persist("ENTRY", draft) /\ UNCHANGED <<recordVars, moved, shown>>
  BY DEF OverrideStep
<1>3. /\ draft \in Drafts /\ draft.symbol = conv.draft.symbol
      /\ draft.size = conv.draft.size /\ draft.leverage = conv.draft.leverage
      /\ draft.reason = "given" /\ draft.enforced = conv.draft.enforced
  BY <1>1, <1>2, DraftAt DEF Drafts, Reasons
<1>4. Blocked(conv.draft.leverage)
  BY <1>1, <1>2, DraftAt
<1> HIDE DEF draft
<1> QED
  BY <1>1, <1>2, <1>3, <1>4, DraftAt, AnswerKeeps

LEMMA PlainStepKeeps ==
    ASSUME ConversationInvariant, NEW step \in PlainSteps, PlainStep(step)
    PROVE  ConversationInvariant'
<1> DEFINE next == AfterPlain[step]
<1>1. /\ step \in FormSteps /\ next \in FormSteps
      /\ step # "SYMBOL" /\ next # "SYMBOL"
      /\ step # "LEV_OVERRIDE" /\ next # "LEV_OVERRIDE"
      /\ step \in AfterSize <=> next \in AfterSize
      /\ step \in AfterLeverage <=> next \in AfterLeverage
  BY DEF FormSteps, AfterSize, AfterLeverage, PlainSteps, AfterPlain
<1>2. At(step) /\ Persist(next, conv.draft) /\ UNCHANGED <<recordVars, moved, shown>>
  BY DEF PlainStep
<1> HIDE DEF next
<1> QED
  BY <1>1, <1>2, DraftAt, AnswerKeeps

(* What is stored has its type.                                              *)
LEMMA StoredIsTyped ==
    ASSUME TypeOK
    PROVE  /\ \A u \in open : u \in Trades /\ u.id \in Nat
           /\ \A s \in Symbols :
                 /\ closed[s] \in Seq(ClosedTrades)
                 /\ \A i \in DOMAIN closed[s] :
                       /\ i \in Nat
                       /\ closed[s][i] \in ClosedTrades /\ closed[s][i].trade \in Trades
                       /\ closed[s][i].trade.id \in Nat
<1>1. Ids \subseteq Nat
  BY DEF Ids
<1>2. \A u \in Trades : u.id \in Nat
  BY <1>1 DEF Trades
<1>3. \A c \in ClosedTrades : c.trade \in Trades
  BY DEF ClosedTrades
<1>4. \A u \in open : u \in Trades
  BY DEF TypeOK
<1>5. \A s \in Symbols : closed[s] \in Seq(ClosedTrades)
  BY DEF TypeOK
<1>6. \A s \in Symbols : \A i \in DOMAIN closed[s] : i \in Nat /\ closed[s][i] \in ClosedTrades
  BY <1>5
<1> QED
  BY <1>2, <1>3, <1>4, <1>5, <1>6

(* A trade stored from a form at its last step is complete and has an id of  *)
(* its own.                                                                  *)
LEMMA StoredTrade ==
    ASSUME ConversationInvariant, At("THESIS"), StoreTrade
    PROVE  \E t \in Trades :
              /\ open' = open \cup {t} /\ t.id = lastId + 1
              /\ Justified(t)
              /\ t.symbol = conv.draft.symbol /\ t.size = conv.draft.size
              /\ t.enforced = conv.draft.enforced
<1> DEFINE t == [id |-> lastId + 1, symbol |-> conv.draft.symbol, size |-> conv.draft.size,
                 enforced |-> conv.draft.enforced, leverage |-> conv.draft.leverage,
                 reason |-> conv.draft.reason]
<1>1. /\ "THESIS" \in FormSteps \cap AfterSize /\ "THESIS" \in AfterLeverage
      /\ "THESIS" # "SYMBOL" /\ "THESIS" # "LEV_OVERRIDE"
  BY DEF FormSteps, AfterSize, AfterLeverage, PlainSteps
<1>2. /\ conv.draft \in Drafts
      /\ conv.draft.symbol # NoSymbol /\ conv.draft.size # NoSize
      /\ conv.draft.leverage # NoLeverage
      /\ Blocked(conv.draft.leverage) => conv.draft.reason = "given"
  BY <1>1, DraftAt
<1>3. lastId + 1 \in Ids
  BY ConversationAssumption
  DEF ConversationAssumption, ConversationInvariant, TypeOK, StoreTrade, Ids
<1>4. t \in Trades
  BY <1>2, <1>3 DEF Drafts, Trades
<1>5. open' = open \cup {t}
  BY DEF StoreTrade
<1> QED
  BY <1>2, <1>4, <1>5 DEF Justified

LEMMA StoringKeeps ==
    ASSUME ConversationInvariant, At("THESIS"), StoreTrade
    PROVE  /\ open' \in SUBSET Trades /\ closed' \in [Symbols -> Seq(ClosedTrades)]
           /\ lastId' \in 0 .. MaxTrades
           /\ HighLeverageIsJustified' /\ IdsAreUnique'
<1>1. PICK t \in Trades : /\ open' = open \cup {t} /\ t.id = lastId + 1
                          /\ Justified(t)
  BY StoredTrade
<1>2. /\ lastId' = lastId + 1 /\ lastId' \in 0 .. MaxTrades /\ lastId \in Nat
      /\ closed' = closed
  BY ConversationAssumption
  DEF ConversationAssumption, ConversationInvariant, TypeOK, StoreTrade
<1>3. /\ \A u \in open : u.id \in Nat
      /\ \A s \in Symbols : \A i \in DOMAIN closed[s] : closed[s][i].trade.id \in Nat
  BY StoredIsTyped DEF ConversationInvariant
<1>4. HighLeverageIsJustified'
  BY <1>1, <1>2 DEF ConversationInvariant, HighLeverageIsJustified
<1>5. IdsAreUnique'
  BY <1>1, <1>2, <1>3 DEF ConversationInvariant, IdsAreUnique
<1> QED
  BY <1>1, <1>2, <1>4, <1>5 DEF ConversationInvariant, TypeOK

LEMMA ThesisStepsKeep ==
    ConversationInvariant /\ (ThesisStep \/ ThesisStepInterrupted \/ CreateTradeFails)
        => ConversationInvariant'
<1> SUFFICES ASSUME ConversationInvariant,
                    ThesisStep \/ ThesisStepInterrupted \/ CreateTradeFails
             PROVE  ConversationInvariant'
  OBVIOUS
<1>1. CASE ThesisStep
  <2>1. TypeOK'
    BY <1>1, StoringKeeps, ForgetIsSafe DEF ThesisStep, TypeOK
  <2> QED
    BY <1>1, <2>1, StoringKeeps, ForgetIsSafe DEF ThesisStep, ConversationInvariant
<1>2. CASE ThesisStepInterrupted
  <2>1. TypeOK'
    BY <1>2, StoringKeeps
    DEF ThesisStepInterrupted, conversationVars, ConversationInvariant, TypeOK
  <2>2. DraftMatchesStep' /\ SizedWithinCap' /\ PreviewStands'
    BY <1>2 DEF ThesisStepInterrupted, At, StoreTrade, conversationVars, ConversationInvariant,
                DraftMatchesStep, SizedWithinCap, CapNow, PreviewStands
  <2> QED
    BY <1>2, <2>1, <2>2, StoringKeeps DEF ThesisStepInterrupted, ConversationInvariant
<1>3. CASE CreateTradeFails
  <2>1. lastId' = lastId + 1 /\ lastId' \in 0 .. MaxTrades /\ lastId \in Nat
    BY <1>3, ConversationAssumption
    DEF CreateTradeFails, ConversationAssumption, ConversationInvariant, TypeOK
  <2>2. TypeOK'
    BY <1>3, <2>1 DEF CreateTradeFails, conversationVars, ConversationInvariant, TypeOK
  <2>3. DraftMatchesStep' /\ SizedWithinCap' /\ PreviewStands' /\ HighLeverageIsJustified'
    BY <1>3 DEF CreateTradeFails, At, conversationVars, ConversationInvariant,
                DraftMatchesStep, SizedWithinCap, CapNow, PreviewStands, HighLeverageIsJustified
  <2>4. /\ \A u \in open : u.id \in Nat
        /\ \A s \in Symbols : \A i \in DOMAIN closed[s] : closed[s][i].trade.id \in Nat
    BY StoredIsTyped DEF ConversationInvariant
  <2>5. IdsAreUnique'
    BY <1>3, <2>1, <2>4 DEF CreateTradeFails, ConversationInvariant, IdsAreUnique
  <2> QED
    BY <2>2, <2>3, <2>5 DEF ConversationInvariant
<1> QED
  BY <1>1, <1>2, <1>3

LEMMA TimePassesKeeps == ConversationInvariant /\ TimePasses => ConversationInvariant'
<1> SUFFICES ASSUME ConversationInvariant, TimePasses PROVE ConversationInvariant'
  OBVIOUS
<1>1. /\ conv' = [conv EXCEPT !.age = conv.age + 1]
      /\ UNCHANGED <<recordVars, moved, shown>>
      /\ conv.age <= Timeout
  BY DEF TimePasses, Active
<1>2. /\ conv' \in [step : FormSteps \cup {"IDLE", "EDIT_CLOSED_CONFIRM"},
                    age : 0 .. Timeout + 1, draft : Drafts, edit : PendingEdits]
      /\ conv'.step = conv.step /\ conv'.draft = conv.draft /\ conv'.edit = conv.edit
  <2>1. conv.age + 1 \in 0 .. Timeout + 1
    BY <1>1, ConversationAssumption
    DEF ConversationAssumption, ConversationInvariant, TypeOK
  <2> QED
    BY <1>1, <2>1 DEF ConversationInvariant, TypeOK
<1>3. TypeOK'
  BY <1>1, <1>2 DEF ConversationInvariant, TypeOK, recordVars
<1>4. DraftMatchesStep' /\ SizedWithinCap'
  BY <1>1, <1>2 DEF ConversationInvariant, DraftMatchesStep, SizedWithinCap, CapNow, recordVars
<1>5. PreviewStands'
  BY <1>1, <1>2
  DEF ConversationInvariant, PreviewStands, PreviewFits, IsPending, MayBeWritten, Pending, recordVars
<1> QED
  BY <1>1, <1>3, <1>4, <1>5, RecordKept DEF ConversationInvariant

-----------------------------------------------------------------------------
(* Commands that change the record.                                          *)

(* One closed trade is rewritten where it stands.                            *)
LEMMA RewritingKeeps ==
    ASSUME ConversationInvariant, NEW symbol \in Symbols, NEW i \in DOMAIN closed[symbol],
           NEW c \in ClosedTrades, c.trade.id = closed[symbol][i].trade.id,
           Justified(c.trade),
           closed' = [closed EXCEPT ![symbol] = [closed[symbol] EXCEPT ![i] = c]],
           UNCHANGED <<open, lastId>>
    PROVE  /\ closed' \in [Symbols -> Seq(ClosedTrades)]
           /\ DOMAIN closed'[symbol] = DOMAIN closed[symbol]
           /\ closed'[symbol] = [closed[symbol] EXCEPT ![i] = c]
           /\ \A s \in Symbols \ {symbol} : closed'[s] = closed[s]
           /\ HighLeverageIsJustified' /\ IdsAreUnique'
<1>1. closed \in [Symbols -> Seq(ClosedTrades)]
  BY DEF ConversationInvariant, TypeOK
<1>2. closed[symbol] \in Seq(ClosedTrades)
  BY <1>1
<1>3. [closed[symbol] EXCEPT ![i] = c] \in Seq(ClosedTrades)
  BY <1>2
<1>4. /\ closed' \in [Symbols -> Seq(ClosedTrades)]
      /\ closed'[symbol] = [closed[symbol] EXCEPT ![i] = c]
      /\ \A s \in Symbols \ {symbol} : closed'[s] = closed[s]
  BY <1>1, <1>3
<1>5. /\ DOMAIN closed'[symbol] = DOMAIN closed[symbol]
      /\ closed'[symbol][i] = c
      /\ \A j \in DOMAIN closed[symbol] \ {i} : closed'[symbol][j] = closed[symbol][j]
  BY <1>2, <1>4
<1>6. \A s \in Symbols :
        /\ DOMAIN closed'[s] = DOMAIN closed[s]
        /\ \A j \in DOMAIN closed[s] :
              /\ closed'[s][j].trade.id = closed[s][j].trade.id
              /\ closed'[s][j] = closed[s][j] \/ closed'[s][j] = c
  BY <1>4, <1>5
<1>7. HighLeverageIsJustified'
  BY <1>6 DEF ConversationInvariant, HighLeverageIsJustified
<1>8. IdsAreUnique'
  BY <1>6 DEF ConversationInvariant, IdsAreUnique
<1> QED
  BY <1>4, <1>5, <1>7, <1>8

LEMMA SetPnlKeeps ==
    ASSUME ConversationInvariant, NEW symbol \in Symbols, NEW i \in DOMAIN closed[symbol],
           NEW pnl \in Results, SetPnl(symbol, i, pnl)
    PROVE  ConversationInvariant'
<1> DEFINE c == [closed[symbol][i] EXCEPT !.pnl = pnl]
<1>1. /\ c \in ClosedTrades /\ c.trade = closed[symbol][i].trade
  BY StoredIsTyped DEF ConversationInvariant, ClosedTrades
<1>2. closed' = [closed EXCEPT ![symbol] = [closed[symbol] EXCEPT ![i] = c]]
  BY DEF SetPnl
<1>3. /\ UNCHANGED <<open, lastId, conv, shown>>
      /\ moved' = (moved \/ symbol = WatchedSymbol)
  BY DEF SetPnl, RecordMoves
<1>4. Justified(c.trade)
  BY <1>1 DEF ConversationInvariant, HighLeverageIsJustified
<1> HIDE DEF c
<1>5. /\ closed' \in [Symbols -> Seq(ClosedTrades)]
      /\ DOMAIN closed'[symbol] = DOMAIN closed[symbol]
      /\ closed'[symbol] = [closed[symbol] EXCEPT ![i] = c]
      /\ \A s \in Symbols \ {symbol} : closed'[s] = closed[s]
      /\ HighLeverageIsJustified' /\ IdsAreUnique'
  BY <1>1, <1>2, <1>3, <1>4, RewritingKeeps
<1>6. TypeOK'
  BY <1>3, <1>5 DEF ConversationInvariant, TypeOK
<1>7. DraftMatchesStep'
  BY <1>3 DEF ConversationInvariant, DraftMatchesStep
<1>8. SizedWithinCap'
  <2> SUFFICES ASSUME conv.step \in AfterSize, ~ moved'
               PROVE  /\ ~ moved
                      /\ CapNow(conv.draft.symbol)' = CapNow(conv.draft.symbol)
    BY <1>3 DEF ConversationInvariant, SizedWithinCap, CapNow
  <2>1. conv.step \in FormSteps /\ conv.step # "SYMBOL" /\ conv.step # "EDIT_CLOSED_CONFIRM"
    BY DEF FormSteps, AfterSize, AfterLeverage, PlainSteps
  <2>2. ~ moved /\ symbol # conv.draft.symbol
    BY <1>3, <2>1 DEF WatchedSymbol
  <2>3. conv.draft.symbol \in Symbols
    BY <2>1 DEF ConversationInvariant, TypeOK, DraftMatchesStep, Drafts
  <2> QED
    BY <1>3, <1>5, <2>2, <2>3 DEF CapNow
<1>9. PreviewStands'
  <2> SUFFICES ASSUME conv.step = "EDIT_CLOSED_CONFIRM" PROVE PreviewStands'
    BY <1>3 DEF PreviewStands
  <2>1. CASE symbol = shown.symbol
    <3>1. moved'
      BY <1>3, <2>1 DEF WatchedSymbol
    <3>2. shown.symbol \in Symbols
      BY DEF ConversationInvariant, PreviewStands
    <3>3. PICK j \in DOMAIN closed[shown.symbol] :
             /\ IsPending(shown.symbol, j)
             /\ MayBeWritten(shown.symbol, j)
      BY DEF ConversationInvariant, PreviewStands
    <3>4. closed'[symbol][j].trade = closed[symbol][j].trade
      BY <1>1, <1>5, <2>1, StoredIsTyped DEF ConversationInvariant
    <3>5. Pending(closed[symbol][j]).trade = Pending(closed[symbol][j])'.trade
      BY <1>3, <3>4 DEF Pending, Rewritten
    <3>6. MayBeWritten(symbol, j)'
      BY <2>1, <3>3, <3>5 DEF MayBeWritten
    <3>7. /\ IsPending(shown.symbol, j)' /\ j \in DOMAIN closed'[shown.symbol]
          /\ shown' = shown
      BY <1>3, <1>5, <2>1, <3>3, <3>4 DEF IsPending
    <3> QED
      BY <2>1, <3>1, <3>2, <3>6, <3>7 DEF PreviewStands
  <2>2. CASE symbol # shown.symbol
    <3>1. shown.symbol \in Symbols /\ closed'[shown.symbol] = closed[shown.symbol]
      BY <1>5, <2>2 DEF ConversationInvariant, PreviewStands
    <3>2. moved' = moved
      BY <1>3, <2>2 DEF WatchedSymbol, ConversationInvariant, TypeOK
    <3> QED
      BY <1>3, <3>1, <3>2
      DEF ConversationInvariant, PreviewStands, PreviewFits, IsPending, MayBeWritten, Pending
  <2> QED
    BY <2>1, <2>2
<1> QED
  BY <1>5, <1>6, <1>7, <1>8, <1>9 DEF ConversationInvariant

LEMMA CloseTradeKeeps ==
    ASSUME ConversationInvariant, NEW t \in open, NEW outcome \in Results,
           CloseTrade(t, outcome)
    PROVE  ConversationInvariant'
<1> DEFINE c == [trade |-> t, price |-> outcome, pnl |-> outcome]
           list == <<c>> \o closed[t.symbol]
<1>1. /\ t \in Trades /\ t.symbol \in Symbols /\ c \in ClosedTrades
      /\ closed \in [Symbols -> Seq(ClosedTrades)]
      /\ closed[t.symbol] \in Seq(ClosedTrades)
  BY DEF ConversationInvariant, TypeOK, Trades, ClosedTrades
<1>2. /\ list \in Seq(ClosedTrades) /\ Len(list) = Len(closed[t.symbol]) + 1
      /\ list[1] = c
      /\ \A i \in DOMAIN closed[t.symbol] : i + 1 \in DOMAIN list /\ list[i + 1] = closed[t.symbol][i]
      /\ \A i \in DOMAIN list :
            i = 1 \/ (i - 1 \in DOMAIN closed[t.symbol] /\ list[i] = closed[t.symbol][i - 1])
  BY <1>1
<1>3. /\ closed' \in [Symbols -> Seq(ClosedTrades)]
      /\ closed'[t.symbol] = list
      /\ \A s \in Symbols \ {t.symbol} : closed'[s] = closed[s]
  <2> HIDE DEF c
  <2>1. closed' = [closed EXCEPT ![t.symbol] = list]
    BY DEF CloseTrade, c
  <2> HIDE DEF list
  <2> QED
    BY <1>1, <1>2, <2>1
<1>4. /\ UNCHANGED <<lastId, conv, shown>>
      /\ moved' = (moved \/ t.symbol = WatchedSymbol)
      /\ open' = open \ {t}
  BY DEF CloseTrade, RecordMoves
<1>5. c.trade = t
  OBVIOUS
<1> HIDE DEF c, list
<1>6. TypeOK'
  BY <1>3, <1>4 DEF ConversationInvariant, TypeOK
<1>7. HighLeverageIsJustified'
  <2>1. Justified(t)
    BY DEF ConversationInvariant, HighLeverageIsJustified
  <2> QED
    BY <1>2, <1>3, <1>4, <1>5, <2>1 DEF ConversationInvariant, HighLeverageIsJustified
<1>8. IdsAreUnique'
  <2>1. /\ \A u \in open' : u \in open /\ u.id <= lastId' /\ u.id # t.id
        /\ \A u, w \in open' : u.id = w.id => u = w
    BY <1>4 DEF ConversationInvariant, IdsAreUnique
  <2>2. ASSUME NEW s \in Symbols, NEW i \in DOMAIN closed'[s]
        PROVE  \/ s = t.symbol /\ i = 1 /\ closed'[s][i].trade.id = t.id
               \/ /\ s = t.symbol /\ i \in Nat
                  /\ i - 1 \in DOMAIN closed[s] /\ closed'[s][i] = closed[s][i - 1]
               \/ s # t.symbol /\ i \in DOMAIN closed[s] /\ closed'[s][i] = closed[s][i]
    BY <1>2, <1>3, <1>5
  <2>3. \A s \in Symbols : \A i \in DOMAIN closed[s] : closed[s][i].trade.id # t.id
    BY DEF ConversationInvariant, IdsAreUnique
  <2>4. ASSUME NEW s \in Symbols, NEW i \in DOMAIN closed'[s]
        PROVE  /\ closed'[s][i].trade.id <= lastId'
               /\ \A u \in open' : u.id # closed'[s][i].trade.id
    BY <1>4, <2>1, <2>2 DEF ConversationInvariant, IdsAreUnique
  <2>5. ASSUME NEW s \in Symbols, NEW i \in DOMAIN closed'[s],
               NEW r \in Symbols, NEW j \in DOMAIN closed'[r],
               closed'[r][j].trade.id = closed'[s][i].trade.id
        PROVE  r = s /\ j = i
    BY <2>2, <2>3, <2>5 DEF ConversationInvariant, IdsAreUnique
  <2> QED
    BY <2>1, <2>4, <2>5 DEF IdsAreUnique
<1>9. DraftMatchesStep'
  BY <1>4 DEF ConversationInvariant, DraftMatchesStep
<1>10. SizedWithinCap'
  <2> SUFFICES ASSUME conv.step \in AfterSize, ~ moved'
               PROVE  /\ ~ moved
                      /\ CapNow(conv.draft.symbol)' = CapNow(conv.draft.symbol)
    BY <1>4 DEF ConversationInvariant, SizedWithinCap, CapNow
  <2>1. conv.step \in FormSteps /\ conv.step # "SYMBOL" /\ conv.step # "EDIT_CLOSED_CONFIRM"
    BY DEF FormSteps, AfterSize, AfterLeverage, PlainSteps
  <2>2. ~ moved /\ t.symbol # conv.draft.symbol
    BY <1>4, <2>1 DEF WatchedSymbol
  <2>3. conv.draft.symbol \in Symbols
    BY <2>1 DEF ConversationInvariant, TypeOK, DraftMatchesStep, Drafts
  <2> QED
    BY <1>3, <1>4, <2>2, <2>3 DEF CapNow
<1>11. PreviewStands'
  <2> SUFFICES ASSUME conv.step = "EDIT_CLOSED_CONFIRM" PROVE PreviewStands'
    BY <1>4 DEF PreviewStands
  <2>1. CASE t.symbol = shown.symbol
    <3>1. moved'
      BY <1>4, <2>1 DEF WatchedSymbol
    <3>2. PICK j \in DOMAIN closed[shown.symbol] :
             /\ IsPending(shown.symbol, j)
             /\ MayBeWritten(shown.symbol, j)
      BY DEF ConversationInvariant, PreviewStands
    <3>3. /\ j + 1 \in DOMAIN closed'[shown.symbol]
          /\ closed'[shown.symbol][j + 1] = closed[shown.symbol][j]
      BY <1>2, <1>3, <2>1
    <3>4. IsPending(shown.symbol, j + 1)'
      BY <1>4, <3>2, <3>3 DEF IsPending
    <3>5. Pending(closed[shown.symbol][j + 1])' = Pending(closed[shown.symbol][j])
      BY <1>4, <3>3 DEF Pending
    <3> QED
      BY <1>1, <1>4, <2>1, <3>1, <3>2, <3>3, <3>4, <3>5 DEF PreviewStands, MayBeWritten
  <2>2. CASE t.symbol # shown.symbol
    <3>1. shown.symbol \in Symbols /\ closed'[shown.symbol] = closed[shown.symbol]
      BY <1>3, <2>2 DEF ConversationInvariant, PreviewStands
    <3>2. moved' = moved
      BY <1>4, <2>2 DEF WatchedSymbol, ConversationInvariant, TypeOK
    <3> QED
      BY <1>4, <3>1, <3>2
      DEF ConversationInvariant, PreviewStands, PreviewFits, IsPending, MayBeWritten, Pending
  <2> QED
    BY <2>1, <2>2
<1> QED
  BY <1>6, <1>7, <1>8, <1>9, <1>10, <1>11 DEF ConversationInvariant

LEMMA EditOpenTradeKeeps ==
    ASSUME ConversationInvariant, NEW t \in open, NEW request \in Edits,
           EditOpenTrade(t, request)
    PROVE  ConversationInvariant'
<1> DEFINE edited == [t EXCEPT !.size = SizeAfter(t, request),
                               !.leverage = LeverageAfter(t, request),
                               !.reason = OpenReasonAfter(t, request)]
<1>1. /\ open' = (open \ {t}) \cup {edited}
      /\ UNCHANGED <<closed, lastId, conversationVars>>
      /\ request.leverage # NoLeverage => ~ High(edited.leverage) \/ edited.reason = "given"
  BY DEF EditOpenTrade
<1>2. request \in EditRequests /\ t \in Trades
  BY ConversationAssumption DEF ConversationAssumption, ConversationInvariant, TypeOK
<1>3. /\ SizeAfter(t, request) \in Sizes
      /\ LeverageAfter(t, request) \in Leverages
      /\ OpenReasonAfter(t, request) \in Reasons
  BY <1>2 DEF EditRequests, Trades, SizeAfter, LeverageAfter, OpenReasonAfter, Reasons
<1>4. /\ edited \in Trades /\ edited.id = t.id
      /\ edited.leverage = LeverageAfter(t, request) /\ edited.reason = OpenReasonAfter(t, request)
  BY <1>2, <1>3 DEF Trades
<1>5. Justified(edited)
  <2>1. Justified(t)
    BY DEF ConversationInvariant, HighLeverageIsJustified
  <2> QED
    BY <1>1, <1>4, <2>1 DEF Justified, LeverageAfter, OpenReasonAfter
<1> HIDE DEF edited
<1>6. TypeOK'
  BY <1>1, <1>4 DEF ConversationInvariant, TypeOK, conversationVars
<1>7. HighLeverageIsJustified'
  BY <1>1, <1>5 DEF ConversationInvariant, HighLeverageIsJustified
<1>8. IdsAreUnique'
  BY <1>1, <1>4 DEF ConversationInvariant, IdsAreUnique
<1>9. DraftMatchesStep' /\ SizedWithinCap'
  BY <1>1 DEF ConversationInvariant, DraftMatchesStep, SizedWithinCap, CapNow, conversationVars
<1>10. PreviewStands'
  BY <1>1 DEF ConversationInvariant, PreviewStands, PreviewFits, IsPending, MayBeWritten, Pending,
              conversationVars
<1> QED
  BY <1>6, <1>7, <1>8, <1>9, <1>10 DEF ConversationInvariant

-----------------------------------------------------------------------------
(* /edit_closed.                                                             *)

LEMMA RewrittenIsTyped ==
    ASSUME NEW c \in ClosedTrades, NEW request \in EditRequests, NEW pnl \in Results
    PROVE  /\ Rewritten(c, request, pnl) \in ClosedTrades
           /\ Rewritten(c, request, pnl).trade.id = c.trade.id
<1> DEFINE t == [c.trade EXCEPT !.size = SizeAfter(c.trade, request),
                                !.leverage = LeverageAfter(c.trade, request),
                                !.reason = ClosedReasonAfter(c.trade, request)]
<1>1. c.trade \in Trades
  BY DEF ClosedTrades
<1>2. /\ SizeAfter(c.trade, request) \in Sizes
      /\ LeverageAfter(c.trade, request) \in Leverages
      /\ ClosedReasonAfter(c.trade, request) \in Reasons
      /\ PriceAfter(c, request) \in Results
  BY <1>1 DEF EditRequests, Trades, ClosedTrades, SizeAfter, LeverageAfter, ClosedReasonAfter,
              PriceAfter, Reasons
<1>3. t \in Trades /\ t.id = c.trade.id
  BY <1>1, <1>2 DEF Trades
<1>4. Rewritten(c, request, pnl) = [trade |-> t, price |-> PriceAfter(c, request), pnl |-> pnl]
  BY DEF Rewritten
<1> HIDE DEF t
<1> QED
  BY <1>2, <1>3, <1>4 DEF ClosedTrades

(* Writing a pending edit twice is writing it once.                          *)
LEMMA RewritingTwice ==
    ASSUME NEW c \in ClosedTrades, NEW request \in EditRequests,
           NEW pnl \in Results, NEW other \in Results
    PROVE  Rewritten(Rewritten(c, request, pnl), request, other) = Rewritten(c, request, other)
<1> DEFINE d == Rewritten(c, request, pnl)
<1>1. c.trade \in Trades
  BY DEF ClosedTrades
<1>2. /\ d.trade = [c.trade EXCEPT !.size = SizeAfter(c.trade, request),
                                   !.leverage = LeverageAfter(c.trade, request),
                                   !.reason = ClosedReasonAfter(c.trade, request)]
      /\ d.price = PriceAfter(c, request)
  BY DEF Rewritten
<1>3. /\ d.trade.size = SizeAfter(c.trade, request)
      /\ d.trade.leverage = LeverageAfter(c.trade, request)
      /\ d.trade.reason = ClosedReasonAfter(c.trade, request)
  BY <1>1, <1>2 DEF Trades
<1>4. PriceAfter(d, request) = PriceAfter(c, request)
  BY <1>2 DEF PriceAfter
<1>5. /\ SizeAfter(d.trade, request) = SizeAfter(c.trade, request)
      /\ LeverageAfter(d.trade, request) = LeverageAfter(c.trade, request)
      /\ ClosedReasonAfter(d.trade, request) = ClosedReasonAfter(c.trade, request)
  BY <1>3 DEF SizeAfter, LeverageAfter, ClosedReasonAfter
<1> DEFINE size == SizeAfter(c.trade, request)
           leverage == LeverageAfter(c.trade, request)
           reason == ClosedReasonAfter(c.trade, request)
<1>6. [d.trade EXCEPT !.size = size, !.leverage = leverage, !.reason = reason]
          = [c.trade EXCEPT !.size = size, !.leverage = leverage, !.reason = reason]
  <2> HIDE DEF size, leverage, reason, d
  <2>1. d.trade = [c.trade EXCEPT !.size = size, !.leverage = leverage, !.reason = reason]
    BY <1>2 DEF size, leverage, reason
  <2> QED
    BY <1>1, <2>1 DEF Trades
<1>7. Rewritten(d, request, other)
          = [trade |-> [d.trade EXCEPT !.size = size, !.leverage = leverage, !.reason = reason],
             price |-> PriceAfter(c, request), pnl |-> other]
  BY <1>4, <1>5 DEF Rewritten
<1>8. Rewritten(c, request, other)
          = [trade |-> [c.trade EXCEPT !.size = size, !.leverage = leverage, !.reason = reason],
             price |-> PriceAfter(c, request), pnl |-> other]
  BY DEF Rewritten
<1> QED
  BY <1>6, <1>7, <1>8

LEMMA PrepareEditKeeps ==
    ASSUME ConversationInvariant, NEW symbol \in Symbols, NEW i \in DOMAIN closed[symbol],
           NEW request \in Edits, PrepareEdit(symbol, i, request)
    PROVE  ConversationInvariant'
<1> DEFINE c == closed[symbol][i]
           pnl == IF TouchesPnl(request) THEN PriceAfter(c, request) ELSE KeepOutcome
           preview == Rewritten(c, request, IF pnl = KeepOutcome THEN c.pnl ELSE pnl)
           after == RecordOf([closed[symbol] EXCEPT ![i] = preview])
<1>1. /\ High(preview.trade.leverage) => preview.trade.reason = "given"
      /\ conv' = [step |-> "EDIT_CLOSED_CONFIRM", age |-> 0, draft |-> EmptyDraft,
                  edit |-> [id |-> c.trade.id, request |-> request, pnl |-> pnl]]
      /\ moved' = FALSE
      /\ shown'.symbol = symbol /\ shown'.warning \in {"no", "yes"}
      /\ pnl # KeepOutcome /\ c.pnl # c.price => shown'.warning = "yes"
      /\ shown'.streak = LossStreak(after) /\ shown'.cap = SizeCap(after)
      /\ UNCHANGED recordVars
  BY DEF PrepareEdit
<1>2. c \in ClosedTrades /\ c.trade.id \in Ids /\ request \in EditRequests
  BY StoredIsTyped, ConversationAssumption
  DEF ConversationInvariant, ConversationAssumption, Trades
<1>3. pnl \in Results \cup {KeepOutcome}
  BY <1>2 DEF PriceAfter, EditRequests, ClosedTrades
<1>4. /\ conv'.edit \in PendingEdits
      /\ conv'.edit.id = c.trade.id /\ conv'.edit.request = request /\ conv'.edit.pnl = pnl
      /\ conv'.step = "EDIT_CLOSED_CONFIRM" /\ conv'.draft = EmptyDraft /\ conv'.age = 0
  BY <1>1, <1>2, <1>3 DEF PendingEdits
<1>5. conv' \in [step : FormSteps \cup {"IDLE", "EDIT_CLOSED_CONFIRM"},
                 age : 0 .. Timeout + 1, draft : Drafts, edit : PendingEdits]
  <2>1. EmptyDraft \in Drafts
    BY DEF EmptyDraft, Drafts, Reasons
  <2>2. 0 \in 0 .. Timeout + 1
    BY ConversationAssumption DEF ConversationAssumption
  <2> QED
    BY <1>1, <1>4, <2>1, <2>2
<1>6. "EDIT_CLOSED_CONFIRM" \notin FormSteps /\ "EDIT_CLOSED_CONFIRM" \notin AfterSize
  BY DEF FormSteps, AfterSize, AfterLeverage, PlainSteps
<1>7. Pending(c)' = preview
  BY <1>1, <1>4 DEF Pending, recordVars
<1>8. pnl # KeepOutcome => pnl = PriceAfter(c, request)
  OBVIOUS
<1> HIDE DEF c, pnl, preview
<1>9. TypeOK'
  BY <1>1, <1>5 DEF ConversationInvariant, TypeOK, recordVars
<1>10. DraftMatchesStep' /\ SizedWithinCap'
  BY <1>4, <1>6 DEF DraftMatchesStep, SizedWithinCap
<1>11. PreviewStands'
  <2>1. closed' = closed
    BY <1>1 DEF recordVars
  <2>2. IsPending(symbol, i)'
    BY <1>4, <2>1 DEF IsPending, c
  <2>3. Pending(closed[symbol][i])' = preview
    BY <1>7, <2>1 DEF c
  <2>4. [closed[symbol] EXCEPT ![i] = Pending(closed[symbol][i])]'
            = [closed[symbol] EXCEPT ![i] = preview]
    BY <2>1, <2>3
  <2>5. PreviewFits(symbol, i)'
    BY <1>1, <1>4, <1>8, <2>1, <2>4 DEF PreviewFits, c
  <2> QED
    BY <1>1, <2>1, <2>2, <2>3, <2>5 DEF PreviewStands, MayBeWritten
<1> QED
  BY <1>1, <1>9, <1>10, <1>11, RecordKept DEF ConversationInvariant

(* The edit that is carried out is the one that was previewed.               *)
LEMMA WriteEditWritesPreview ==
    ASSUME ConversationInvariant, NEW symbol \in Symbols, NEW i \in DOMAIN closed[symbol],
           conv.step = "EDIT_CLOSED_CONFIRM", IsPending(symbol, i), WriteEdit(symbol, i)
    PROVE  /\ shown.symbol = symbol
           /\ closed' = [closed EXCEPT ![symbol] =
                            [closed[symbol] EXCEPT ![i] = Pending(closed[symbol][i])]]
           /\ Pending(closed[symbol][i]) \in ClosedTrades
           /\ Pending(closed[symbol][i]).trade.id = closed[symbol][i].trade.id
           /\ Justified(Pending(closed[symbol][i]).trade)
           /\ ~ moved => PreviewFits(symbol, i)
<1>1. PICK j \in DOMAIN closed[shown.symbol] :
         /\ shown.symbol \in Symbols
         /\ IsPending(shown.symbol, j)
         /\ ~ moved => PreviewFits(shown.symbol, j)
  BY DEF ConversationInvariant, PreviewStands
<1>2. shown.symbol = symbol /\ j = i
  BY <1>1 DEF ConversationInvariant, IdsAreUnique, IsPending
<1>3. closed' = [closed EXCEPT ![symbol] =
                   [closed[symbol] EXCEPT ![i] = Pending(closed[symbol][i])]]
  BY DEF WriteEdit
<1>4. /\ Pending(closed[symbol][i]) \in ClosedTrades
      /\ Pending(closed[symbol][i]).trade.id = closed[symbol][i].trade.id
  <2>1. conv.edit.request \in EditRequests /\ conv.edit.pnl \in Results \cup {KeepOutcome}
    BY DEF ConversationInvariant, TypeOK, PendingEdits
  <2>2. closed[symbol][i] \in ClosedTrades /\ closed[symbol][i].pnl \in Results
    BY StoredIsTyped DEF ConversationInvariant, ClosedTrades
  <2> QED
    BY <2>1, <2>2, RewrittenIsTyped DEF Pending
<1>5. Justified(Pending(closed[symbol][i]).trade)
  BY DEF WriteEdit, MayBeWritten, Justified
<1> QED
  BY <1>1, <1>2, <1>3, <1>4, <1>5

LEMMA ConfirmEditKeeps ==
    ASSUME ConversationInvariant, NEW symbol \in Symbols, NEW i \in DOMAIN closed[symbol],
           ConfirmEdit(symbol, i) \/ ConfirmEditInterrupted(symbol, i)
    PROVE  ConversationInvariant'
<1> DEFINE c == Pending(closed[symbol][i])
<1>1. /\ conv.step = "EDIT_CLOSED_CONFIRM" /\ IsPending(symbol, i) /\ WriteEdit(symbol, i)
      /\ UNCHANGED <<open, lastId>>
  BY DEF ConfirmEdit, ConfirmEditInterrupted, At
<1>2. /\ shown.symbol = symbol
      /\ closed' = [closed EXCEPT ![symbol] = [closed[symbol] EXCEPT ![i] = c]]
      /\ c \in ClosedTrades /\ c.trade.id = closed[symbol][i].trade.id
      /\ Justified(c.trade)
      /\ ~ moved => PreviewFits(symbol, i)
  BY <1>1, WriteEditWritesPreview
<1> HIDE DEF c
<1>3. /\ closed' \in [Symbols -> Seq(ClosedTrades)]
      /\ DOMAIN closed'[symbol] = DOMAIN closed[symbol]
      /\ closed'[symbol] = [closed[symbol] EXCEPT ![i] = c]
      /\ HighLeverageIsJustified' /\ IdsAreUnique'
  BY <1>1, <1>2, RewritingKeeps
<1>4. CASE Forget
  <2>1. TypeOK'
    BY <1>1, <1>3, <1>4, ForgetIsSafe DEF ConversationInvariant, TypeOK
  <2> QED
    BY <1>3, <1>4, <2>1, ForgetIsSafe DEF ConversationInvariant
<1>5. CASE UNCHANGED conversationVars
  <2>1. TypeOK'
    BY <1>1, <1>3, <1>5 DEF ConversationInvariant, TypeOK, conversationVars
  <2>2. "EDIT_CLOSED_CONFIRM" \notin FormSteps /\ "EDIT_CLOSED_CONFIRM" \notin AfterSize
    BY DEF FormSteps, AfterSize, AfterLeverage, PlainSteps
  <2>3. DraftMatchesStep' /\ SizedWithinCap'
    BY <1>1, <1>5, <2>2 DEF DraftMatchesStep, SizedWithinCap, conversationVars
  <2>4. closed'[symbol][i] = c
    BY <1>3, StoredIsTyped DEF ConversationInvariant
  <2>5. Pending(closed[symbol][i])' = c
    <3>1. conv.edit.request \in EditRequests /\ conv.edit.pnl \in Results \cup {KeepOutcome}
      BY DEF ConversationInvariant, TypeOK, PendingEdits
    <3>2. closed[symbol][i] \in ClosedTrades /\ closed[symbol][i].pnl \in Results
      BY StoredIsTyped DEF ConversationInvariant, ClosedTrades
    <3> DEFINE pnl == IF conv.edit.pnl = KeepOutcome THEN closed[symbol][i].pnl ELSE conv.edit.pnl
    <3>3. pnl \in Results /\ c = Rewritten(closed[symbol][i], conv.edit.request, pnl)
      BY <3>1, <3>2 DEF c, Pending
    <3>4. c.pnl = pnl
      BY <3>3 DEF Rewritten
    <3>5. Pending(closed[symbol][i])' = Rewritten(c, conv.edit.request, pnl)
      BY <1>5, <2>4, <3>4 DEF Pending, conversationVars
    <3> HIDE DEF pnl
    <3> QED
      BY <3>1, <3>2, <3>3, <3>5, RewritingTwice
  <2>6. [closed[symbol] EXCEPT ![i] = Pending(@)]' = [closed[symbol] EXCEPT ![i] = c]
    BY <1>3, <2>4, <2>5, StoredIsTyped DEF ConversationInvariant
  <2>7. IsPending(symbol, i)' /\ MayBeWritten(symbol, i)' /\ UNCHANGED <<conv, moved, shown>>
    BY <1>1, <1>2, <1>5, <2>4, <2>5 DEF IsPending, MayBeWritten, WriteEdit, conversationVars, c
  <2>8. ASSUME ~ moved PROVE PreviewFits(symbol, i)'
    <3> DEFINE request == conv.edit.request
               before == closed[symbol][i]
    <3>1. /\ shown.streak = LossStreak(RecordOf([closed[symbol] EXCEPT ![i] = c]))
          /\ shown.cap = SizeCap(RecordOf([closed[symbol] EXCEPT ![i] = c]))
          /\ conv.edit.pnl # KeepOutcome => conv.edit.pnl = PriceAfter(before, request)
      BY <1>2, <2>8 DEF PreviewFits, c
    <3>2. /\ c.price = PriceAfter(before, request)
          /\ conv.edit.pnl # KeepOutcome => c.pnl = conv.edit.pnl
      BY DEF c, Pending, Rewritten
    <3>3. PriceAfter(c, request) = PriceAfter(before, request)
      BY <3>2 DEF PriceAfter
    <3>4. [closed[symbol] EXCEPT ![i] = Pending(closed[symbol][i])]' = [closed[symbol] EXCEPT ![i] = c]
      BY <2>6
    <3> QED
      BY <2>4, <2>7, <3>1, <3>2, <3>3, <3>4 DEF PreviewFits
  <2>9. PreviewStands'
    BY <1>2, <1>3, <2>7, <2>8 DEF PreviewStands
  <2> QED
    BY <1>3, <2>1, <2>3, <2>9 DEF ConversationInvariant
<1> QED
  BY <1>4, <1>5 DEF ConfirmEdit, ConfirmEditInterrupted

-----------------------------------------------------------------------------
(* The invariant, and what it says.                                          *)

LEMMA NextKeeps == ConversationInvariant /\ [Next]_vars => ConversationInvariant'
<1> SUFFICES ASSUME ConversationInvariant, [Next]_vars PROVE ConversationInvariant'
  OBVIOUS
<1>1. CASE FormNext
  <2>1. CASE Start
    BY <2>1, StartKeeps
  <2>2. CASE Cancel
    BY <2>2, ForgettingKeeps
  <2>3. ASSUME NEW symbol \in Symbols, SymbolStep(symbol) PROVE ConversationInvariant'
    BY <2>3, SymbolStepKeeps
  <2>4. ASSUME NEW size \in Sizes, SizeStep(size) PROVE ConversationInvariant'
    BY <2>4, SizeStepKeeps
  <2>5. ASSUME NEW leverage \in Leverages, LeverageStep(leverage) PROVE ConversationInvariant'
    BY <2>5, LeverageStepKeeps
  <2>6. CASE OverrideStep
    BY <2>6, OverrideStepKeeps
  <2>7. ASSUME NEW step \in PlainSteps, PlainStep(step) PROVE ConversationInvariant'
    BY <2>7, PlainStepKeeps
  <2>8. CASE ThesisStep \/ ThesisStepInterrupted \/ CreateTradeFails
    BY <2>8, ThesisStepsKeep
  <2> QED
    BY <1>1, <2>1, <2>2, <2>3, <2>4, <2>5, <2>6, <2>7, <2>8 DEF FormNext
<1>2. CASE CommandNext
  <2>1. ASSUME NEW t \in open, NEW outcome \in Results, CloseTrade(t, outcome)
        PROVE  ConversationInvariant'
    BY <2>1, CloseTradeKeeps
  <2>2. ASSUME NEW t \in open, NEW request \in Edits, EditOpenTrade(t, request)
        PROVE  ConversationInvariant'
    BY <2>2, EditOpenTradeKeeps
  <2>3. ASSUME NEW symbol \in Symbols, NEW i \in DOMAIN closed[symbol],
               NEW pnl \in Results, SetPnl(symbol, i, pnl)
        PROVE  ConversationInvariant'
    BY <2>3, SetPnlKeeps
  <2>4. ASSUME NEW symbol \in Symbols, NEW i \in DOMAIN closed[symbol],
               NEW request \in Edits, PrepareEdit(symbol, i, request)
        PROVE  ConversationInvariant'
    BY <2>4, PrepareEditKeeps
  <2>5. ASSUME NEW symbol \in Symbols, NEW i \in DOMAIN closed[symbol],
               ConfirmEdit(symbol, i) \/ ConfirmEditInterrupted(symbol, i)
        PROVE  ConversationInvariant'
    BY <2>5, ConfirmEditKeeps
  <2> QED
    BY <1>2, <2>1, <2>2, <2>3, <2>4, <2>5 DEF CommandNext
<1>3. CASE TimePasses
  BY <1>3, TimePassesKeeps
<1>4. CASE Expire
  BY <1>4, ForgettingKeeps
<1>5. CASE UNCHANGED vars
  BY <1>5 DEF vars, recordVars, conversationVars, ConversationInvariant, TypeOK, DraftMatchesStep,
              HighLeverageIsJustified, SizedWithinCap, CapNow, IdsAreUnique, PreviewStands,
              PreviewFits, IsPending, MayBeWritten, Pending
<1> QED
  BY <1>1, <1>2, <1>3, <1>4, <1>5 DEF Next

(* The invariant of the form, the pending edit and the record they rest on.  *)
THEOREM ConversationInvariantHolds == Spec => []ConversationInvariant
<1>1. Init => ConversationInvariant
  BY InitEstablishes
<1>2. ConversationInvariant /\ [Next]_vars => ConversationInvariant'
  BY NextKeeps
<1> QED
  BY <1>1, <1>2, PTL DEF Spec

(* Type correctness: a stored trade has complete values.                     *)
THEOREM ConversationTypeCorrect == Spec => []TypeOK
<1>1. ConversationInvariant => TypeOK
  BY DEF ConversationInvariant
<1> QED
  BY <1>1, ConversationInvariantHolds, PTL

(* The form never reaches a step without the answers of those before it      *)
(* (the steps of forms.py).                                                  *)
THEOREM DraftsMatchSteps == Spec => []DraftMatchesStep
<1>1. ConversationInvariant => DraftMatchesStep
  BY DEF ConversationInvariant
<1> QED
  BY <1>1, ConversationInvariantHolds, PTL

(* No sequence of /new, /edit, /closed and /edit_closed leaves high leverage *)
(* without a reason.                                                         *)
THEOREM HighLeverageIsAlwaysJustified == Spec => []HighLeverageIsJustified
<1>1. ConversationInvariant => HighLeverageIsJustified
  BY DEF ConversationInvariant
<1> QED
  BY <1>1, ConversationInvariantHolds, PTL

(* The size of a draft obeys the cap unless the symbol's record has moved.   *)
THEOREM DraftsObeyCap == Spec => []SizedWithinCap
<1>1. ConversationInvariant => SizedWithinCap
  BY DEF ConversationInvariant
<1> QED
  BY <1>1, ConversationInvariantHolds, PTL

-----------------------------------------------------------------------------
(* Steps.                                                                    *)

(* Only the last step of the form stores a trade with a new id.              *)
LEMMA OnlyTheFormStores ==
    ASSUME ConversationInvariant, [Next]_vars, NEW t \in open', t.id > lastId
    PROVE  At("THESIS") /\ StoreTrade
<1>1. /\ \A u \in open : u.id <= lastId /\ u.id \in Nat /\ u \in Trades
      /\ lastId \in Nat
  BY StoredIsTyped DEF ConversationInvariant, IdsAreUnique, TypeOK
<1>2. ASSUME UNCHANGED open PROVE FALSE
  BY <1>1, <1>2
<1>3. CASE FormNext
  BY <1>2, <1>3
  DEF FormNext, Start, Cancel, SymbolStep, SizeStep, LeverageStep, OverrideStep, PlainStep,
      ThesisStep, ThesisStepInterrupted, CreateTradeFails, recordVars
<1>4. CASE CommandNext
  <2>1. ASSUME NEW u \in open, NEW outcome \in Results, CloseTrade(u, outcome)
        PROVE  FALSE
    BY <1>1, <2>1 DEF CloseTrade
  <2>2. ASSUME NEW u \in open, NEW request \in Edits, EditOpenTrade(u, request)
        PROVE  FALSE
    <3> DEFINE edited == [u EXCEPT !.size = SizeAfter(u, request),
                                   !.leverage = LeverageAfter(u, request),
                                   !.reason = OpenReasonAfter(u, request)]
    <3>1. edited.id = u.id
      BY <1>1 DEF Trades
    <3>2. open' = (open \ {u}) \cup {edited}
      BY <2>2 DEF EditOpenTrade
    <3> HIDE DEF edited
    <3> QED
      BY <1>1, <3>1, <3>2
  <2>3. ASSUME NEW symbol \in Symbols, NEW i \in DOMAIN closed[symbol],
               \/ \E pnl \in Results : SetPnl(symbol, i, pnl)
               \/ \E request \in Edits : PrepareEdit(symbol, i, request)
               \/ ConfirmEdit(symbol, i)
               \/ ConfirmEditInterrupted(symbol, i)
        PROVE  FALSE
    BY <1>2, <2>3 DEF SetPnl, PrepareEdit, ConfirmEdit, ConfirmEditInterrupted, recordVars
  <2> QED
    BY <1>4, <2>1, <2>2, <2>3 DEF CommandNext
<1>5. CASE TimePasses \/ Expire \/ UNCHANGED vars
  BY <1>2, <1>5 DEF TimePasses, Expire, vars, recordVars
<1> QED
  BY <1>3, <1>4, <1>5 DEF Next

(* REQ-003: a trade breaks the cap in force when it is stored only if        *)
(* another command has moved the symbol's record during the form.            *)
THEOREM CapsHold == Spec => CapHoldsUnlessRecordMoves
<1> DEFINE P == \A t \in open' :
                  t.id > lastId /\ ~ moved =>
                      /\ WithinCap(t.size, CapNow(t.symbol))
                      /\ t.enforced = "yes" <=> CapNow(t.symbol) # NoCap
<1>1. ASSUME ConversationInvariant, [Next]_vars PROVE P
  <2> SUFFICES ASSUME NEW t \in open', t.id > lastId, ~ moved
               PROVE  /\ WithinCap(t.size, CapNow(t.symbol))
                      /\ t.enforced = "yes" <=> CapNow(t.symbol) # NoCap
    OBVIOUS
  <2>1. At("THESIS") /\ StoreTrade
    BY <1>1, OnlyTheFormStores
  <2>2. PICK u \in Trades :
           /\ open' = open \cup {u} /\ u.id = lastId + 1
           /\ u.symbol = conv.draft.symbol /\ u.size = conv.draft.size
           /\ u.enforced = conv.draft.enforced
    BY <1>1, <2>1, StoredTrade
  <2>3. t = u
    <3>1. \A w \in open : w.id <= lastId /\ w.id \in Nat
      BY <1>1, StoredIsTyped DEF ConversationInvariant, IdsAreUnique
    <3>2. lastId \in Nat
      BY <1>1 DEF ConversationInvariant, TypeOK
    <3> QED
      BY <2>2, <3>1, <3>2
  <2>4. "THESIS" \in FormSteps \cap AfterSize
    BY DEF FormSteps, AfterSize, AfterLeverage, PlainSteps
  <2> QED
    BY <1>1, <2>1, <2>2, <2>3, <2>4, DraftAt
<1>2. ConversationInvariant /\ [Next]_vars => [P]_vars
  BY <1>1
<1> HIDE DEF P
<1>3. Spec => [][P]_vars
  BY <1>2, ConversationInvariantHolds, PTL DEF Spec
<1> QED
  BY <1>3 DEF CapHoldsUnlessRecordMoves, P

(* Requirements 4.3 and 5 of phase 1.2: what the preview of /edit_closed has *)
(* shown of streak and cap is what the confirmation brings about, and it     *)
(* overwrites no P&L set by hand that the preview has not spoken of.         *)
THEOREM PreviewsAreTruthful == Spec => PreviewIsTruthful
<1> DEFINE P == \A symbol \in Symbols : \A i \in DOMAIN closed[symbol] :
                  ConfirmEdit(symbol, i) /\ ~ moved =>
                      /\ shown.symbol = symbol
                      /\ LossStreak(RecordOf(closed'[symbol])) = shown.streak
                      /\ SizeCap(RecordOf(closed'[symbol])) = shown.cap
                      /\ \/ closed[symbol][i].pnl \in {closed[symbol][i].price, closed'[symbol][i].pnl}
                         \/ shown.warning = "yes"
<1>1. ASSUME ConversationInvariant PROVE P
  <2> SUFFICES ASSUME NEW symbol \in Symbols, NEW i \in DOMAIN closed[symbol],
                      ConfirmEdit(symbol, i), ~ moved
               PROVE  /\ shown.symbol = symbol
                      /\ LossStreak(RecordOf(closed'[symbol])) = shown.streak
                      /\ SizeCap(RecordOf(closed'[symbol])) = shown.cap
                      /\ \/ closed[symbol][i].pnl \in {closed[symbol][i].price, closed'[symbol][i].pnl}
                         \/ shown.warning = "yes"
    OBVIOUS
  <2> DEFINE c == Pending(closed[symbol][i])
  <2>1. conv.step = "EDIT_CLOSED_CONFIRM" /\ IsPending(symbol, i) /\ WriteEdit(symbol, i)
    BY DEF ConfirmEdit, At
  <2>2. /\ shown.symbol = symbol
        /\ closed' = [closed EXCEPT ![symbol] = [closed[symbol] EXCEPT ![i] = c]]
        /\ PreviewFits(symbol, i)
    BY <1>1, <2>1, WriteEditWritesPreview
  <2>3. /\ shown.streak = LossStreak(RecordOf([closed[symbol] EXCEPT ![i] = c]))
        /\ shown.cap = SizeCap(RecordOf([closed[symbol] EXCEPT ![i] = c]))
    BY <2>2 DEF PreviewFits
  <2>4. \/ c.pnl = closed[symbol][i].pnl
        \/ closed[symbol][i].pnl = closed[symbol][i].price
        \/ shown.warning = "yes"
    BY <2>2 DEF PreviewFits, Pending, Rewritten
  <2> HIDE DEF c
  <2>5. closed'[symbol] = [closed[symbol] EXCEPT ![i] = c]
    BY <1>1, <2>2 DEF ConversationInvariant, TypeOK
  <2>6. closed'[symbol][i] = c
    BY <1>1, <2>5, StoredIsTyped DEF ConversationInvariant
  <2> QED
    BY <2>2, <2>3, <2>4, <2>5, <2>6
<1> HIDE DEF P
<1>2. Spec => [][P]_vars
  BY <1>1, ConversationInvariantHolds, PTL DEF Spec
<1> QED
  BY <1>2 DEF PreviewIsTruthful, P

(* BR-1: an active conversation keeps what it has accepted until it ends.    *)
THEOREM AnswersStay == Spec => AcceptedAnswersStay
<1> DEFINE P == Active /\ conv'.step # "IDLE" =>
                  /\ conv'.edit = conv.edit
                  /\ conv.draft.symbol # NoSymbol => conv'.draft.symbol = conv.draft.symbol
                  /\ conv.draft.size # NoSize =>
                        /\ conv'.draft.size = conv.draft.size
                        /\ conv'.draft.enforced = conv.draft.enforced
                  /\ conv.draft.leverage # NoLeverage => conv'.draft.leverage = conv.draft.leverage
<1>1. ASSUME ConversationInvariant, [Next]_vars PROVE P
  <2>1. CASE UNCHANGED conv
    BY <2>1
  <2>2. CASE Start \/ \E symbol \in Symbols : \E i \in DOMAIN closed[symbol] :
                         \E request \in Edits : PrepareEdit(symbol, i, request)
    BY <2>2 DEF Start, PrepareEdit
  <2>3. CASE Forget
    BY <2>3 DEF Forget, NoConversation
  <2>4. ASSUME NEW step \in FormSteps, NEW next, NEW draft, At(step), Persist(next, draft),
               conv.draft.symbol # NoSymbol => draft.symbol = conv.draft.symbol,
               conv.draft.size # NoSize =>
                  draft.size = conv.draft.size /\ draft.enforced = conv.draft.enforced,
               conv.draft.leverage # NoLeverage => draft.leverage = conv.draft.leverage
        PROVE  P
    BY <1>1, <2>4, DraftAt DEF Persist
  <2>5. /\ "SYMBOL" \in FormSteps \ AfterSize /\ "SYMBOL" \notin AfterLeverage
        /\ "SIZE" \in FormSteps \ AfterSize /\ "SIZE" \notin AfterLeverage
        /\ "LEVERAGE" \in FormSteps \ AfterLeverage
        /\ "LEV_OVERRIDE" \in FormSteps /\ PlainSteps \subseteq FormSteps
    BY DEF FormSteps, AfterSize, AfterLeverage, PlainSteps
  <2> HIDE DEF P
  <2>6. ASSUME NEW symbol \in Symbols, SymbolStep(symbol) PROVE P
    <3> DEFINE draft == [conv.draft EXCEPT !.symbol = symbol]
    <3>1. At("SYMBOL") /\ Persist("DIRECTION", draft)
      BY <2>6 DEF SymbolStep
    <3>2. /\ conv.draft.symbol = NoSymbol /\ draft.size = conv.draft.size
          /\ draft.leverage = conv.draft.leverage /\ draft.enforced = conv.draft.enforced
      BY <1>1, <2>5, <3>1, DraftAt DEF Drafts
    <3> QED
      BY <2>4, <2>5, <3>1, <3>2
  <2>7. ASSUME NEW size \in Sizes, SizeStep(size) PROVE P
    <3> DEFINE mark == IF CapNow(conv.draft.symbol) = NoCap THEN "no" ELSE "yes"
               draft == [conv.draft EXCEPT !.size = size, !.enforced = mark]
    <3>1. At("SIZE") /\ Persist("LEVERAGE", draft)
      BY <2>7 DEF SizeStep
    <3>2. /\ conv.draft.size = NoSize /\ draft.symbol = conv.draft.symbol
          /\ draft.leverage = conv.draft.leverage
      BY <1>1, <2>5, <3>1, DraftAt DEF Drafts
    <3> QED
      BY <2>4, <2>5, <3>1, <3>2
  <2>8. ASSUME NEW leverage \in Leverages, LeverageStep(leverage) PROVE P
    <3> DEFINE draft == [conv.draft EXCEPT !.leverage = leverage]
    <3>1. At("LEVERAGE") /\ Persist(IF Blocked(leverage) THEN "LEV_OVERRIDE" ELSE "ENTRY", draft)
      BY <2>8 DEF LeverageStep
    <3>2. /\ conv.draft.leverage = NoLeverage /\ draft.symbol = conv.draft.symbol
          /\ draft.size = conv.draft.size /\ draft.enforced = conv.draft.enforced
      BY <1>1, <2>5, <3>1, DraftAt DEF Drafts
    <3> QED
      BY <2>4, <2>5, <3>1, <3>2
  <2>9. CASE OverrideStep
    <3> DEFINE draft == [conv.draft EXCEPT !.reason = "given"]
    <3>1. At("LEV_OVERRIDE") /\ Persist("ENTRY", draft)
      BY <2>9 DEF OverrideStep
    <3>2. /\ draft.symbol = conv.draft.symbol /\ draft.leverage = conv.draft.leverage
          /\ draft.size = conv.draft.size /\ draft.enforced = conv.draft.enforced
      BY <1>1, <2>5, <3>1, DraftAt DEF Drafts
    <3> QED
      BY <2>4, <2>5, <3>1, <3>2
  <2>10. ASSUME NEW step \in PlainSteps, PlainStep(step) PROVE P
    <3>1. At(step) /\ Persist(AfterPlain[step], conv.draft) /\ step \in FormSteps
      BY <2>5, <2>10 DEF PlainStep
    <3> QED
      BY <2>4, <3>1
  <2>11. CASE TimePasses
    <3>1. conv' = [conv EXCEPT !.age = conv.age + 1]
      BY <2>11 DEF TimePasses
    <3>2. conv'.draft = conv.draft /\ conv'.edit = conv.edit
      BY <1>1, <3>1 DEF ConversationInvariant, TypeOK
    <3> QED
      BY <3>2 DEF P
  <2>12. CASE FormNext
    BY <2>1, <2>2, <2>3, <2>6, <2>7, <2>8, <2>9, <2>10, <2>12
    DEF FormNext, Cancel, ThesisStep, ThesisStepInterrupted, CreateTradeFails, conversationVars
  <2>13. CASE CommandNext
    BY <2>1, <2>2, <2>3, <2>13
    DEF CommandNext, CloseTrade, EditOpenTrade, SetPnl, ConfirmEdit, ConfirmEditInterrupted,
        conversationVars
  <2>14. CASE Expire \/ UNCHANGED vars
    BY <2>1, <2>3, <2>14 DEF Expire, vars, conversationVars
  <2> QED
    BY <1>1, <2>11, <2>12, <2>13, <2>14 DEF Next
<1>2. ConversationInvariant /\ [Next]_vars => [P]_vars
  BY <1>1
<1> HIDE DEF P
<1>3. Spec => [][P]_vars
  BY <1>2, ConversationInvariantHolds, PTL DEF Spec
<1> QED
  BY <1>3 DEF AcceptedAnswersStay, P

-----------------------------------------------------------------------------
(* The record as TradeLifecycle sees it.                                     *)

LEMMA IdsKept ==
    ASSUME OpenIds' = OpenIds, ClosedIds' = ClosedIds
    PROVE  UNCHANGED Lifecycle!lifecycleVars
BY DEF Lifecycle!lifecycleVars, PhaseOf

LEMMA ClosedIdsKept ==
    ASSUME \A s \in Symbols :
              /\ DOMAIN closed'[s] = DOMAIN closed[s]
              /\ \A i \in DOMAIN closed[s] : closed'[s][i].trade.id = closed[s][i].trade.id
    PROVE  ClosedIds' = ClosedIds
BY DEF ClosedIds

(* A trade with a new id is opened.                                          *)
LEMMA StoringOpens ==
    ASSUME ConversationInvariant, At("THESIS"), StoreTrade
    PROVE  \E id \in Ids : Lifecycle!OpenTrade(id)
<1>1. PICK t \in Trades : open' = open \cup {t} /\ t.id = lastId + 1
  BY StoredTrade
<1>2. t.id \in Ids /\ lastId \in Nat
  BY DEF Trades, ConversationInvariant, TypeOK
<1>3. OpenIds' = OpenIds \cup {t.id} /\ ClosedIds' = ClosedIds
  BY <1>1 DEF OpenIds, ClosedIds, StoreTrade
<1>4. t.id \notin OpenIds /\ t.id \notin ClosedIds
  <2>1. \A u \in open : u.id \in Nat /\ u.id <= lastId
    BY StoredIsTyped DEF ConversationInvariant, IdsAreUnique
  <2>2. \A s \in Symbols : \A i \in DOMAIN closed[s] :
           closed[s][i].trade.id \in Nat /\ closed[s][i].trade.id <= lastId
    BY StoredIsTyped DEF ConversationInvariant, IdsAreUnique
  <2> QED
    BY <1>1, <1>2, <2>1, <2>2 DEF OpenIds, ClosedIds
<1>5. /\ \A id \in Ids : PhaseOf(id)' = IF id = t.id THEN "open" ELSE PhaseOf(id)
      /\ PhaseOf(t.id) = "unopened"
  BY <1>3, <1>4 DEF PhaseOf
<1>6. Lifecycle!OpenTrade(t.id)
  BY <1>2, <1>5 DEF Lifecycle!OpenTrade
<1> QED
  BY <1>2, <1>6

(* /closed closes an open trade.                                             *)
LEMMA ClosingCloses ==
    ASSUME ConversationInvariant, NEW t \in open, NEW outcome \in Results,
           CloseTrade(t, outcome)
    PROVE  \E id \in Ids : Lifecycle!CloseQuietTrade(id)
<1> DEFINE list == <<[trade |-> t, price |-> outcome, pnl |-> outcome]>> \o closed[t.symbol]
<1>1. t \in Trades /\ t.symbol \in Symbols /\ t.id \in Ids
  BY DEF ConversationInvariant, TypeOK, Trades
<1>2. open' = open \ {t} /\ closed' = [closed EXCEPT ![t.symbol] = list]
  BY DEF CloseTrade
<1>3. /\ closed \in [Symbols -> Seq(ClosedTrades)] /\ closed[t.symbol] \in Seq(ClosedTrades)
  BY <1>1 DEF ConversationInvariant, TypeOK
<1>4. /\ 1 \in DOMAIN list /\ list[1].trade = t
      /\ \A i \in DOMAIN closed[t.symbol] : i + 1 \in DOMAIN list /\ list[i + 1] = closed[t.symbol][i]
      /\ \A i \in DOMAIN list :
            i = 1 \/ (i - 1 \in DOMAIN closed[t.symbol] /\ list[i] = closed[t.symbol][i - 1])
  BY <1>3
<1> HIDE DEF list
<1>5. closed'[t.symbol] = list /\ \A s \in Symbols \ {t.symbol} : closed'[s] = closed[s]
  BY <1>1, <1>2, <1>3
<1>6. OpenIds' = OpenIds \ {t.id}
  BY <1>2 DEF OpenIds, ConversationInvariant, IdsAreUnique
<1>7. ClosedIds' = ClosedIds \cup {t.id}
  <2>1. \A id \in ClosedIds' : id \in ClosedIds \cup {t.id}
    BY <1>4, <1>5 DEF ClosedIds
  <2>2. t.id \in ClosedIds'
    BY <1>1, <1>4, <1>5 DEF ClosedIds
  <2>3. \A id \in ClosedIds : id \in ClosedIds'
    BY <1>1, <1>4, <1>5 DEF ClosedIds
  <2> QED
    BY <2>1, <2>2, <2>3
<1>8. t.id \in OpenIds
  BY DEF OpenIds
<1>9. /\ \A id \in Ids : PhaseOf(id)' = IF id = t.id THEN "closed" ELSE PhaseOf(id)
      /\ PhaseOf(t.id) = "open"
  BY <1>6, <1>7, <1>8 DEF PhaseOf
<1>10. Lifecycle!CloseQuietTrade(t.id)
  BY <1>1, <1>9 DEF Lifecycle!CloseQuietTrade, Lifecycle!Live
<1> QED
  BY <1>1, <1>10

(* /edit, /setpnl and /edit_closed change what is stored of a trade.         *)
LEMMA RewritingStutters ==
    ASSUME ConversationInvariant, CommandNext,
           ~ \E t \in open : \E outcome \in Results : CloseTrade(t, outcome)
    PROVE  OpenIds' = OpenIds /\ ClosedIds' = ClosedIds
<1>1. ASSUME NEW t \in open, NEW request \in Edits, EditOpenTrade(t, request)
      PROVE  OpenIds' = OpenIds /\ ClosedIds' = ClosedIds
  <2> DEFINE edited == [t EXCEPT !.size = SizeAfter(t, request),
                                 !.leverage = LeverageAfter(t, request),
                                 !.reason = OpenReasonAfter(t, request)]
  <2>1. edited.id = t.id
    BY DEF ConversationInvariant, TypeOK, Trades
  <2>2. open' = (open \ {t}) \cup {edited} /\ closed' = closed
    BY <1>1 DEF EditOpenTrade
  <2> HIDE DEF edited
  <2> QED
    BY <2>1, <2>2 DEF OpenIds, ClosedIds
<1>2. ASSUME NEW symbol \in Symbols, NEW i \in DOMAIN closed[symbol],
             NEW c \in ClosedTrades, c.trade.id = closed[symbol][i].trade.id,
             closed' = [closed EXCEPT ![symbol] = [closed[symbol] EXCEPT ![i] = c]],
             open' = open
      PROVE  OpenIds' = OpenIds /\ ClosedIds' = ClosedIds
  <2>1. /\ closed \in [Symbols -> Seq(ClosedTrades)] /\ closed[symbol] \in Seq(ClosedTrades)
    BY DEF ConversationInvariant, TypeOK
  <2>2. /\ closed'[symbol] = [closed[symbol] EXCEPT ![i] = c]
        /\ \A s \in Symbols \ {symbol} : closed'[s] = closed[s]
    BY <1>2, <2>1
  <2>3. /\ DOMAIN closed'[symbol] = DOMAIN closed[symbol]
        /\ \A j \in DOMAIN closed[symbol] : closed'[symbol][j].trade.id = closed[symbol][j].trade.id
    BY <1>2, <2>1, <2>2
  <2> QED
    BY <1>2, <2>2, <2>3, ClosedIdsKept DEF OpenIds
<1>3. ASSUME NEW symbol \in Symbols, NEW i \in DOMAIN closed[symbol],
             NEW pnl \in Results, SetPnl(symbol, i, pnl)
      PROVE  OpenIds' = OpenIds /\ ClosedIds' = ClosedIds
  <2>1. /\ [closed[symbol][i] EXCEPT !.pnl = pnl] \in ClosedTrades
        /\ [closed[symbol][i] EXCEPT !.pnl = pnl].trade.id = closed[symbol][i].trade.id
    BY StoredIsTyped DEF ConversationInvariant, ClosedTrades
  <2> QED
    BY <1>2, <1>3, <2>1 DEF SetPnl
<1>4. ASSUME NEW symbol \in Symbols, NEW i \in DOMAIN closed[symbol],
             ConfirmEdit(symbol, i) \/ ConfirmEditInterrupted(symbol, i)
      PROVE  OpenIds' = OpenIds /\ ClosedIds' = ClosedIds
  <2>1. /\ conv.step = "EDIT_CLOSED_CONFIRM" /\ IsPending(symbol, i)
        /\ WriteEdit(symbol, i) /\ open' = open
    BY <1>4 DEF ConfirmEdit, ConfirmEditInterrupted, At
  <2> QED
    BY <1>2, <2>1, WriteEditWritesPreview
<1>5. ASSUME UNCHANGED recordVars PROVE OpenIds' = OpenIds /\ ClosedIds' = ClosedIds
  BY <1>5 DEF recordVars, OpenIds, ClosedIds
<1>6. ASSUME NEW symbol \in Symbols, NEW i \in DOMAIN closed[symbol],
             NEW request \in Edits, PrepareEdit(symbol, i, request)
      PROVE  UNCHANGED recordVars
  BY <1>6 DEF PrepareEdit
<1> QED
  BY <1>1, <1>3, <1>4, <1>5, <1>6 DEF CommandNext

LEMMA StepKeepsLifecycle ==
    ASSUME ConversationInvariant, [Next]_vars
    PROVE  [Lifecycle!LifecycleNext]_(Lifecycle!lifecycleVars)
<1>1. CASE ThesisStep \/ ThesisStepInterrupted
  BY <1>1, StoringOpens DEF ThesisStep, ThesisStepInterrupted, Lifecycle!LifecycleNext
<1>2. CASE \E t \in open : \E outcome \in Results : CloseTrade(t, outcome)
  BY <1>2, ClosingCloses DEF Lifecycle!LifecycleNext
<1>3. CASE CommandNext /\ ~ \E t \in open : \E outcome \in Results : CloseTrade(t, outcome)
  BY <1>3, RewritingStutters, IdsKept
<1>4. CASE UNCHANGED <<open, closed>>
  BY <1>4, IdsKept DEF OpenIds, ClosedIds
<1>5. CASE FormNext /\ ~ ThesisStep /\ ~ ThesisStepInterrupted
  BY <1>4, <1>5
  DEF FormNext, Start, Cancel, SymbolStep, SizeStep, LeverageStep, OverrideStep, PlainStep,
      CreateTradeFails, recordVars
<1>6. CASE TimePasses \/ Expire \/ UNCHANGED vars
  BY <1>4, <1>6 DEF TimePasses, Expire, vars, recordVars
<1> QED
  BY <1>1, <1>2, <1>3, <1>5, <1>6 DEF Next

(* The commands about a trade's figures implement the life of a trade: an    *)
(* edit, a correction or a repeated message opens, closes and loses none.    *)
THEOREM RecordImplementsLifecycle == Spec => RecordKeepsLifecycle
<1>1. Init => Lifecycle!LifecycleInit
  BY DEF Init, Lifecycle!LifecycleInit, PhaseOf, OpenIds, ClosedIds
<1> QED
  BY <1>1, StepKeepsLifecycle, ConversationInvariantHolds, PTL
  DEF Spec, RecordKeepsLifecycle, Lifecycle!LifecycleSpec
=============================================================================
