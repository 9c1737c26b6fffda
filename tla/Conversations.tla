----------------------------- MODULE Conversations -----------------------------
(***************************************************************************)
(* What the user and the bot agree on over several messages: the /new form *)
(* (src/bot/forms.py) and the confirmation of /edit_closed                 *)
(* (src/bot/edit_closed.py).  Both keep their state under one Redis key    *)
(* with a time to live; between two messages of a conversation the user    *)
(* may send any other command, and these change the record of trades the   *)
(* conversation has been judged against.                                   *)
(*                                                                         *)
(* Updates are handled one at a time and the price monitor does not touch  *)
(* any of this, so a handler is one step, except where it fails between    *)
(* two Redis commands.  An input that is refused changes nothing and is no *)
(* step.  Of P&L only the sign is kept; direction, prices, maximal loss,   *)
(* regime and thesis are only given or not yet; times are left out, so     *)
(* that the order of the closed trades is the order of closing             *)
(* (SizingHistory lets it change).                                         *)
(***************************************************************************)
EXTENDS SizingRule

CONSTANTS
    Symbols, NoSymbol,
    Sizes,
    Leverages,
    BlockThreshold,  \* leverage_block_threshold, 10 by default
    Results,    \* the signs of P&L that trades come to
    Edits,      \* what /edit and /edit_closed are asked to change
    MaxTrades,  \* bound: trade ids handed out
    Timeout     \* form_timeout_seconds, in ticks of TimePasses

NoSize == 0
KeepOutcome == 2

NoLeverage == 0

(* HIGH_LEVERAGE_THRESHOLD of edit_closed.py, and 20 again in update_trade   *)
(* and update_closed_trade: the edits do not ask the settings.               *)
EditThreshold == 20

(* The form's check of leverage, and that of the edits.                      *)
Blocked(leverage) == leverage >= BlockThreshold
High(leverage) == leverage >= EditThreshold

Reasons == {"none", "given"}

(* An edit names some fields: a size, a change of prices or direction with   *)
(* the outcome it makes, a leverage, an override reason ("none" is an empty  *)
(* value).                                                                   *)
EditRequests ==
    [size : Sizes \cup {NoSize}, price : Results \cup {KeepOutcome},
     leverage : Leverages \cup {NoLeverage}, reason : Reasons \cup {"keep"}]

ASSUME ConversationAssumption ==
    /\ NoSymbol \notin Symbols
    /\ Sizes \subseteq Nat \ {0}
    /\ Leverages \subseteq 1 .. 125
    /\ BlockThreshold \in 1 .. 125
    /\ Results \subseteq Outcomes
    /\ Edits \subseteq EditRequests
    /\ MaxTrades \in Nat
    /\ Timeout \in Nat

Ids == 1 .. MaxTrades

Trades == [id : Ids, symbol : Symbols, size : Sizes, enforced : {"no", "yes"},
           leverage : Leverages, reason : Reasons]

(* price is the outcome the stored prices give, pnl the stored realized_pnl. *)
ClosedTrades == [trade : Trades, price : Results, pnl : Results]

(* Steps of the form that take one answer and have only to be passed.        *)
PlainSteps == {"DIRECTION", "ENTRY", "INVALIDATION", "MAX_LOSS", "REGIME"}
AfterLeverage == (PlainSteps \ {"DIRECTION"}) \cup {"LEV_OVERRIDE", "THESIS"}
AfterSize == AfterLeverage \cup {"LEVERAGE"}
FormSteps == AfterSize \cup {"SYMBOL", "DIRECTION", "SIZE"}

Drafts == [symbol : Symbols \cup {NoSymbol}, size : Sizes \cup {NoSize},
           enforced : {"no", "yes"}, leverage : Leverages \cup {NoLeverage},
           reason : Reasons]

EmptyDraft == [symbol |-> NoSymbol, size |-> NoSize, enforced |-> "no",
               leverage |-> NoLeverage, reason |-> "none"]

(* The pending payload: the trade, the request, the P&L of the preview.      *)
PendingEdits == [id : Ids \cup {0}, request : EditRequests, pnl : Results \cup {KeepOutcome}]

NoRequest == [size |-> NoSize, price |-> KeepOutcome, leverage |-> NoLeverage, reason |-> "keep"]
NoEdit == [id |-> 0, request |-> NoRequest, pnl |-> KeepOutcome]

VARIABLES
    open,    \* the trades in OPEN or OPEN_OVERRIDE
    closed,  \* the closed trades of each symbol, newest first (trades:closed)
    lastId,  \* the trade id sequence
    conv,    \* conversation:{chat_id}; "IDLE" when there is no such key
    moved,   \* history: has another command changed what conv was judged by
    shown    \* history: what the pending edit's preview has told the user

recordVars == <<open, closed, lastId>>
conversationVars == <<conv, moved, shown>>
vars == <<recordVars, conversationVars>>

NoPreview == [symbol |-> NoSymbol, warning |-> "no", streak |-> 0, cap |-> NoCap]

TypeOK ==
    /\ open \in SUBSET Trades
    /\ closed \in [Symbols -> Seq(ClosedTrades)]
    /\ lastId \in 0 .. MaxTrades
    /\ conv \in [step : FormSteps \cup {"IDLE", "EDIT_CLOSED_CONFIRM"},
                 age : 0 .. Timeout + 1, draft : Drafts, edit : PendingEdits]
    /\ moved \in BOOLEAN
    /\ shown.symbol \in Symbols \cup {NoSymbol}
    /\ shown.warning \in {"no", "yes"}

NoConversation == [step |-> "IDLE", age |-> 0, draft |-> EmptyDraft, edit |-> NoEdit]

Init ==
    /\ open = {}
    /\ closed = [symbol \in Symbols |-> <<>>]
    /\ lastId = 0
    /\ conv = NoConversation
    /\ moved = FALSE
    /\ shown = NoPreview

(* What the sizing rule is given of a list of closed trades.                 *)
RecordOf(trades) ==
    [i \in DOMAIN trades |-> [size |-> trades[i].trade.size, pnl |-> trades[i].pnl]]

(* list_closed_trades(symbol) and compute_size_cap.                          *)
CapNow(symbol) == SizeCap(RecordOf(closed[symbol]))

(* _load_active_state finds a conversation and finds it young enough.        *)
Active == conv.step # "IDLE" /\ conv.age <= Timeout

At(step) == conv.step = step /\ Active

(* clear_conversation_state.                                                 *)
Forget ==
    /\ conv' = NoConversation
    /\ moved' = FALSE
    /\ shown' = NoPreview

(* _persist_state: writes the key afresh, with its whole time to live.       *)
Persist(step, draft) ==
    conv' = [step |-> step, age |-> 0, draft |-> draft, edit |-> NoEdit]

-----------------------------------------------------------------------------
(* The form.                                                                 *)

(* Faulty: a form in progress is replaced.                                   *)
StartAnyway ==
    /\ Persist("SYMBOL", EmptyDraft)
    /\ moved' = FALSE
    /\ shown' = NoPreview
    /\ UNCHANGED recordVars

(* /new.                                                                     *)
Start ==
    /\ ~ Active
    /\ Persist("SYMBOL", EmptyDraft)
    /\ moved' = FALSE
    /\ shown' = NoPreview
    /\ UNCHANGED recordVars

(* /cancel; or, to a pending edit, any reply but "yes".                      *)
Cancel ==
    /\ conv.step # "IDLE"
    /\ Forget
    /\ UNCHANGED recordVars

SymbolStep(symbol) ==
    /\ At("SYMBOL")
    /\ Persist("DIRECTION", [conv.draft EXCEPT !.symbol = symbol])
    /\ UNCHANGED <<recordVars, moved, shown>>

(* Faulty: the cap is shown but not enforced.                                *)
SizeStepUncapped(size) ==
    /\ At("SIZE")
    /\ Persist("LEVERAGE", [conv.draft EXCEPT !.size = size,
                                              !.enforced = IF CapNow(conv.draft.symbol) = NoCap
                                                           THEN "no" ELSE "yes"])
    /\ moved' = FALSE
    /\ UNCHANGED <<recordVars, shown>>

(* The one place where the cap is looked at.                                 *)
SizeStep(size) ==
    /\ At("SIZE")
    /\ WithinCap(size, CapNow(conv.draft.symbol))
    /\ Persist("LEVERAGE", [conv.draft EXCEPT !.size = size,
                                              !.enforced = IF CapNow(conv.draft.symbol) = NoCap
                                                           THEN "no" ELSE "yes"])
    /\ moved' = FALSE
    /\ UNCHANGED <<recordVars, shown>>

(* Faulty: the warning is given but not waited for.                          *)
LeverageStepUnasked(leverage) ==
    /\ At("LEVERAGE")
    /\ Persist("ENTRY", [conv.draft EXCEPT !.leverage = leverage])
    /\ UNCHANGED <<recordVars, moved, shown>>

LeverageStep(leverage) ==
    /\ At("LEVERAGE")
    /\ Persist(IF Blocked(leverage) THEN "LEV_OVERRIDE" ELSE "ENTRY",
               [conv.draft EXCEPT !.leverage = leverage])
    /\ UNCHANGED <<recordVars, moved, shown>>

OverrideStep ==
    /\ At("LEV_OVERRIDE")
    /\ Persist("ENTRY", [conv.draft EXCEPT !.reason = "given"])
    /\ UNCHANGED <<recordVars, moved, shown>>

AfterPlain ==
    [DIRECTION |-> "SIZE", ENTRY |-> "INVALIDATION", INVALIDATION |-> "MAX_LOSS",
     MAX_LOSS |-> "REGIME", REGIME |-> "THESIS"]

PlainStep(step) ==
    /\ At(step)
    /\ Persist(AfterPlain[step], conv.draft)
    /\ UNCHANGED <<recordVars, moved, shown>>

(* Faulty: the sequence is read but not advanced.                            *)
StoreTradeReusingId ==
    /\ lastId < MaxTrades
    /\ lastId' = lastId
    /\ open' = open \cup
          {[id |-> lastId + 1, symbol |-> conv.draft.symbol, size |-> conv.draft.size,
            enforced |-> conv.draft.enforced, leverage |-> conv.draft.leverage,
            reason |-> conv.draft.reason]}
    /\ UNCHANGED closed

(* create_trade.                                                             *)
StoreTrade ==
    /\ lastId < MaxTrades
    /\ lastId' = lastId + 1
    /\ open' = open \cup
          {[id |-> lastId + 1, symbol |-> conv.draft.symbol, size |-> conv.draft.size,
            enforced |-> conv.draft.enforced, leverage |-> conv.draft.leverage,
            reason |-> conv.draft.reason]}
    /\ UNCHANGED closed

ThesisStep ==
    /\ At("THESIS")
    /\ StoreTrade
    /\ Forget

(* The trade is stored, and clear_conversation_state fails or is never       *)
(* reached.                                                                  *)
ThesisStepInterrupted ==
    /\ At("THESIS")
    /\ StoreTrade
    /\ UNCHANGED conversationVars

(* create_trade fails after its INCR.                                        *)
CreateTradeFails ==
    /\ At("THESIS")
    /\ lastId < MaxTrades
    /\ lastId' = lastId + 1
    /\ UNCHANGED <<open, closed, conversationVars>>

FormNext ==
    \/ Start
    \/ Cancel
    \/ \E symbol \in Symbols : SymbolStep(symbol)
    \/ \E size \in Sizes : SizeStep(size)
    \/ \E leverage \in Leverages : LeverageStep(leverage)
    \/ OverrideStep
    \/ \E step \in PlainSteps : PlainStep(step)
    \/ ThesisStep
    \/ ThesisStepInterrupted
    \/ CreateTradeFails

-----------------------------------------------------------------------------
(* Commands that change the record between two messages of a conversation.   *)

(* The symbol whose record the conversation has been, or will be, judged by. *)
WatchedSymbol ==
    IF conv.step = "EDIT_CLOSED_CONFIRM" THEN shown.symbol ELSE conv.draft.symbol

RecordMoves(symbol) == moved' = (moved \/ symbol = WatchedSymbol)

(* /closed.                                                                  *)
CloseTrade(t, outcome) ==
    /\ open' = open \ {t}
    /\ closed' = [closed EXCEPT ![t.symbol] =
                     <<[trade |-> t, price |-> outcome, pnl |-> outcome]>> \o @]
    /\ RecordMoves(t.symbol)
    /\ UNCHANGED <<lastId, conv, shown>>

(* /setpnl.                                                                  *)
SetPnl(symbol, i, pnl) ==
    /\ pnl # closed[symbol][i].pnl
    /\ closed' = [closed EXCEPT ![symbol][i].pnl = pnl]
    /\ RecordMoves(symbol)
    /\ UNCHANGED <<open, lastId, conv, shown>>

SizeAfter(t, request) == IF request.size = NoSize THEN t.size ELSE request.size

LeverageAfter(t, request) == IF request.leverage = NoLeverage THEN t.leverage ELSE request.leverage

(* Faulty: an empty reason is taken as it comes.                             *)
OpenReasonTaken(t, request) ==
    IF request.reason = "keep" THEN t.reason ELSE request.reason

(* update_trade: the reason goes when high leverage is lowered; it stays as  *)
(* it is unless a leverage is named too.                                     *)
OpenReasonAfter(t, request) ==
    IF High(t.leverage) /\ ~ High(LeverageAfter(t, request))
    THEN "none"
    ELSE IF request.leverage = NoLeverage \/ request.reason = "keep"
    THEN t.reason
    ELSE request.reason

(* /edit.  The size is not compared with any cap.                            *)
EditOpenTrade(t, request) ==
    LET edited == [t EXCEPT !.size = SizeAfter(t, request),
                            !.leverage = LeverageAfter(t, request),
                            !.reason = OpenReasonAfter(t, request)]
    IN  /\ request.leverage # NoLeverage =>
              ~ High(edited.leverage) \/ edited.reason = "given"
        /\ open' = (open \ {t}) \cup {edited}
        /\ UNCHANGED <<closed, lastId, conversationVars>>

-----------------------------------------------------------------------------
(* /edit_closed.                                                             *)

TouchesPnl(request) == request.size # NoSize \/ request.price # KeepOutcome

ClosedReasonAfter(t, request) ==
    IF request.leverage # NoLeverage /\ ~ High(request.leverage)
    THEN "none"
    ELSE IF request.reason = "keep" THEN t.reason ELSE request.reason

PriceAfter(c, request) == IF request.price = KeepOutcome THEN c.price ELSE request.price

(* The closed trade with the request's fields in place and this P&L.         *)
Rewritten(c, request, pnl) ==
    [trade |-> [c.trade EXCEPT !.size = SizeAfter(c.trade, request),
                               !.leverage = LeverageAfter(c.trade, request),
                               !.reason = ClosedReasonAfter(c.trade, request)],
     price |-> PriceAfter(c, request),
     pnl |-> pnl]

(* prepare: validates, recomputes the P&L when the request touches it, shows *)
(* the preview with its effect on streak and cap, and keeps the edit.        *)
PrepareEdit(symbol, i, request) ==
    LET c == closed[symbol][i]
        pnl == IF TouchesPnl(request) THEN PriceAfter(c, request) ELSE KeepOutcome
        preview == Rewritten(c, request, IF pnl = KeepOutcome THEN c.pnl ELSE pnl)
        after == RecordOf([closed[symbol] EXCEPT ![i] = preview])
    IN  /\ ~ Active
        /\ High(preview.trade.leverage) => preview.trade.reason = "given"
        /\ conv' = [step |-> "EDIT_CLOSED_CONFIRM", age |-> 0, draft |-> EmptyDraft,
                    edit |-> [id |-> c.trade.id, request |-> request, pnl |-> pnl]]
        /\ moved' = FALSE
        /\ shown' = [symbol |-> symbol,
                     warning |-> IF pnl # KeepOutcome /\ c.pnl # c.price
                                 THEN "yes" ELSE "no",
                     streak |-> LossStreak(after),
                     cap |-> SizeCap(after)]
        /\ UNCHANGED recordVars

(* The trade that the pending edit names.                                    *)
IsPending(symbol, i) == closed[symbol][i].trade.id = conv.edit.id

(* What the pending edit makes of a closed trade as it is stored now.        *)
Pending(c) ==
    Rewritten(c, conv.edit.request, IF conv.edit.pnl = KeepOutcome THEN c.pnl ELSE conv.edit.pnl)

MayBeWritten(symbol, i) ==
    LET edited == Pending(closed[symbol][i]).trade
    IN High(edited.leverage) => edited.reason = "given"

(* Faulty: the P&L is left as it is stored.                                  *)
WriteEditKeepingPnl(symbol, i) ==
    closed' = [closed EXCEPT ![symbol][i] = Rewritten(@, conv.edit.request, @.pnl)]

(* update_closed_trade: merges the pending fields into the trade as it is    *)
(* stored now, overwrites the P&L with the one of the preview, and checks    *)
(* once more.                                                                *)
WriteEdit(symbol, i) ==
    /\ MayBeWritten(symbol, i)
    /\ closed' = [closed EXCEPT ![symbol][i] = Pending(@)]

(* resolve, with the reply "yes".                                            *)
ConfirmEdit(symbol, i) ==
    /\ At("EDIT_CLOSED_CONFIRM")
    /\ IsPending(symbol, i)
    /\ WriteEdit(symbol, i)
    /\ Forget
    /\ UNCHANGED <<open, lastId>>

(* The edit is stored, and clear_conversation_state fails.                   *)
ConfirmEditInterrupted(symbol, i) ==
    /\ At("EDIT_CLOSED_CONFIRM")
    /\ IsPending(symbol, i)
    /\ WriteEdit(symbol, i)
    /\ UNCHANGED <<open, lastId, conversationVars>>

CommandNext ==
    \/ \E t \in open :
       \/ \E outcome \in Results : CloseTrade(t, outcome)
       \/ \E request \in Edits : EditOpenTrade(t, request)
    \/ \E symbol \in Symbols : \E i \in DOMAIN closed[symbol] :
       \/ \E pnl \in Results : SetPnl(symbol, i, pnl)
       \/ \E request \in Edits : PrepareEdit(symbol, i, request)
       \/ ConfirmEdit(symbol, i)
       \/ ConfirmEditInterrupted(symbol, i)

-----------------------------------------------------------------------------
TimePasses ==
    /\ Active
    /\ conv' = [conv EXCEPT !.age = @ + 1]
    /\ UNCHANGED <<recordVars, moved, shown>>

(* Redis lets the key go, or the next message finds it too old and deletes   *)
(* it.                                                                       *)
Expire ==
    /\ conv.step # "IDLE"
    /\ ~ Active
    /\ Forget
    /\ UNCHANGED recordVars

Next == FormNext \/ CommandNext \/ TimePasses \/ Expire

Spec == Init /\ [][Next]_vars

(* The same with no Redis command failing.                                   *)
CalmSpec == Init /\ [][Next /\ ~ ThesisStepInterrupted /\ ~ CreateTradeFails]_vars

(* Fairness: time passes, and Redis keeps its promise of a time to live.     *)
FairSpec == Spec /\ WF_vars(TimePasses) /\ WF_vars(Expire)

-----------------------------------------------------------------------------
(* Correctness.                                                              *)

(* The draft holds exactly the answers that the steps before conv.step have  *)
(* asked for, and nothing of a pending edit: no route through the form,      *)
(* retries and restarts included, reaches the thesis with an answer missing, *)
(* or high leverage unexplained.                                             *)
DraftMatchesStep ==
    conv.step \in FormSteps =>
        /\ conv.edit = NoEdit
        /\ conv.draft.symbol # NoSymbol <=> conv.step # "SYMBOL"
        /\ conv.draft.size # NoSize <=> conv.step \in AfterSize
        /\ conv.draft.leverage # NoLeverage <=> conv.step \in AfterLeverage
        /\ conv.draft.reason = "given" <=>
              Blocked(conv.draft.leverage) /\ conv.step # "LEV_OVERRIDE"
        /\ conv.step = "LEV_OVERRIDE" => Blocked(conv.draft.leverage)

(* A trade with leverage that the form blocks and the edits take for high    *)
(* carries a reason.                                                         *)
Justified(t) == Blocked(t.leverage) /\ High(t.leverage) => t.reason = "given"

(* REQ-002: no such leverage is left without a reason, whatever sequence of  *)
(* /new, /edit, /closed and /edit_closed has made the trade what it is.      *)
HighLeverageIsJustified ==
    /\ \A t \in open : Justified(t)
    /\ \A symbol \in Symbols : \A i \in DOMAIN closed[symbol] :
          Justified(closed[symbol][i].trade)

(* REQ-003: from the size step on, the draft's size obeys the cap and its    *)
(* mark tells whether there is one, as long as no other command has changed  *)
(* that symbol's record of trades.                                           *)
SizedWithinCap ==
    conv.step \in AfterSize /\ ~ moved =>
        /\ WithinCap(conv.draft.size, CapNow(conv.draft.symbol))
        /\ conv.draft.enforced = "yes" <=> CapNow(conv.draft.symbol) # NoCap

(* So a trade breaks the cap that is in force when it is stored only if      *)
(* something else has moved that cap during the form.                        *)
CapHoldsUnlessRecordMoves ==
    [][\A t \in open' :
          t.id > lastId /\ ~ moved =>
              /\ WithinCap(t.size, CapNow(t.symbol))
              /\ t.enforced = "yes" <=> CapNow(t.symbol) # NoCap]_vars

(* Requirements 4.3 and 5 of phase 1.2: the effect on streak and cap the     *)
(* user has confirmed is the effect the edit has, and a P&L set by hand is   *)
(* overwritten only as announced, unless another command has changed that    *)
(* symbol's record since.                                                    *)
PreviewIsTruthful ==
    [][\A symbol \in Symbols : \A i \in DOMAIN closed[symbol] :
          ConfirmEdit(symbol, i) /\ ~ moved =>
              /\ shown.symbol = symbol
              /\ LossStreak(RecordOf(closed'[symbol])) = shown.streak
              /\ SizeCap(RecordOf(closed'[symbol])) = shown.cap
              /\ \/ closed[symbol][i].pnl \in {closed[symbol][i].price, closed'[symbol][i].pnl}
                 \/ shown.warning = "yes"]_vars

(* BR-1: while a conversation is active no command takes its place, and an   *)
(* answer once accepted is what will be stored.                              *)
AcceptedAnswersStay ==
    [][Active /\ conv'.step # "IDLE" =>
          /\ conv'.edit = conv.edit
          /\ conv.draft.symbol # NoSymbol => conv'.draft.symbol = conv.draft.symbol
          /\ conv.draft.size # NoSize =>
                /\ conv'.draft.size = conv.draft.size
                /\ conv'.draft.enforced = conv.draft.enforced
          /\ conv.draft.leverage # NoLeverage => conv'.draft.leverage = conv.draft.leverage]_vars

(* A conversation does not stay active for ever: it is completed, given up,  *)
(* or left alone until it is too old.                                        *)
ConversationsEnd == Active ~> ~ Active

(* requirements.md:115: trade creation rejected if size > cap.               *)
SizeWithinCapAtCreation ==
    [][\A t \in open' : t.id > lastId => WithinCap(t.size, CapNow(t.symbol))]_vars

-----------------------------------------------------------------------------
(* The inductive strengthening: a trade id belongs to one trade.             *)
IdsAreUnique ==
    /\ \A t \in open : t.id <= lastId
    /\ \A s \in Symbols : \A i \in DOMAIN closed[s] :
       /\ closed[s][i].trade.id <= lastId
       /\ \A t \in open : t.id # closed[s][i].trade.id
       /\ \A r \in Symbols : \A j \in DOMAIN closed[r] :
             closed[r][j].trade.id = closed[s][i].trade.id => r = s /\ j = i
    /\ \A t, u \in open : t.id = u.id => t = u

(* The preview fits the closed trade as it is stored: streak and cap are     *)
(* those the edit would make, the P&L is the one the prices it would leave   *)
(* give, and one set by hand has not been passed over in silence.            *)
PreviewFits(symbol, i) ==
    LET c == closed[symbol][i]
        after == RecordOf([closed[symbol] EXCEPT ![i] = Pending(c)])
    IN  /\ shown.streak = LossStreak(after) /\ shown.cap = SizeCap(after)
        /\ conv.edit.pnl # KeepOutcome =>
              /\ conv.edit.pnl = PriceAfter(c, conv.edit.request)
              /\ c.pnl # c.price => shown.warning = "yes"

(* The pending edit and its preview are of one closed trade, which may still *)
(* be written.                                                               *)
PreviewStands ==
    conv.step = "EDIT_CLOSED_CONFIRM" =>
        /\ shown.symbol \in Symbols
        /\ \E i \in DOMAIN closed[shown.symbol] :
              /\ IsPending(shown.symbol, i)
              /\ MayBeWritten(shown.symbol, i)
              /\ ~ moved => PreviewFits(shown.symbol, i)

(* The inductive invariant of form and edits: what the properties above need *)
(* of each other to survive every step.                                      *)
ConversationInvariant ==
    /\ TypeOK
    /\ DraftMatchesStep
    /\ HighLeverageIsJustified
    /\ SizedWithinCap
    /\ IdsAreUnique
    /\ PreviewStands

-----------------------------------------------------------------------------
(* The life of a trade behind the forms and edits.  Whether an open trade is *)
(* held on a justification, and its breaches, are TradeStore's business.     *)

OpenIds == {t.id : t \in open}

ClosedIds == UNION {{closed[s][i].trade.id : i \in DOMAIN closed[s]} : s \in Symbols}

PhaseOf(id) ==
    IF id \in OpenIds THEN "open" ELSE IF id \in ClosedIds THEN "closed" ELSE "unopened"

Lifecycle == INSTANCE TradeLifecycle WITH
    Trades <- Ids, Breaches <- {}, None <- 0,
    phase <- [id \in Ids |-> PhaseOf(id)],
    pending <- [id \in Ids |-> 0],
    answer <- [b \in {} |-> "unanswered"]

(* No edit, correction, repeated thesis or repeated "yes" opens a trade      *)
(* again, closes one, or loses one: to the trades themselves they are        *)
(* nothing but the opening and closing of TradeLifecycle.                    *)
RecordKeepsLifecycle == Lifecycle!LifecycleSpec
=============================================================================
