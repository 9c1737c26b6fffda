--------------------------- MODULE MCConversations ---------------------------
(***************************************************************************)
(* Conversations for TLC: the edits a user asks for, one of each kind,     *)
(* and trades that win or lose.                                            *)
(***************************************************************************)
EXTENDS Conversations

Request(size, price, leverage, reason) ==
    [size |-> size, price |-> price, leverage |-> leverage, reason |-> reason]

MCResults == {-1, 1}

SizeEdit == Request(1, KeepOutcome, NoLeverage, "keep")
PriceEdit == Request(NoSize, -1, NoLeverage, "keep")
RaiseLeverage == Request(NoSize, KeepOutcome, 20, "keep")
RaiseWithReason == Request(NoSize, KeepOutcome, 20, "given")
LowerLeverage == Request(NoSize, KeepOutcome, 5, "keep")
RaiseSomewhat == Request(NoSize, KeepOutcome, 15, "keep")
DropReason == Request(NoSize, KeepOutcome, NoLeverage, "none")

(* Those that name a leverage the instance has.                              *)
MCEdits ==
    {request \in {SizeEdit, PriceEdit, RaiseLeverage, RaiseWithReason, LowerLeverage,
                  RaiseSomewhat, DropReason} :
        request.leverage \in Leverages \cup {NoLeverage}}
=============================================================================
