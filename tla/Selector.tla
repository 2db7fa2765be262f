------------------------------ MODULE Selector ------------------------------
(* A page of BestFlight that asks the network for a list once, when it opens,   *)
(* lets the user tick one entry and goes on with it: CountrySelectorPresenter   *)
(* and CurrencySelectorPresenter, which differ only in their models.            *)
(*                                                                              *)
(* The answer is handled in two parts: the models are written on the session's  *)
(* queue ("arrived"), the rows are shown later on the main queue ("shown").     *)
(* shouldRefresh is never called: SelectorViewController builds a               *)
(* UIRefreshControl but does not give it to the table.                          *)
CONSTANT None

(* What a page knows: `answer' of the network, the `models' it brought, and the *)
(* identifier of the ticked row.  A model has an identifier.                    *)
OrNone(S) == S \cup {None}
Answers == {"loading", "arrived", "shown", "failed"}
NoPage == [answer |-> "failed", models |-> {}, selectedItem |-> None]

SelectorPages(models, ids) ==
    [answer : Answers, models : SUBSET models, selectedItem : OrNone(ids)]

IdOf(model) == IF model = None THEN None ELSE model.id

(* viewIsReady: the request is sent, the model chosen before is ticked.         *)
Opened(selectedModel) ==
    [answer |-> "loading", models |-> {}, selectedItem |-> IdOf(selectedModel)]

Obtained(page, models) == [page EXCEPT !.answer = "arrived", !.models = models]
Shown(page)            == [page EXCEPT !.answer = "shown"]
NotObtained(page)      == [page EXCEPT !.answer = "failed"]

(* What the session or the main queue does next with the page.                  *)
AnswersOf(page, models) ==
    CASE page.answer = "loading" -> {Obtained(page, models), NotObtained(page)}
      [] page.answer = "arrived" -> {Shown(page)}
      [] OTHER -> {}

(* Continue is enabled with a tick, whatever has been loaded.                   *)
ContinueEnabled(page) == page.selectedItem # None

(* A row is ticked, or unticked when it was.                                    *)
Selected(page, id) ==
    [page EXCEPT !.selectedItem = IF page.selectedItem = id THEN None ELSE id]

ModelFrom(page) ==
    IF \E model \in page.models : model.id = page.selectedItem
    THEN CHOOSE model \in page.models : model.id = page.selectedItem
    ELSE None
=============================================================================
