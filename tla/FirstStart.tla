------------------------------ MODULE FirstStart ------------------------------
(* FirstStartCoordinator and its pages: language, initial, country, currency,   *)
(* on one navigation stack.  Pages below the top keep their state; a page that  *)
(* is popped is gone, and the answer it waited for finds no presenter.          *)
EXTENDS AppStorage, Naturals, Sequences

VARIABLES
    pages,             \* how many pages are on the stack, language first
    selectedCountry,   \* FirstStartCoordinator's own
    selectedCurrency,
    countryPage,
    currencyPage

firstStartVars == <<pages, selectedCountry, selectedCurrency, countryPage, currencyPage>>

Page == <<"language", "initial", "country", "currency">>
On(page) == window = "firstStart" /\ Page[pages] = page

(* startCoordinator, on a new coordinator.                                      *)
StartFirstStart ==
    /\ pages' = 1
    /\ selectedCountry' = None /\ selectedCurrency' = None
    /\ countryPage' = NoPage /\ currencyPage' = NoPage

NoFirstStart ==
    /\ pages' = 0
    /\ selectedCountry' = None /\ selectedCurrency' = None
    /\ countryPage' = NoPage /\ currencyPage' = NoPage

FirstStartTypeOK ==
    /\ pages \in 0..4
    /\ selectedCountry \in OrNone(CountryModel) /\ selectedCurrency \in OrNone(CurrencyModels)
    /\ countryPage \in SelectorPages(CountryModel, Countries)
    /\ currencyPage \in SelectorPages(CurrencyModels, Currencies)

PressLanguage(language) ==
    /\ On("language")
    /\ defaults' = [defaults EXCEPT !.language = language]
    /\ UNCHANGED <<window, userSettings, firstStartVars>>

(* Continue on the pages before the last.                                       *)
ContinueLanguage ==
    /\ On("language")
    /\ pages' = 2
    /\ UNCHANGED <<appVars, selectedCountry, selectedCurrency, countryPage, currencyPage>>

ContinueInitial ==
    /\ On("initial")
    /\ pages' = 3
    /\ countryPage' = Opened(selectedCountry)
    /\ UNCHANGED <<appVars, selectedCountry, selectedCurrency, currencyPage>>

(* Mutant: continues with nothing ticked.                                       *)
ContinueCountryUnticked ==
    /\ On("country")
    /\ pages' = 4
    /\ currencyPage' = Opened(selectedCurrency)
    /\ UNCHANGED <<appVars, selectedCountry, selectedCurrency, countryPage>>

(* didCountrySelectorFinish is given the model and does not use it.             *)
ContinueCountry ==
    /\ On("country") /\ ContinueEnabled(countryPage) /\ ModelFrom(countryPage) # None
    /\ pages' = 4
    /\ currencyPage' = Opened(selectedCurrency)
    /\ UNCHANGED <<appVars, selectedCountry, selectedCurrency, countryPage>>

CountriesAnswer ==
    /\ window = "firstStart"
    /\ countryPage' \in AnswersOf(countryPage, CountryModels(defaults.language))
    /\ UNCHANGED <<appVars, pages, selectedCountry, selectedCurrency, currencyPage>>

CurrenciesAnswer ==
    /\ window = "firstStart"
    /\ currencyPage' \in AnswersOf(currencyPage, CurrencyModels)
    /\ UNCHANGED <<appVars, pages, selectedCountry, selectedCurrency, countryPage>>

(* Mutant: reported before the tick is set.                                     *)
SelectCountryReportedFirst(id) ==
    /\ On("country") /\ countryPage.answer = "shown"
    /\ selectedCountry' = ModelFrom(countryPage)
    /\ countryPage' = Selected(countryPage, id)
    /\ UNCHANGED <<appVars, pages, selectedCurrency, currencyPage>>

(* A tick or its removal is reported to the coordinator at once.                *)
SelectCountry(id) ==
    /\ On("country") /\ countryPage.answer = "shown"
    /\ countryPage' = Selected(countryPage, id)
    /\ selectedCountry' = ModelFrom(countryPage')
    /\ UNCHANGED <<appVars, pages, selectedCurrency, currencyPage>>

(* Mutant: only a choice is reported, its removal is not.                       *)
SelectCurrencyOnly(id) ==
    /\ On("currency") /\ currencyPage.answer = "shown"
    /\ currencyPage' = Selected(currencyPage, id)
    /\ selectedCurrency' = IF ModelFrom(currencyPage') = None THEN selectedCurrency
                           ELSE ModelFrom(currencyPage')
    /\ UNCHANGED <<appVars, pages, selectedCountry, countryPage>>

SelectCurrency(id) ==
    /\ On("currency") /\ currencyPage.answer = "shown"
    /\ currencyPage' = Selected(currencyPage, id)
    /\ selectedCurrency' = ModelFrom(currencyPage')
    /\ UNCHANGED <<appVars, pages, selectedCountry, countryPage>>

(* The navigation bar and the swipe: the top page is popped and deallocated.    *)
Back ==
    /\ window = "firstStart" /\ pages > 1
    /\ pages' = pages - 1
    /\ countryPage'  = IF pages = 3 THEN NoPage ELSE countryPage
    /\ currencyPage' = IF pages = 4 THEN NoPage ELSE currencyPage
    /\ UNCHANGED <<appVars, selectedCountry, selectedCurrency>>

(* Continue on the last page: finishCoordinator, which trusts that both are     *)
(* there ("FirstStartCoordinator complete incorrectly").                        *)
Finishes == On("currency") /\ ContinueEnabled(currencyPage) /\ ModelFrom(currencyPage) # None
ContractComplete == selectedCountry # None /\ selectedCurrency # None

FirstStartNext ==
    \/ \E language \in Languages : PressLanguage(language)
    \/ ContinueLanguage \/ ContinueInitial \/ ContinueCountry \/ Back
    \/ CountriesAnswer \/ CurrenciesAnswer
    \/ \E id \in Countries : SelectCountry(id)
    \/ \E id \in Currencies : SelectCurrency(id)
=============================================================================
