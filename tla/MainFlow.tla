------------------------------ MODULE MainFlow ------------------------------
(* MainCoordinator: a tab bar over two flows.  Preferences shows the settings   *)
(* and changes one at a time on a selector page; FlightsSearch has a form, a    *)
(* modal page to pick a place, and a page of results.  Each coordinator and the *)
(* list of preferences hold a copy of the user's settings.                      *)
EXTENDS AppStorage

VARIABLES
    tab,             \* "search" or "preferences"
    prefsPage,       \* on top of that flow: "list", "country" or "currency"
    prefsSelector,   \* the selector page on top of the list
    prefsSettings,   \* PreferencesCoordinator.userSettings
    listSettings,    \* MainPreferencesPresenter.userSettings
    searchPage,      \* on top of that flow: "form", "places" or "results"
    searchSettings,  \* FlightsSearchCoodinator.userSettings
    form,            \* FlightSearchFormPresenter: from, to, date
    context,         \* its placeSelectorContext
    placesAnswer,    \* PlaceSelectorPresenter: how far its list is
    results          \* FlightSearchResultsPresenter: contract, settings, answer

prefsVars  == <<prefsPage, prefsSelector, prefsSettings, listSettings>>
searchVars == <<searchPage, searchSettings, form, context, placesAnswer, results>>
mainVars   == <<tab, prefsVars, searchVars>>

Fields == {"from", "to"}
Forms == [from : OrNone(Places), to : OrNone(Places), date : OrNone(Dates)]
NoResults == [contract |-> None, settings |-> None, answer |-> "failed"]

(* startCoordinator(with:); the form loads what was saved, in viewIsReady.      *)
StartMain(settings) ==
    /\ tab' = "search"
    /\ prefsPage' = "list" /\ prefsSelector' = NoPage
    /\ prefsSettings' = settings /\ listSettings' = settings /\ searchSettings' = settings
    /\ searchPage' = "form" /\ context' = None
    /\ form' = [from |-> defaults.from, to |-> defaults.to, date |-> defaults.date]
    /\ placesAnswer' = "failed" /\ results' = NoResults

NoMain ==
    /\ tab' = "search"
    /\ prefsPage' = "list" /\ prefsSelector' = NoPage
    /\ prefsSettings' = None /\ listSettings' = None /\ searchSettings' = None
    /\ searchPage' = "form" /\ context' = None
    /\ form' = [from |-> None, to |-> None, date |-> None]
    /\ placesAnswer' = "failed" /\ results' = NoResults

MainTypeOK ==
    /\ tab \in {"search", "preferences"} /\ prefsPage \in {"list", "country", "currency"}
    /\ prefsSelector \in SelectorPages(CountryModel \cup CurrencyModels, Countries \cup Currencies)
    /\ prefsSettings \in OrNone(UserSettings) /\ listSettings \in OrNone(UserSettings)
    /\ searchPage \in {"form", "places", "results"} /\ searchSettings \in OrNone(UserSettings)
    /\ form \in Forms /\ context \in OrNone(Fields) /\ placesAnswer \in Answers
    /\ results \in [contract : OrNone(Forms), settings : OrNone(UserSettings), answer : Answers]

InPreferences(page) == window = "main" /\ tab = "preferences" /\ prefsPage = page
InSearch(page)      == window = "main" /\ tab = "search" /\ searchPage = page

(* hidesBottomBarWhenPushed: the tab bar is there on the roots only, and the    *)
(* modal page covers it.  Mutant: the results leave it in place.                *)
TabBarAlsoOnResults == prefsPage = "list" /\ searchPage \in {"form", "results"}
TabBarShown == prefsPage = "list" /\ searchPage = "form"

SwitchTab ==
    /\ window = "main" /\ TabBarShown
    /\ tab' = IF tab = "search" THEN "preferences" ELSE "search"
    /\ UNCHANGED <<appVars, prefsVars, searchVars>>

-------------------------------------------------------------------------------
(* Preferences.                                                                 *)
OpenPreference(page) ==
    /\ InPreferences("list")
    /\ prefsPage' = page
    /\ prefsSelector' = Opened(prefsSettings[page])
    /\ UNCHANGED <<appVars, tab, prefsSettings, listSettings, searchVars>>

Models(page) == IF page = "country" THEN CountryModels(defaults.language) ELSE CurrencyModels

PreferenceAnswer ==
    /\ window = "main" /\ prefsPage # "list"
    /\ prefsSelector' \in AnswersOf(prefsSelector, Models(prefsPage))
    /\ UNCHANGED <<appVars, tab, prefsPage, prefsSettings, listSettings, searchVars>>

(* "Non permanent selection is not interesting" to this coordinator.            *)
SelectPreference(id) ==
    /\ window = "main" /\ prefsPage # "list" /\ prefsSelector.answer = "shown"
    /\ prefsSelector' = Selected(prefsSelector, id)
    /\ UNCHANGED <<appVars, tab, prefsPage, prefsSettings, listSettings, searchVars>>

Pop == prefsPage' = "list" /\ prefsSelector' = NoPage

(* Mutant: the coordinator forwards the settings but keeps its old copy.        *)
ChangeSettingsForwarded(settings) ==
    /\ prefsSettings' = prefsSettings
    /\ SaveSettings(settings)
    /\ searchSettings' = settings /\ listSettings' = settings

(* Mutant: the search flow is not told.                                         *)
ChangeSettingsUntold(settings) ==
    /\ prefsSettings' = settings
    /\ SaveSettings(settings)
    /\ searchSettings' = searchSettings /\ listSettings' = settings

ChangeSettings(settings) ==
    /\ prefsSettings' = settings
    /\ SaveSettings(settings)                 \* MainCoordinator, AppCoordinator
    /\ searchSettings' = settings             \* MainCoordinator, FlightsSearchCoodinator
    /\ listSettings' = settings               \* userSettingsUpdated

ContinuePreference ==
    /\ window = "main" /\ prefsPage # "list"
    /\ ContinueEnabled(prefsSelector) /\ ModelFrom(prefsSelector) # None
    /\ ChangeSettings([prefsSettings EXCEPT ![prefsPage] = ModelFrom(prefsSelector)])
    /\ Pop
    /\ UNCHANGED <<window, tab, searchPage, form, context, placesAnswer, results>>

LeavePreference ==
    /\ window = "main" /\ prefsPage # "list"
    /\ Pop
    /\ UNCHANGED <<appVars, tab, prefsSettings, listSettings, searchVars>>

-------------------------------------------------------------------------------
(* FlightsSearch.                                                               *)
PressField(field) ==
    /\ InSearch("form")
    /\ context' = field
    /\ searchPage' = "places" /\ placesAnswer' = "loading"
    /\ UNCHANGED <<appVars, tab, prefsVars, searchSettings, form, results>>

(* Nothing of this page can be pressed between the two parts of the answer.     *)
PlacesAnswer ==
    /\ InSearch("places") /\ placesAnswer = "loading"
    /\ placesAnswer' \in {"shown", "failed"}
    /\ UNCHANGED <<appVars, tab, prefsVars, searchPage, searchSettings, form, context, results>>

(* Mutant: whichever field it is for, the place is saved as the origin.         *)
PickPlaceSavedAsFrom(place) ==
    /\ InSearch("places") /\ placesAnswer = "shown"
    /\ form' = [form EXCEPT ![context] = place]
    /\ defaults' = [defaults EXCEPT !.from = place]
    /\ searchPage' = "form" /\ placesAnswer' = "failed"
    /\ UNCHANGED <<window, userSettings, tab, prefsVars, searchSettings, context, results>>

(* didPlaceSelectorSelectedPlace, for the field that was pressed.               *)
PickPlace(place) ==
    /\ InSearch("places") /\ placesAnswer = "shown"
    /\ form' = [form EXCEPT ![context] = place]
    /\ defaults' = [defaults EXCEPT ![context] = place]
    /\ searchPage' = "form" /\ placesAnswer' = "failed"
    /\ UNCHANGED <<window, userSettings, tab, prefsVars, searchSettings, context, results>>

(* The close button, or OK on the error.                                        *)
ClosePlaces ==
    /\ InSearch("places")
    /\ searchPage' = "form" /\ placesAnswer' = "failed"
    /\ UNCHANGED <<appVars, tab, prefsVars, searchSettings, form, context, results>>

(* The date dialog: Cancel answers nil, which clears the date but is not saved. *)
PickDate(date) ==
    /\ InSearch("form")
    /\ form' = [form EXCEPT !.date = date]
    /\ defaults' = IF date = None THEN defaults ELSE [defaults EXCEPT !.date = date]
    /\ UNCHANGED <<window, userSettings, tab, prefsVars, searchPage, searchSettings,
                   context, placesAnswer, results>>

PressSearch ==
    /\ InSearch("form") /\ form.from # None /\ form.to # None
    /\ searchPage' = "results"
    /\ results' = [contract |-> form, settings |-> searchSettings, answer |-> "loading"]
    /\ UNCHANGED <<appVars, tab, prefsVars, searchSettings, form, context, placesAnswer>>

QuotesAnswer ==
    /\ InSearch("results") /\ results.answer = "loading"
    /\ \E answer \in {"shown", "failed"} : results' = [results EXCEPT !.answer = answer]
    /\ UNCHANGED <<appVars, tab, prefsVars, searchPage, searchSettings, form, context, placesAnswer>>

(* Back, or OK on the error.                                                    *)
LeaveResults ==
    /\ InSearch("results")
    /\ searchPage' = "form" /\ results' = NoResults
    /\ UNCHANGED <<appVars, tab, prefsVars, searchSettings, form, context, placesAnswer>>

MainNext ==
    \/ SwitchTab
    \/ \E page \in {"country", "currency"} : OpenPreference(page)
    \/ PreferenceAnswer \/ ContinuePreference \/ LeavePreference
    \/ \E id \in Countries : prefsPage = "country" /\ SelectPreference(id)
    \/ \E id \in Currencies : prefsPage = "currency" /\ SelectPreference(id)
    \/ \E field \in Fields : PressField(field)
    \/ PlacesAnswer \/ ClosePlaces \/ PressSearch \/ QuotesAnswer \/ LeaveResults
    \/ \E place \in Places : PickPlace(place)
    \/ \E date \in Dates \cup {None} : PickDate(date)
=============================================================================
