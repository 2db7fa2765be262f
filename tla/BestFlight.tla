----------------------------- MODULE BestFlight -----------------------------
(* The app: AppCoordinator chooses the flow at launch, moves from the first     *)
(* start to the main flow, and keeps the settings.  The system may end the app  *)
(* at any moment; what is in UserDefaults is there at the next launch.          *)
EXTENDS FirstStart, MainFlow

vars == <<appVars, firstStartVars, mainVars>>

(* setupLaunchMode and startApplication.                                        *)
Launch ==
    /\ window = "none"
    /\ userSettings' = defaults.userSettings
    /\ IF defaults.userSettings = None
       THEN window' = "firstStart" /\ StartFirstStart /\ NoMain
       ELSE window' = "main" /\ NoFirstStart /\ StartMain(defaults.userSettings)
    /\ UNCHANGED defaults

Kill ==
    /\ window \in {"firstStart", "main"}
    /\ window' = "none" /\ userSettings' = None
    /\ NoFirstStart /\ NoMain
    /\ UNCHANGED defaults

(* Mutant: the settings are used, not saved.                                    *)
CompleteUnsaved ==
    LET settings == [country |-> selectedCountry, currency |-> selectedCurrency]
    IN  /\ window' = "main"
        /\ userSettings' = settings /\ UNCHANGED defaults
        /\ NoFirstStart /\ StartMain(settings)

(* didFistStartFlowCompleted.                                                   *)
Complete ==
    LET settings == [country |-> selectedCountry, currency |-> selectedCurrency]
    IN  /\ window' = "main"
        /\ SaveSettings(settings)
        /\ NoFirstStart /\ StartMain(settings)

Finish ==
    /\ Finishes
    /\ IF ContractComplete
       THEN Complete
       ELSE window' = "crashed" /\ UNCHANGED <<userSettings, defaults, firstStartVars, mainVars>>

Init ==
    /\ window = "none" /\ userSettings = None
    /\ \E language \in Languages :
           defaults = [userSettings |-> None, from |-> None, to |-> None, date |-> None,
                       language |-> language]
    /\ pages = 0 /\ selectedCountry = None /\ selectedCurrency = None
    /\ countryPage = NoPage /\ currencyPage = NoPage
    /\ tab = "search" /\ prefsPage = "list" /\ prefsSelector = NoPage
    /\ prefsSettings = None /\ listSettings = None /\ searchSettings = None
    /\ searchPage = "form" /\ context = None /\ placesAnswer = "failed" /\ results = NoResults
    /\ form = [from |-> None, to |-> None, date |-> None]

Next ==
    \/ Launch \/ Kill \/ Finish
    \/ FirstStartNext /\ UNCHANGED mainVars
    \/ MainNext /\ UNCHANGED firstStartVars

Spec == Init /\ [][Next]_vars

-------------------------------------------------------------------------------
(* Every variable keeps its type.                                               *)
TypeOK == AppTypeOK /\ FirstStartTypeOK /\ MainTypeOK

(* finishCoordinator never meets the fatalError of FirstStartCoordinator:87,    *)
(* however the user goes back and forth, ticks and unticks.                     *)
NeverFatal == window # "crashed"

(* The coordinator has chosen what the pages show as ticked, also on a page     *)
(* opened anew after going back: the user gets what the screen says.            *)
ChosenIsShown ==
    /\ pages >= 3 => IdOf(selectedCountry) = countryPage.selectedItem
    /\ pages >= 4 => IdOf(selectedCurrency) = currencyPage.selectedItem

(* Six copies of the settings, updated by hand along the chain of outputs, say  *)
(* the same: on disk, in the app, in the two flows and on the list.             *)
SettingsAgree ==
    window = "main" =>
        {userSettings, prefsSettings, listSettings, searchSettings} = {defaults.userSettings}

(* A change of one preference leaves the other as it was.                       *)
OneChangeAtATime ==
    [][window = "main" /\ window' = "main" =>
           \A page \in {"country", "currency"} :
               defaults'.userSettings[page] # defaults.userSettings[page] => prefsPage = page]_vars

(* The results on the screen are those of the form and the settings as they     *)
(* are now, although the page has taken copies of both.                         *)
ResultsAreCurrent ==
    window = "main" /\ searchPage = "results" =>
        results.contract = form /\ results.settings = defaults.userSettings

(* What the form shows is there after a restart, except that a date that was    *)
(* cleared comes back (didDatePicked saves no nil).                             *)
FormIsSaved ==
    window = "main" =>
        /\ form.from = defaults.from /\ form.to = defaults.to
        /\ form.date \in {defaults.date, None}

(* What the five above rest on.  A page that has its list has every entry of    *)
(* it, the country stays ticked under the currency page, the selector above the *)
(* preferences offers models of its own kind, and a place is never picked for   *)
(* no field (the case FlightSearchFormPresenter:145 comments "WTF???").         *)
Listed(page, ids) ==
    page.answer \in {"arrived", "shown"} =>
        \A id \in ids : \E model \in page.models : model.id = id

PagesInv ==
    /\ pages > 0 <=> window \in {"firstStart", "crashed"}
    /\ pages < 3 => countryPage = NoPage
    /\ Listed(countryPage, Countries) /\ Listed(currencyPage, Currencies)
    /\ pages = 4 => ContinueEnabled(countryPage)

MainInv ==
    /\ window = "main" => defaults.userSettings \in UserSettings
    /\ prefsPage = "country" => prefsSelector.models \subseteq CountryModel
    /\ prefsPage = "currency" => prefsSelector.models \subseteq CurrencyModels
    /\ searchPage = "places" => context \in Fields

IInv == /\ TypeOK /\ NeverFatal /\ ChosenIsShown /\ SettingsAgree
        /\ PagesInv /\ MainInv

(* Who has been through the first start is never asked again.                   *)
NeverAskedAgain == [](window = "main" => [](window # "firstStart"))
=============================================================================
