----------------------------- MODULE AppStorage -----------------------------
(* What BestFlight keeps: UserDefaults, which survives the app, and the         *)
(* settings that AppCoordinator works with.                                     *)
EXTENDS Selector

CONSTANTS
    Countries,     \* codes of market countries
    Currencies,    \* codes of currencies
    Languages,     \* localizations of the app
    Places,        \* countries one can fly from or to
    Dates

VARIABLES
    window,        \* the flow on the screen: "none" (not running), "firstStart", "main", "crashed"
    userSettings,  \* AppCoordinator.userSettings
    defaults       \* UserDefaults: the saved settings, the fields of the form and the language

appVars == <<window, userSettings, defaults>>

(* A country is named in the language its list was asked for.                   *)
CountryModels(language) == [id : Countries, name : {language}]
CountryModel   == [id : Countries, name : Languages]
CurrencyModels == [id : Currencies]
UserSettings   == [country : CountryModel, currency : CurrencyModels]

ASSUME NoneAssumption ==
    None \notin Countries \cup Currencies \cup Places \cup Dates
             \cup CountryModel \cup CurrencyModels \cup UserSettings

AppTypeOK ==
    /\ window \in {"none", "firstStart", "main", "crashed"}
    /\ userSettings \in OrNone(UserSettings)
    /\ defaults \in [userSettings : OrNone(UserSettings), from : OrNone(Places),
                     to : OrNone(Places), date : OrNone(Dates), language : Languages]

(* didFistStartFlowCompleted and didChangeUserSettings: kept and saved.         *)
SaveSettings(settings) ==
    /\ userSettings' = settings
    /\ defaults' = [defaults EXCEPT !.userSettings = settings]
=============================================================================
