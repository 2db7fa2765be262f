CONSTANTS
    None = None
    russia = russia
    japan = japan
    ruble = ruble
    yen = yen
    russian = russian
    english = english
    moscow = moscow
    tokyo = tokyo
    monday = monday
    friday = friday
    Countries <- TwoCountries
    Currencies <- TwoCurrencies
    Languages <- TwoLanguages
    Places <- TwoPlaces
    Dates <- TwoDates
SPECIFICATION Spec
INVARIANTS
    NeverFatal
    ChosenIsShown
    SettingsAgree
    ResultsAreCurrent
    FormIsSaved
    IInv
PROPERTIES
    OneChangeAtATime
    NeverAskedAgain
