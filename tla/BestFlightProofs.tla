-------------------------- MODULE BestFlightProofs --------------------------
(* Proofs about BestFlight for any countries, currencies, languages and places. *)
EXTENDS BestFlight, TLAPS

-------------------------------------------------------------------------------
(* The operations of a selector page.                                           *)

(* A page opens with its type and the chosen model ticked.                      *)
LEMMA OpenedPage ==
    ASSUME NEW models, NEW ids, \A model \in models : model.id \in ids,
           NEW model \in OrNone(models)
    PROVE  /\ Opened(model) \in SelectorPages(models, ids)
           /\ Opened(model).selectedItem = IdOf(model)
           /\ Opened(model).answer = "loading" /\ Opened(model).models = {}
  BY DEF Opened, SelectorPages, OrNone, IdOf, Answers

(* An answer leaves the tick; a page that has its list has the whole list.      *)
LEMMA AnsweredPage ==
    ASSUME NEW models, NEW ids, NEW page \in SelectorPages(models, ids),
           NEW list \in SUBSET models, NEW next \in AnswersOf(page, list)
    PROVE  /\ next \in SelectorPages(models, ids)
           /\ next.selectedItem = page.selectedItem
           /\ \/ page.answer = "loading" /\ next.answer = "arrived" /\ next.models = list
              \/ page.answer = "loading" /\ next.answer = "failed" /\ next.models = page.models
              \/ page.answer = "arrived" /\ next.answer = "shown" /\ next.models = page.models
  BY DEF AnswersOf, Obtained, NotObtained, Shown, SelectorPages, OrNone, Answers

(* A press on a row changes the tick only.                                      *)
LEMMA SelectedPage ==
    ASSUME NEW models, NEW ids, NEW page \in SelectorPages(models, ids), NEW id \in ids
    PROVE  /\ Selected(page, id) \in SelectorPages(models, ids)
           /\ Selected(page, id).answer = page.answer
           /\ Selected(page, id).models = page.models
           /\ Selected(page, id).selectedItem \in {id, None}
  BY DEF Selected, SelectorPages, OrNone

(* The ticked model is one of the list's, or none.                              *)
LEMMA ModelOfTick ==
    ASSUME NEW page
    PROVE  /\ ModelFrom(page) \in OrNone(page.models)
           /\ ModelFrom(page) # None => ModelFrom(page).id = page.selectedItem
           /\ (\E model \in page.models : model.id = page.selectedItem) =>
                  ModelFrom(page) \in page.models
  <1>1. CASE \E model \in page.models : model.id = page.selectedItem
    <2> DEFINE chosen == CHOOSE model \in page.models : model.id = page.selectedItem
    <2>1. chosen \in page.models /\ chosen.id = page.selectedItem
      BY <1>1
    <2> QED BY <1>1, <2>1 DEF ModelFrom, OrNone
  <1>2. CASE ~ \E model \in page.models : model.id = page.selectedItem
    BY <1>2 DEF ModelFrom, OrNone
  <1> QED BY <1>1, <1>2

(* On a page that has its list, the model found is the ticked one.              *)
LEMMA FoundIsTicked ==
    ASSUME NEW models, NEW ids, None \notin ids, None \notin models,
           \A model \in models : model.id \in ids,
           NEW page \in SelectorPages(models, ids),
           page.answer = "shown", Listed(page, ids)
    PROVE  /\ ModelFrom(page) \in OrNone(models)
           /\ IdOf(ModelFrom(page)) = page.selectedItem
  <1>1. page.models \subseteq models /\ page.selectedItem \in OrNone(ids)
    BY DEF SelectorPages
  <1>2. CASE page.selectedItem = None
    <2>1. ~ \E model \in page.models : model.id = page.selectedItem
      BY <1>1, <1>2
    <2> QED BY <2>1, <1>2 DEF ModelFrom, IdOf, OrNone
  <1>3. CASE page.selectedItem \in ids
    <2>1. \E model \in page.models : model.id = page.selectedItem
      BY <1>3 DEF Listed
    <2>2. ModelFrom(page) \in page.models
      BY <2>1, ModelOfTick
    <2>3. ModelFrom(page) # None
      BY <1>1, <2>2
    <2> QED BY <1>1, <2>2, <2>3, ModelOfTick DEF IdOf, OrNone
  <1> QED BY <1>1, <1>2, <1>3 DEF OrNone

(* The models and their ids.                                                    *)
LEMMA ModelFacts ==
    /\ \A language \in Languages : CountryModels(language) \subseteq CountryModel
    /\ \A model \in CountryModel : model.id \in Countries
    /\ \A model \in CurrencyModels : model.id \in Currencies
    /\ \A language \in Languages : \A id \in Countries :
           \E model \in CountryModels(language) : model.id = id
    /\ \A id \in Currencies : \E model \in CurrencyModels : model.id = id
  <1>1. \A language \in Languages : CountryModels(language) \subseteq CountryModel
    BY DEF CountryModels, CountryModel
  <1>2. /\ \A model \in CountryModel : model.id \in Countries
        /\ \A model \in CurrencyModels : model.id \in Currencies
    BY DEF CountryModel, CurrencyModels
  <1>3. ASSUME NEW language \in Languages, NEW id \in Countries
        PROVE  \E model \in CountryModels(language) : model.id = id
    <2>1. [id |-> id, name |-> language] \in CountryModels(language)
      BY DEF CountryModels
    <2> QED BY <2>1
  <1>4. ASSUME NEW id \in Currencies
        PROVE  \E model \in CurrencyModels : model.id = id
    <2>1. [id |-> id] \in CurrencyModels
      BY DEF CurrencyModels
    <2> QED BY <2>1
  <1> QED BY <1>1, <1>2, <1>3, <1>4

-------------------------------------------------------------------------------
(* Steps of the first start.                                                    *)

(* The page on top tells how many there are.                                    *)
LEMMA TopPage ==
    ASSUME TypeOK, PagesInv
    PROVE  /\ On("language") => window = "firstStart" /\ pages = 1
           /\ On("initial") => window = "firstStart" /\ pages = 2
           /\ On("country") => window = "firstStart" /\ pages = 3
           /\ On("currency") => window = "firstStart" /\ pages = 4
  <1>1. window = "firstStart" => pages \in 1..4
    BY DEF TypeOK, FirstStartTypeOK, PagesInv
  <1>2. /\ Page[1] = "language" /\ Page[2] = "initial"
        /\ Page[3] = "country" /\ Page[4] = "currency"
    BY DEF Page
  <1>3. \A n \in 1..4 : n = 1 \/ n = 2 \/ n = 3 \/ n = 4
    OBVIOUS
  <1> QED BY <1>1, <1>2, <1>3 DEF On

(* While the first start is on the screen, what the main flow holds is still.   *)
LEMMA MainStill ==
    ASSUME IInv, UNCHANGED mainVars, window' = "firstStart",
           UNCHANGED <<userSettings>>, AppTypeOK'
    PROVE  AppTypeOK' /\ MainTypeOK' /\ NeverFatal' /\ SettingsAgree' /\ MainInv'
  <1>1. MainTypeOK'
    BY DEF IInv, TypeOK, MainTypeOK, mainVars, prefsVars, searchVars
  <1>2. NeverFatal' /\ SettingsAgree'
    BY DEF NeverFatal, SettingsAgree
  <1>3. MainInv'
    BY DEF IInv, MainInv, mainVars, prefsVars, searchVars
  <1> QED BY <1>1, <1>2, <1>3

LEMMA FirstStartStep ==
    ASSUME IInv, FirstStartNext, UNCHANGED mainVars, NoneAssumption
    PROVE  IInv'
  <1>0. TypeOK /\ PagesInv /\ ChosenIsShown
    BY DEF IInv
  <1>w. window = "firstStart" /\ window' = "firstStart" /\ UNCHANGED userSettings
    BY <1>0, TopPage DEF FirstStartNext, PressLanguage, ContinueLanguage, ContinueInitial,
       ContinueCountry, Back, CountriesAnswer, CurrenciesAnswer, SelectCountry,
       SelectCurrency, appVars, On
  <1>a. AppTypeOK'
    BY <1>0 DEF TypeOK, AppTypeOK, FirstStartNext, PressLanguage, ContinueLanguage,
       ContinueInitial, ContinueCountry, Back, CountriesAnswer, CurrenciesAnswer,
       SelectCountry, SelectCurrency, appVars
  <1>m. MainTypeOK' /\ NeverFatal' /\ SettingsAgree' /\ MainInv'
    BY <1>w, <1>a, MainStill
  <1> SUFFICES FirstStartTypeOK' /\ ChosenIsShown' /\ PagesInv'
    BY <1>a, <1>m DEF IInv, TypeOK
  <1>1. ASSUME NEW language \in Languages, PressLanguage(language)
        PROVE  FirstStartTypeOK' /\ ChosenIsShown' /\ PagesInv'
    BY <1>0, <1>1, <1>w DEF PressLanguage, firstStartVars, TypeOK, FirstStartTypeOK,
       ChosenIsShown, PagesInv, Listed
  <1>2. CASE ContinueLanguage
    BY <1>0, <1>2, <1>w, TopPage DEF ContinueLanguage, TypeOK, FirstStartTypeOK,
       ChosenIsShown, PagesInv, Listed
  <1>3. CASE ContinueInitial
    <2>1. /\ countryPage' \in SelectorPages(CountryModel, Countries)
          /\ countryPage'.selectedItem = IdOf(selectedCountry)
          /\ countryPage'.answer = "loading"
      BY <1>0, <1>3, OpenedPage, ModelFacts DEF ContinueInitial, TypeOK, FirstStartTypeOK
    <2> QED BY <1>0, <1>3, <1>w, <2>1, TopPage DEF ContinueInitial, TypeOK, FirstStartTypeOK,
         ChosenIsShown, PagesInv, Listed
  <1>4. CASE ContinueCountry
    <2>1. /\ currencyPage' \in SelectorPages(CurrencyModels, Currencies)
          /\ currencyPage'.selectedItem = IdOf(selectedCurrency)
          /\ currencyPage'.answer = "loading"
      BY <1>0, <1>4, OpenedPage, ModelFacts DEF ContinueCountry, TypeOK, FirstStartTypeOK
    <2> QED BY <1>0, <1>4, <1>w, <2>1, TopPage DEF ContinueCountry, TypeOK, FirstStartTypeOK,
         ChosenIsShown, PagesInv, Listed
  <1>5. CASE Back
    <2>1. /\ NoPage \in SelectorPages(CountryModel, Countries)
          /\ NoPage \in SelectorPages(CurrencyModels, Currencies)
          /\ NoPage.answer = "failed"
      BY DEF NoPage, SelectorPages, Answers, OrNone
    <2> QED BY <1>0, <1>5, <1>w, <2>1 DEF Back, TypeOK, FirstStartTypeOK, ChosenIsShown,
         PagesInv, Listed
  <1>6. CASE CountriesAnswer
    <2>1. defaults.language \in Languages
      BY <1>0 DEF TypeOK, AppTypeOK
    <2>2. CountryModels(defaults.language) \in SUBSET CountryModel
      BY <2>1, ModelFacts
    <2>3. /\ countryPage' \in SelectorPages(CountryModel, Countries)
          /\ countryPage'.selectedItem = countryPage.selectedItem
          /\ countryPage.answer \in {"loading", "arrived"}
          /\ countryPage'.answer = "arrived" =>
                 countryPage'.models = CountryModels(defaults.language)
          /\ countryPage'.answer = "shown" =>
                 countryPage.answer = "arrived" /\ countryPage'.models = countryPage.models
      BY <1>0, <1>6, <2>2, AnsweredPage DEF CountriesAnswer, TypeOK, FirstStartTypeOK
    <2>4. Listed(countryPage', Countries)
      BY <1>0, <2>1, <2>3, ModelFacts DEF PagesInv, Listed
    <2>5. pages >= 3
      BY <1>0, <2>3 DEF PagesInv, NoPage, TypeOK, FirstStartTypeOK
    <2> QED BY <1>0, <1>6, <1>w, <2>3, <2>4, <2>5 DEF CountriesAnswer, TypeOK, FirstStartTypeOK,
         ChosenIsShown, PagesInv, Listed, ContinueEnabled
  <1>7. CASE CurrenciesAnswer
    <2>1. /\ currencyPage' \in SelectorPages(CurrencyModels, Currencies)
          /\ currencyPage'.selectedItem = currencyPage.selectedItem
          /\ currencyPage'.answer = "arrived" => currencyPage'.models = CurrencyModels
          /\ currencyPage'.answer = "shown" =>
                 currencyPage.answer = "arrived" /\ currencyPage'.models = currencyPage.models
      BY <1>0, <1>7, AnsweredPage DEF CurrenciesAnswer, TypeOK, FirstStartTypeOK
    <2>2. Listed(currencyPage', Currencies)
      BY <1>0, <2>1, ModelFacts DEF PagesInv, Listed
    <2> QED BY <1>0, <1>7, <1>w, <2>1, <2>2 DEF CurrenciesAnswer, TypeOK, FirstStartTypeOK,
         ChosenIsShown, PagesInv, Listed
  <1>8. ASSUME NEW id \in Countries, SelectCountry(id)
        PROVE  FirstStartTypeOK' /\ ChosenIsShown' /\ PagesInv'
    <2> DEFINE next == Selected(countryPage, id)
    <2>1. /\ next \in SelectorPages(CountryModel, Countries)
          /\ next.answer = "shown" /\ countryPage.answer = "shown"
          /\ next.models = countryPage.models
      BY <1>0, <1>8, SelectedPage DEF SelectCountry, TypeOK, FirstStartTypeOK
    <2>2. Listed(next, Countries)
      BY <1>0, <2>1 DEF PagesInv, Listed
    <2>3. /\ ModelFrom(next) \in OrNone(CountryModel)
          /\ IdOf(ModelFrom(next)) = next.selectedItem
      <3>1. None \notin Countries /\ None \notin CountryModel
        BY DEF NoneAssumption
      <3> QED BY <2>1, <2>2, <3>1, FoundIsTicked, ModelFacts
    <2>4. countryPage' = next /\ selectedCountry' = ModelFrom(next)
      BY <1>8 DEF SelectCountry
    <2> HIDE DEF next
    <2> QED BY <1>0, <1>8, <1>w, <2>1, <2>2, <2>3, <2>4, TopPage DEF SelectCountry, TypeOK,
         FirstStartTypeOK, ChosenIsShown, PagesInv
  <1>9. ASSUME NEW id \in Currencies, SelectCurrency(id)
        PROVE  FirstStartTypeOK' /\ ChosenIsShown' /\ PagesInv'
    <2> DEFINE next == Selected(currencyPage, id)
    <2>1. /\ next \in SelectorPages(CurrencyModels, Currencies)
          /\ next.answer = "shown" /\ currencyPage.answer = "shown"
          /\ next.models = currencyPage.models
      BY <1>0, <1>9, SelectedPage DEF SelectCurrency, TypeOK, FirstStartTypeOK
    <2>2. Listed(next, Currencies)
      BY <1>0, <2>1 DEF PagesInv, Listed
    <2>3. /\ ModelFrom(next) \in OrNone(CurrencyModels)
          /\ IdOf(ModelFrom(next)) = next.selectedItem
      <3>1. None \notin Currencies /\ None \notin CurrencyModels
        BY DEF NoneAssumption
      <3> QED BY <2>1, <2>2, <3>1, FoundIsTicked, ModelFacts
    <2>4. currencyPage' = next /\ selectedCurrency' = ModelFrom(next)
      BY <1>9 DEF SelectCurrency
    <2> HIDE DEF next
    <2> QED BY <1>0, <1>9, <1>w, <2>1, <2>2, <2>3, <2>4, TopPage DEF SelectCurrency, TypeOK,
         FirstStartTypeOK, ChosenIsShown, PagesInv
  <1> QED BY <1>1, <1>2, <1>3, <1>4, <1>5, <1>6, <1>7, <1>8, <1>9 DEF FirstStartNext

-------------------------------------------------------------------------------
(* Steps of the main flow.                                                      *)

(* The settings a preference page makes are settings, with one field changed.   *)
LEMMA ChangedSettings ==
    ASSUME IInv, window = "main", prefsPage \in {"country", "currency"},
           ModelFrom(prefsSelector) # None
    PROVE  LET settings == [prefsSettings EXCEPT ![prefsPage] = ModelFrom(prefsSelector)]
           IN  /\ prefsSettings = defaults.userSettings /\ prefsSettings \in UserSettings
               /\ settings \in UserSettings
               /\ \A field \in {"country", "currency"} :
                      field # prefsPage => settings[field] = prefsSettings[field]
  <1>1. prefsSettings = defaults.userSettings /\ prefsSettings \in UserSettings
    BY DEF IInv, SettingsAgree, MainInv
  <1>2. ModelFrom(prefsSelector) \in prefsSelector.models
    BY ModelOfTick DEF OrNone
  <1>3. CASE prefsPage = "country"
    <2>1. ModelFrom(prefsSelector) \in CountryModel
      BY <1>2, <1>3 DEF IInv, MainInv
    <2> QED BY <1>1, <1>3, <2>1 DEF UserSettings
  <1>4. CASE prefsPage = "currency"
    <2>1. ModelFrom(prefsSelector) \in CurrencyModels
      BY <1>2, <1>4 DEF IInv, MainInv
    <2> QED BY <1>1, <1>4, <2>1 DEF UserSettings
  <1> QED BY <1>3, <1>4

LEMMA MainStep ==
    ASSUME IInv, MainNext, UNCHANGED firstStartVars, NoneAssumption
    PROVE  IInv'
  <1>0. /\ TypeOK /\ AppTypeOK /\ MainTypeOK /\ FirstStartTypeOK
        /\ PagesInv /\ MainInv /\ ChosenIsShown /\ SettingsAgree
    BY DEF IInv, TypeOK
  <1>w. window = "main" /\ window' = "main"
    BY DEF MainNext, SwitchTab, OpenPreference, PreferenceAnswer, ContinuePreference,
       LeavePreference, SelectPreference, PressField, PlacesAnswer, ClosePlaces, PressSearch,
       QuotesAnswer, LeaveResults, PickPlace, PickDate, appVars, InPreferences, InSearch
  <1>f. FirstStartTypeOK' /\ ChosenIsShown' /\ PagesInv' /\ NeverFatal'
    BY <1>0, <1>w DEF FirstStartTypeOK, ChosenIsShown, PagesInv, Listed, NeverFatal,
       firstStartVars
  <1> SUFFICES AppTypeOK' /\ MainTypeOK' /\ SettingsAgree' /\ MainInv'
    BY <1>f DEF IInv, TypeOK
  <1>p. NoPage \in SelectorPages(CountryModel \cup CurrencyModels, Countries \cup Currencies)
    BY DEF NoPage, SelectorPages, Answers, OrNone
  <1>1. CASE SwitchTab
    BY <1>0, <1>1, <1>w DEF SwitchTab, appVars, prefsVars, searchVars, AppTypeOK, MainTypeOK,
       SettingsAgree, MainInv
  <1>2. ASSUME NEW page \in {"country", "currency"}, OpenPreference(page)
        PROVE  AppTypeOK' /\ MainTypeOK' /\ SettingsAgree' /\ MainInv'
    <2>1. prefsSettings \in UserSettings
      BY <1>0, <1>w DEF SettingsAgree, MainInv
    <2>2. prefsSettings[page] \in OrNone(CountryModel \cup CurrencyModels)
      BY <2>1 DEF UserSettings, OrNone
    <2>3. \A model \in CountryModel \cup CurrencyModels : model.id \in Countries \cup Currencies
      BY ModelFacts
    <2>4. /\ prefsSelector' \in SelectorPages(CountryModel \cup CurrencyModels, Countries \cup Currencies)
          /\ prefsSelector'.models = {}
      BY <1>2, <2>2, <2>3, OpenedPage DEF OpenPreference
    <2> QED BY <1>0, <1>2, <1>w, <2>4 DEF OpenPreference, appVars, searchVars, AppTypeOK,
         MainTypeOK, SettingsAgree, MainInv
  <1>3. CASE PreferenceAnswer
    <2>1. defaults.language \in Languages
      BY <1>0 DEF AppTypeOK
    <2>2. /\ Models(prefsPage) \in SUBSET (CountryModel \cup CurrencyModels)
          /\ prefsPage = "country" => Models(prefsPage) \subseteq CountryModel
          /\ prefsPage = "currency" => Models(prefsPage) \subseteq CurrencyModels
      BY <2>1, ModelFacts DEF Models
    <2>3. /\ prefsSelector' \in SelectorPages(CountryModel \cup CurrencyModels, Countries \cup Currencies)
          /\ prefsSelector'.models \in {prefsSelector.models, Models(prefsPage)}
      BY <1>0, <1>3, <2>2, AnsweredPage DEF PreferenceAnswer, MainTypeOK
    <2> QED BY <1>0, <1>3, <1>w, <2>2, <2>3 DEF PreferenceAnswer, appVars, searchVars, AppTypeOK,
         MainTypeOK, SettingsAgree, MainInv
  <1>4. ASSUME NEW id \in Countries \cup Currencies, SelectPreference(id)
        PROVE  AppTypeOK' /\ MainTypeOK' /\ SettingsAgree' /\ MainInv'
    <2>1. /\ prefsSelector' \in SelectorPages(CountryModel \cup CurrencyModels, Countries \cup Currencies)
          /\ prefsSelector'.models = prefsSelector.models
      BY <1>0, <1>4, SelectedPage DEF SelectPreference, MainTypeOK
    <2> QED BY <1>0, <1>4, <1>w, <2>1 DEF SelectPreference, appVars, searchVars, AppTypeOK,
         MainTypeOK, SettingsAgree, MainInv
  <1>5. CASE ContinuePreference
    <2> DEFINE settings == [prefsSettings EXCEPT ![prefsPage] = ModelFrom(prefsSelector)]
    <2>1. settings \in UserSettings
      <3>1. prefsPage \in {"country", "currency"} /\ ModelFrom(prefsSelector) # None
        BY <1>0, <1>5 DEF ContinuePreference, MainTypeOK
      <3> QED BY <1>w, <3>1, ChangedSettings
    <2>2. /\ prefsSettings' = settings /\ listSettings' = settings /\ searchSettings' = settings
          /\ userSettings' = settings /\ defaults' = [defaults EXCEPT !.userSettings = settings]
          /\ prefsPage' = "list" /\ prefsSelector' = NoPage
          /\ UNCHANGED <<window, tab, searchPage, form, context, placesAnswer, results>>
      BY <1>5 DEF ContinuePreference, ChangeSettings, SaveSettings, Pop
    <2> HIDE DEF settings
    <2>3. AppTypeOK' /\ defaults'.userSettings = settings
      BY <1>0, <2>1, <2>2 DEF AppTypeOK, OrNone
    <2>4. MainTypeOK'
      BY <1>0, <1>p, <2>1, <2>2 DEF MainTypeOK, OrNone
    <2> QED BY <1>0, <2>1, <2>2, <2>3, <2>4 DEF SettingsAgree, MainInv
  <1>6. CASE LeavePreference
    BY <1>0, <1>6, <1>w, <1>p DEF LeavePreference, Pop, appVars, searchVars, AppTypeOK,
       MainTypeOK, SettingsAgree, MainInv
  <1>7. ASSUME NEW field \in Fields, PressField(field)
        PROVE  AppTypeOK' /\ MainTypeOK' /\ SettingsAgree' /\ MainInv'
    BY <1>0, <1>7, <1>w DEF PressField, appVars, prefsVars, AppTypeOK, MainTypeOK,
       SettingsAgree, MainInv, OrNone, Answers
  <1>8. CASE PlacesAnswer \/ ClosePlaces
    BY <1>0, <1>8, <1>w DEF PlacesAnswer, ClosePlaces, appVars, prefsVars, AppTypeOK,
       MainTypeOK, SettingsAgree, MainInv, Answers
  <1>9. CASE PressSearch
    <2>1. results' \in [contract : OrNone(Forms), settings : OrNone(UserSettings), answer : Answers]
      BY <1>0, <1>9 DEF PressSearch, MainTypeOK, OrNone, Answers
    <2> QED BY <1>0, <1>9, <1>w, <2>1 DEF PressSearch, appVars, prefsVars, AppTypeOK, MainTypeOK,
         SettingsAgree, MainInv
  <1>10. CASE QuotesAnswer
    <2>1. results' \in [contract : OrNone(Forms), settings : OrNone(UserSettings), answer : Answers]
      BY <1>0, <1>10 DEF QuotesAnswer, MainTypeOK, Answers
    <2> QED BY <1>0, <1>10, <1>w, <2>1 DEF QuotesAnswer, appVars, prefsVars, AppTypeOK, MainTypeOK,
         SettingsAgree, MainInv
  <1>11. CASE LeaveResults
    <2>1. results' \in [contract : OrNone(Forms), settings : OrNone(UserSettings), answer : Answers]
      BY <1>11 DEF LeaveResults, NoResults, OrNone, Answers
    <2> QED BY <1>0, <1>11, <1>w, <2>1 DEF LeaveResults, appVars, prefsVars, AppTypeOK, MainTypeOK,
         SettingsAgree, MainInv
  <1>12. ASSUME NEW place \in Places, PickPlace(place)
         PROVE  AppTypeOK' /\ MainTypeOK' /\ SettingsAgree' /\ MainInv'
    <2>0. context \in Fields
      BY <1>0, <1>12 DEF PickPlace, InSearch, MainInv
    <2>1. form' \in Forms
      BY <1>0, <1>12, <2>0 DEF PickPlace, MainTypeOK, Forms, Fields, OrNone
    <2>2. AppTypeOK' /\ defaults'.userSettings = defaults.userSettings
      BY <1>0, <1>12, <2>0 DEF PickPlace, AppTypeOK, MainTypeOK, OrNone, Fields
    <2> QED BY <1>0, <1>12, <1>w, <2>1, <2>2 DEF PickPlace, prefsVars, MainTypeOK,
         SettingsAgree, MainInv, Answers
  <1>13. ASSUME NEW date \in Dates \cup {None}, PickDate(date)
         PROVE  AppTypeOK' /\ MainTypeOK' /\ SettingsAgree' /\ MainInv'
    <2>1. form' \in Forms
      BY <1>0, <1>13 DEF PickDate, MainTypeOK, Forms, OrNone
    <2>2. AppTypeOK' /\ defaults'.userSettings = defaults.userSettings
      BY <1>0, <1>13 DEF PickDate, AppTypeOK, OrNone
    <2> QED BY <1>0, <1>13, <1>w, <2>1, <2>2 DEF PickDate, prefsVars, MainTypeOK,
         SettingsAgree, MainInv
  <1> QED BY <1>1, <1>2, <1>3, <1>4, <1>5, <1>6, <1>7, <1>8, <1>9, <1>10, <1>11, <1>12, <1>13
       DEF MainNext

-------------------------------------------------------------------------------
(* Launch, the end of the app, and the end of the first start.                  *)

(* What both flows are when they are not on the screen.                         *)
LEMMA NothingShown ==
    /\ NoFirstStart => FirstStartTypeOK' /\ ChosenIsShown' /\ Listed(countryPage', Countries)
                       /\ Listed(currencyPage', Currencies) /\ pages' = 0 /\ countryPage' = NoPage
    /\ NoMain => MainTypeOK' /\ prefsPage' = "list" /\ searchPage' = "form"
  <1>1. /\ NoPage \in SelectorPages(CountryModel, Countries)
        /\ NoPage \in SelectorPages(CurrencyModels, Currencies)
        /\ NoPage \in SelectorPages(CountryModel \cup CurrencyModels, Countries \cup Currencies)
        /\ NoPage.answer = "failed"
    BY DEF NoPage, SelectorPages, Answers, OrNone
  <1>2. ASSUME NoFirstStart
        PROVE  /\ FirstStartTypeOK' /\ ChosenIsShown' /\ Listed(countryPage', Countries)
               /\ Listed(currencyPage', Currencies) /\ pages' = 0 /\ countryPage' = NoPage
    BY <1>1, <1>2 DEF NoFirstStart, FirstStartTypeOK, ChosenIsShown, Listed, OrNone
  <1>3. ASSUME NoMain
        PROVE  MainTypeOK' /\ prefsPage' = "list" /\ searchPage' = "form"
    BY <1>1, <1>3 DEF NoMain, MainTypeOK, NoResults, Forms, OrNone, Answers
  <1> QED BY <1>2, <1>3

(* The main flow starts with one copy of the settings everywhere.               *)
LEMMA MainStarts ==
    ASSUME AppTypeOK, NEW settings \in UserSettings, StartMain(settings)
    PROVE  /\ MainTypeOK' /\ prefsPage' = "list" /\ searchPage' = "form"
           /\ {prefsSettings', listSettings', searchSettings'} = {settings}
  <1>1. NoPage \in SelectorPages(CountryModel \cup CurrencyModels, Countries \cup Currencies)
    BY DEF NoPage, SelectorPages, Answers, OrNone
  <1>2. form' \in Forms
    BY DEF StartMain, AppTypeOK, Forms
  <1>3. results' \in [contract : OrNone(Forms), settings : OrNone(UserSettings), answer : Answers]
    BY DEF StartMain, NoResults, OrNone, Answers
  <1> QED BY <1>1, <1>2, <1>3 DEF StartMain, MainTypeOK, OrNone, Answers

LEMMA LaunchStep ==
    ASSUME IInv, Launch \/ Kill
    PROVE  IInv'
  <1>0. AppTypeOK
    BY DEF IInv, TypeOK
  <1>1. CASE Launch /\ defaults.userSettings = None
    <2>1. NoMain /\ StartFirstStart /\ window' = "firstStart" /\ UNCHANGED defaults
          /\ userSettings' = None
      BY <1>1 DEF Launch
    <2>2. /\ NoPage \in SelectorPages(CountryModel, Countries)
          /\ NoPage \in SelectorPages(CurrencyModels, Currencies)
          /\ NoPage.answer = "failed"
      BY DEF NoPage, SelectorPages, Answers, OrNone
    <2>3. FirstStartTypeOK' /\ ChosenIsShown' /\ PagesInv'
      BY <2>1, <2>2 DEF StartFirstStart, FirstStartTypeOK, ChosenIsShown, PagesInv, Listed, OrNone
    <2>4. AppTypeOK'
      BY <1>0, <2>1 DEF AppTypeOK, OrNone
    <2> QED BY <2>1, <2>3, <2>4, NothingShown DEF IInv, TypeOK, NeverFatal, SettingsAgree, MainInv
  <1>2. CASE Launch /\ defaults.userSettings # None
    <2>1. /\ NoFirstStart /\ StartMain(defaults.userSettings) /\ window' = "main"
          /\ UNCHANGED defaults /\ userSettings' = defaults.userSettings
      BY <1>2 DEF Launch
    <2>2. defaults.userSettings \in UserSettings
      BY <1>0, <1>2 DEF AppTypeOK, OrNone
    <2>3. /\ MainTypeOK' /\ prefsPage' = "list" /\ searchPage' = "form"
          /\ {prefsSettings', listSettings', searchSettings'} = {defaults.userSettings}
      BY <1>0, <2>1, <2>2, MainStarts
    <2>4. AppTypeOK' /\ SettingsAgree' /\ MainInv' /\ NeverFatal'
      BY <1>0, <2>1, <2>2, <2>3 DEF AppTypeOK, SettingsAgree, MainInv, NeverFatal, OrNone
    <2>5. FirstStartTypeOK' /\ ChosenIsShown' /\ PagesInv'
      BY <2>1, NothingShown DEF PagesInv
    <2> QED BY <2>3, <2>4, <2>5 DEF IInv, TypeOK
  <1>3. CASE Kill
    <2>1. NoFirstStart /\ NoMain /\ window' = "none" /\ UNCHANGED defaults /\ userSettings' = None
      BY <1>3 DEF Kill
    <2>2. AppTypeOK' /\ SettingsAgree' /\ MainInv' /\ NeverFatal'
      BY <1>0, <2>1, NothingShown DEF AppTypeOK, SettingsAgree, MainInv, NeverFatal, OrNone
    <2>3. FirstStartTypeOK' /\ ChosenIsShown' /\ PagesInv'
      BY <2>1, NothingShown DEF PagesInv
    <2> QED BY <2>1, <2>2, <2>3, NothingShown DEF IInv, TypeOK
  <1> QED BY <1>1, <1>2, <1>3 DEF Launch, Kill

(* When the last page is continued, both choices are there: the currency is the *)
(* ticked one, and the country has stayed ticked on the page below.             *)
LEMMA ContractThere ==
    ASSUME IInv, Finishes
    PROVE  /\ selectedCountry \in CountryModel
           /\ selectedCurrency \in CurrencyModels
  <1>1. window = "firstStart" /\ pages = 4 /\ currencyPage.selectedItem # None
    BY TopPage DEF IInv, Finishes, ContinueEnabled
  <1>2. countryPage.selectedItem # None
    BY <1>1 DEF IInv, PagesInv, ContinueEnabled
  <1>3. IdOf(selectedCountry) # None /\ IdOf(selectedCurrency) # None
    BY <1>1, <1>2 DEF IInv, ChosenIsShown
  <1>4. selectedCountry # None /\ selectedCurrency # None
    BY <1>3 DEF IdOf
  <1> QED BY <1>4 DEF IInv, TypeOK, FirstStartTypeOK, OrNone

LEMMA FinishStep ==
    ASSUME IInv, Finish, NoneAssumption
    PROVE  IInv'
  <1>0. AppTypeOK
    BY DEF IInv, TypeOK
  <1> DEFINE settings == [country |-> selectedCountry, currency |-> selectedCurrency]
  <1>1. selectedCountry \in CountryModel /\ selectedCurrency \in CurrencyModels
    BY ContractThere DEF Finish
  <1>2. ContractComplete
    BY <1>1 DEF ContractComplete, NoneAssumption
  <1>3. settings \in UserSettings
    BY <1>1 DEF UserSettings
  <1>4. /\ NoFirstStart /\ StartMain(settings) /\ window' = "main"
        /\ userSettings' = settings /\ defaults' = [defaults EXCEPT !.userSettings = settings]
    BY <1>2 DEF Finish, Complete, SaveSettings
  <1> HIDE DEF settings
  <1>5. /\ MainTypeOK' /\ prefsPage' = "list" /\ searchPage' = "form"
        /\ {prefsSettings', listSettings', searchSettings'} = {settings}
    BY <1>0, <1>3, <1>4, MainStarts
  <1>6. AppTypeOK' /\ defaults'.userSettings = settings
    BY <1>0, <1>3, <1>4 DEF AppTypeOK, OrNone
  <1>7. SettingsAgree' /\ MainInv' /\ NeverFatal'
    BY <1>3, <1>4, <1>5, <1>6 DEF SettingsAgree, MainInv, NeverFatal
  <1>8. FirstStartTypeOK' /\ ChosenIsShown' /\ PagesInv'
    BY <1>4, NothingShown DEF PagesInv
  <1> QED BY <1>5, <1>6, <1>7, <1>8 DEF IInv, TypeOK
-------------------------------------------------------------------------------
(* The inductive invariant.                                                     *)
LEMMA InitIInv ==
    ASSUME Init
    PROVE  IInv
  <1>1. /\ NoPage \in SelectorPages(CountryModel, Countries)
        /\ NoPage \in SelectorPages(CurrencyModels, Currencies)
        /\ NoPage \in SelectorPages(CountryModel \cup CurrencyModels, Countries \cup Currencies)
        /\ NoPage.answer = "failed"
    BY DEF NoPage, SelectorPages, Answers, OrNone
  <1>2. AppTypeOK
    BY DEF Init, AppTypeOK, OrNone
  <1>3. FirstStartTypeOK /\ ChosenIsShown /\ PagesInv
    BY <1>1 DEF Init, FirstStartTypeOK, ChosenIsShown, PagesInv, Listed, OrNone
  <1>4. MainTypeOK /\ SettingsAgree /\ MainInv /\ NeverFatal
    BY <1>1 DEF Init, MainTypeOK, SettingsAgree, MainInv, NeverFatal, NoResults, Forms, OrNone,
       Answers
  <1> QED BY <1>2, <1>3, <1>4 DEF IInv, TypeOK

LEMMA NextIInv ==
    ASSUME IInv, [Next]_vars
    PROVE  IInv'
  <1>1. CASE Launch \/ Kill
    BY <1>1, LaunchStep
  <1>2. CASE Finish
    BY <1>2, FinishStep, NoneAssumption
  <1>3. CASE FirstStartNext /\ UNCHANGED mainVars
    BY <1>3, FirstStartStep, NoneAssumption
  <1>4. CASE MainNext /\ UNCHANGED firstStartVars
    BY <1>4, MainStep, NoneAssumption
  <1>5. CASE UNCHANGED vars
    BY <1>5 DEF vars, appVars, firstStartVars, mainVars, prefsVars, searchVars, IInv, TypeOK,
       AppTypeOK, FirstStartTypeOK, MainTypeOK, NeverFatal, ChosenIsShown, SettingsAgree,
       PagesInv, Listed, ContinueEnabled, MainInv
  <1> QED BY <1>1, <1>2, <1>3, <1>4, <1>5 DEF Next

(* Every state the app reaches satisfies the inductive invariant, whatever the  *)
(* countries, currencies, languages, places and dates.                          *)
THEOREM Inductive == Spec => []IInv
  BY InitIInv, NextIInv, PTL DEF Spec

(* Every variable keeps its type.                                               *)
THEOREM TypeCorrect == Spec => []TypeOK
  <1>1. IInv => TypeOK
    BY DEF IInv
  <1> QED BY <1>1, Inductive, PTL

(* The fatalError of finishCoordinator is never met.                            *)
THEOREM NoFatal == Spec => []NeverFatal
  <1>1. IInv => NeverFatal
    BY DEF IInv
  <1> QED BY <1>1, Inductive, PTL

(* The coordinator of the first start has chosen what its pages show as ticked. *)
THEOREM Chosen == Spec => []ChosenIsShown
  <1>1. IInv => ChosenIsShown
    BY DEF IInv
  <1> QED BY <1>1, Inductive, PTL

(* The copies of the settings along the chain of coordinators agree.            *)
THEOREM Agree == Spec => []SettingsAgree
  <1>1. IInv => SettingsAgree
    BY DEF IInv
  <1> QED BY <1>1, Inductive, PTL

-------------------------------------------------------------------------------
(* Only ContinuePreference changes the settings, and only at the page it is on. *)
LEMMA OneChangeStep ==
    ASSUME IInv, [Next]_vars, window = "main", window' = "main",
           NEW page \in {"country", "currency"},
           defaults'.userSettings[page] # defaults.userSettings[page]
    PROVE  prefsPage = page
  <1>0. /\ prefsSettings = defaults.userSettings /\ defaults.userSettings \in UserSettings
        /\ AppTypeOK /\ MainTypeOK
    BY DEF IInv, TypeOK, SettingsAgree, MainInv
  <1>1. ~(Launch \/ Kill \/ Finish \/ FirstStartNext)
    BY DEF Launch, Kill, Finish, Finishes, FirstStartNext, PressLanguage, ContinueLanguage,
       ContinueInitial, ContinueCountry, Back, CountriesAnswer, CurrenciesAnswer, SelectCountry,
       SelectCurrency, On
  <1>2. CASE ContinuePreference
    <2>1. defaults' = [defaults EXCEPT !.userSettings =
                           [prefsSettings EXCEPT ![prefsPage] = ModelFrom(prefsSelector)]]
      BY <1>2 DEF ContinuePreference, ChangeSettings, SaveSettings
    <2> QED BY <1>0, <2>1 DEF AppTypeOK, UserSettings
  <1>3. ASSUME NEW place \in Places, PickPlace(place)
        PROVE  FALSE
    <2>1. context \in Fields
      BY <1>3 DEF PickPlace, InSearch, IInv, MainInv
    <2> QED BY <1>0, <1>3, <2>1 DEF PickPlace, AppTypeOK, Fields
  <1>4. ASSUME NEW date \in Dates \cup {None}, PickDate(date)
        PROVE  FALSE
    BY <1>0, <1>4 DEF PickDate, AppTypeOK
  <1>5. CASE UNCHANGED defaults
    BY <1>5
  <1>6. MainNext => \/ UNCHANGED defaults \/ ContinuePreference
                    \/ \E place \in Places : PickPlace(place)
                    \/ \E date \in Dates \cup {None} : PickDate(date)
    BY DEF MainNext, SwitchTab, OpenPreference, PreferenceAnswer, LeavePreference,
       SelectPreference, PressField, PlacesAnswer, ClosePlaces, PressSearch, QuotesAnswer,
       LeaveResults, appVars
  <1> QED BY <1>1, <1>2, <1>3, <1>4, <1>5, <1>6 DEF Next, vars, appVars

(* A change of one preference leaves the other as it was.                       *)
THEOREM OneChange == Spec => OneChangeAtATime
  <1>1. IInv /\ [Next]_vars =>
            [window = "main" /\ window' = "main" =>
                 \A page \in {"country", "currency"} :
                     defaults'.userSettings[page] # defaults.userSettings[page]
                         => prefsPage = page]_vars
    BY OneChangeStep
  <1> QED BY <1>1, Inductive, PTL DEF Spec, OneChangeAtATime

-------------------------------------------------------------------------------
(* The search.                                                                  *)

(* One flow at a time is off its root: a page of the other flow cannot change   *)
(* what it was opened with.                                                     *)
OneStack ==
    window = "main" =>
        /\ prefsPage # "list" => tab = "preferences"
        /\ searchPage # "form" => tab = "search"

SearchInv == OneStack /\ ResultsAreCurrent /\ FormIsSaved

LEMMA SearchInit == Init => SearchInv
  BY DEF Init, SearchInv, OneStack, ResultsAreCurrent, FormIsSaved

(* The main flow starts on its roots, with the form that was saved.             *)
LEMMA SearchStarts ==
    ASSUME NEW settings, StartMain(settings),
           defaults' = defaults \/ defaults' = [defaults EXCEPT !.userSettings = settings],
           AppTypeOK
    PROVE  SearchInv'
  <1>1. /\ defaults'.from = defaults.from /\ defaults'.to = defaults.to
        /\ defaults'.date = defaults.date
    BY DEF AppTypeOK
  <1>2. /\ prefsPage' = "list" /\ searchPage' = "form"
        /\ form' = [from |-> defaults.from, to |-> defaults.to, date |-> defaults.date]
    BY DEF StartMain
  <1> QED BY <1>1, <1>2 DEF SearchInv, OneStack, ResultsAreCurrent, FormIsSaved

LEMMA SearchStep ==
    ASSUME IInv, SearchInv, MainNext, UNCHANGED firstStartVars
    PROVE  SearchInv'
  <1> USE DEF SearchInv, OneStack, ResultsAreCurrent, FormIsSaved
  <1>0. /\ window = "main" /\ UNCHANGED window
        /\ AppTypeOK /\ MainTypeOK
        /\ searchSettings = defaults.userSettings
    <2>1. window = "main" /\ UNCHANGED window
      BY DEF MainNext, SwitchTab, OpenPreference, PreferenceAnswer, SelectPreference,
         ContinuePreference, LeavePreference, PressField, PlacesAnswer, PickPlace, ClosePlaces,
         PickDate, PressSearch, QuotesAnswer, LeaveResults, InPreferences, InSearch, appVars
    <2>2. searchSettings = defaults.userSettings
      BY <2>1 DEF IInv, SettingsAgree
    <2> QED BY <2>1, <2>2 DEF IInv, TypeOK
  <1>1. CASE SwitchTab
    BY <1>0, <1>1 DEF SwitchTab, TabBarShown, appVars, prefsVars, searchVars
  <1>2. ASSUME NEW page, OpenPreference(page)
        PROVE  SearchInv'
    BY <1>0, <1>2 DEF OpenPreference, InPreferences, appVars, searchVars
  <1>3. CASE PreferenceAnswer
    BY <1>0, <1>3 DEF PreferenceAnswer, appVars, searchVars
  <1>4. ASSUME NEW id, SelectPreference(id)
        PROVE  SearchInv'
    BY <1>0, <1>4 DEF SelectPreference, appVars, searchVars
  <1>5. CASE ContinuePreference
    <2>1. searchPage = "form" /\ UNCHANGED <<tab, searchPage, form>> /\ prefsPage' = "list"
      BY <1>0, <1>5 DEF ContinuePreference, Pop
    <2>2. /\ defaults'.from = defaults.from /\ defaults'.to = defaults.to
          /\ defaults'.date = defaults.date
      BY <1>0, <1>5 DEF ContinuePreference, ChangeSettings, SaveSettings, AppTypeOK
    <2> QED BY <1>0, <2>1, <2>2
  <1>6. CASE LeavePreference
    BY <1>0, <1>6 DEF LeavePreference, Pop, appVars, searchVars
  <1>7. ASSUME NEW field \in Fields, PressField(field)
        PROVE  SearchInv'
    BY <1>0, <1>7 DEF PressField, InSearch, appVars, prefsVars
  <1>8. CASE PlacesAnswer \/ ClosePlaces
    BY <1>0, <1>8 DEF PlacesAnswer, ClosePlaces, InSearch, appVars, prefsVars
  <1>9. ASSUME NEW place \in Places, PickPlace(place)
        PROVE  SearchInv'
    <2>1. /\ context \in Fields /\ searchPage' = "form"
          /\ UNCHANGED <<tab, prefsPage>>
      BY <1>0, <1>9 DEF PickPlace, InSearch, IInv, MainInv, prefsVars
    <2>2. /\ form' = [form EXCEPT ![context] = place]
          /\ defaults' = [defaults EXCEPT ![context] = place]
      BY <1>9 DEF PickPlace
    <2>3. /\ form'.from = defaults'.from /\ form'.to = defaults'.to
          /\ form'.date \in {defaults'.date, None}
      BY <1>0, <2>1, <2>2 DEF Fields, AppTypeOK, MainTypeOK, Forms
    <2> QED BY <1>0, <2>1, <2>3
  <1>10. ASSUME NEW date \in Dates \cup {None}, PickDate(date)
         PROVE  SearchInv'
    <2>1. /\ searchPage = "form" /\ UNCHANGED <<tab, prefsPage, searchPage>>
      BY <1>10 DEF PickDate, InSearch, prefsVars
    <2>2. /\ form' = [form EXCEPT !.date = date]
          /\ defaults' = IF date = None THEN defaults ELSE [defaults EXCEPT !.date = date]
      BY <1>10 DEF PickDate
    <2>3. /\ form'.from = defaults'.from /\ form'.to = defaults'.to
          /\ form'.date \in {defaults'.date, None}
      BY <1>0, <2>2 DEF AppTypeOK, MainTypeOK, Forms
    <2> QED BY <1>0, <2>1, <2>3
  <1>11. CASE PressSearch
    BY <1>0, <1>11 DEF PressSearch, InSearch, appVars, prefsVars
  <1>12. CASE QuotesAnswer
    <2>1. \E answer \in {"shown", "failed"} : results' = [results EXCEPT !.answer = answer]
      BY <1>12 DEF QuotesAnswer
    <2>2. results'.contract = results.contract /\ results'.settings = results.settings
      BY <1>0, <2>1 DEF MainTypeOK
    <2> QED BY <1>0, <1>12, <2>2 DEF QuotesAnswer, InSearch, appVars, prefsVars
  <1>13. CASE LeaveResults
    BY <1>0, <1>13 DEF LeaveResults, InSearch, appVars, prefsVars
  <1> QED BY <1>1, <1>2, <1>3, <1>4, <1>5, <1>6, <1>7, <1>8, <1>9, <1>10, <1>11, <1>12, <1>13
          DEF MainNext

LEMMA SearchNext ==
    ASSUME IInv, SearchInv, [Next]_vars
    PROVE  SearchInv'
  <1>0. AppTypeOK
    BY DEF IInv, TypeOK
  <1>1. CASE window' # "main"
    BY <1>1 DEF SearchInv, OneStack, ResultsAreCurrent, FormIsSaved
  <1>2. CASE window' = "main" /\ (Launch \/ Kill)
    <2>1. StartMain(defaults.userSettings) /\ UNCHANGED defaults
      BY <1>2 DEF Launch, Kill
    <2> QED BY <1>0, <2>1, SearchStarts
  <1>3. CASE window' = "main" /\ Finish
    <2>1. /\ StartMain([country |-> selectedCountry, currency |-> selectedCurrency])
          /\ SaveSettings([country |-> selectedCountry, currency |-> selectedCurrency])
      BY <1>3 DEF Finish, Complete
    <2> QED BY <1>0, <2>1, SearchStarts DEF SaveSettings
  <1>4. ASSUME FirstStartNext PROVE window' # "main"
    BY <1>4 DEF FirstStartNext, PressLanguage, ContinueLanguage, ContinueInitial,
       ContinueCountry, Back, CountriesAnswer, CurrenciesAnswer, SelectCountry,
       SelectCurrency, appVars, On, IInv, PagesInv
  <1>5. CASE MainNext /\ UNCHANGED firstStartVars
    BY <1>5, SearchStep
  <1>6. CASE UNCHANGED vars
    BY <1>6 DEF vars, appVars, mainVars, prefsVars, searchVars, SearchInv, OneStack,
       ResultsAreCurrent, FormIsSaved
  <1> QED BY <1>1, <1>2, <1>3, <1>4, <1>5, <1>6 DEF Next

(* With the settings and pages as they are in every reachable state, the search *)
(* never shows what belongs to another form or other settings.                  *)
THEOREM SearchKept == Spec => []SearchInv
  BY Inductive, SearchInit, SearchNext, PTL DEF Spec

(* Results on the screen are those of the form and the settings as they are.    *)
THEOREM Current == Spec => []ResultsAreCurrent
  <1>1. SearchInv => ResultsAreCurrent
    BY DEF SearchInv
  <1> QED BY <1>1, SearchKept, PTL

(* The form is on disk, but for a date that was cleared.                        *)
THEOREM Saved == Spec => []FormIsSaved
  <1>1. SearchInv => FormIsSaved
    BY DEF SearchInv
  <1> QED BY <1>1, SearchKept, PTL

-------------------------------------------------------------------------------
(* Nothing removes the settings, and with settings the app starts in main.      *)
SetUp == defaults.userSettings # None /\ window # "firstStart"

LEMMA SetUpStays ==
    ASSUME IInv, SetUp, [Next]_vars
    PROVE  SetUp'
  <1>1. CASE Launch \/ Kill
    BY <1>1 DEF Launch, Kill, SetUp
  <1>2. CASE Finish \/ FirstStartNext
    BY <1>2 DEF SetUp, Finish, Finishes, FirstStartNext, PressLanguage, ContinueLanguage,
       ContinueInitial, ContinueCountry, Back, CountriesAnswer, CurrenciesAnswer,
       SelectCountry, SelectCurrency, On
  <1>3. CASE MainNext
    <2>1. window = "main" /\ window' = window
      BY <1>3 DEF MainNext, SwitchTab, OpenPreference, PreferenceAnswer, SelectPreference,
         ContinuePreference, LeavePreference, PressField, PlacesAnswer, PickPlace, ClosePlaces,
         PickDate, PressSearch, QuotesAnswer, LeaveResults, InPreferences, InSearch, appVars
    <2>2. defaults'.userSettings \in UserSettings
      BY <2>1, NextIInv DEF IInv, MainInv
    <2> QED BY <2>1, <2>2, NoneAssumption DEF SetUp
  <1>4. CASE UNCHANGED vars
    BY <1>4 DEF vars, appVars, SetUp
  <1> QED BY <1>1, <1>2, <1>3, <1>4 DEF Next

(* Who has been through the first start is never asked again, whatever ends the *)
(* app.                                                                         *)
THEOREM NeverAsked == Spec => NeverAskedAgain
  <1>1. IInv /\ window = "main" => SetUp
    BY NoneAssumption DEF IInv, MainInv, SetUp
  <1>2. IInv /\ SetUp /\ [Next]_vars => SetUp'
    BY SetUpStays
  <1>3. SetUp => window # "firstStart"
    BY DEF SetUp
  <1> QED BY <1>1, <1>2, <1>3, Inductive, PTL DEF Spec, NeverAskedAgain

=============================================================================
