---------------------------- MODULE MCBestFlight ----------------------------
(* Two of everything that can be confused, so that stale copies show.           *)
EXTENDS BestFlight

CONSTANTS russia, japan, ruble, yen, russian, english, moscow, tokyo, monday, friday

TwoCountries  == {russia, japan}
TwoCurrencies == {ruble, yen}
TwoLanguages  == {russian, english}
TwoPlaces     == {moscow, tokyo}
TwoDates      == {monday, friday}
=============================================================================
