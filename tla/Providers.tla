----------------------------- MODULE Providers ------------------------------
(***************************************************************************)
(* The sources of daily bars and how they are combined (data/providers/,   *)
(* data/yahoo.py, `egx compare-providers`).                                *)
(*                                                                         *)
(* A provider is a name, whether it is configured, how many times in a row *)
(* its server fails in a way worth retrying, and the reply that follows:   *)
(* rows, a refusal, or something that cannot be parsed.  The CSV directory *)
(* is never busy; a symbol without a file is a refusal.  A row whose date  *)
(* cannot be read is skipped by the code and is no row here.               *)
(***************************************************************************)
EXTENDS Integers, SequencesExt

CONSTANT None

Feed == INSTANCE DailyFeed

Attempts == 4

Refused    == [is |-> "refused", rows |-> <<>>]
Garbled    == [is |-> "garbled", rows |-> <<>>]
Rows(rows) == [is |-> "rows", rows |-> rows]

(* _get: what a server still says after the last attempt is an error.      *)
Get(p) == IF p.busy < Attempts THEN p.reply ELSE Refused

ByDate(a, b) == a.date < b.date

InOrder(rows) == SortSeq(Feed!Whole(rows), ByDate)

(* Two bars of a date make the series invalid, which nobody expects.       *)
EodhdDaily(rows) ==
  LET candles == InOrder(rows)
  IN  IF Feed!Ascending(candles) THEN Feed!Bars(candles) ELSE Feed!Broken

(* The last whole row of a date counts.                                    *)
LastOfDates(rows) ==
  LET whole == Feed!Whole(rows)
      last  == {i \in DOMAIN whole : \A j \in i + 1 .. Len(whole) : whole[j].date # whole[i].date}
  IN  SetToSortSeq({whole[i] : i \in last}, ByDate)

CsvDaily(rows) == Feed!Bars(LastOfDates(rows))

Parsed(name, rows) ==
  CASE name = "yahoo" -> Feed!FetchDaily(rows)
    [] name = "eodhd" -> EodhdDaily(rows)
    [] name = "tradingview_csv" -> CsvDaily(rows)

(* fetch_daily of the three providers: bars, ProviderError (unavailable),  *)
(* or an exception that is no ProviderError (broken).                      *)
FetchDaily(p) ==
  LET reply == Get(p) IN
  CASE ~p.configured \/ reply.is = "refused" -> Feed!Unavailable
    [] p.configured /\ reply.is = "garbled" -> Feed!Broken
    [] OTHER -> Parsed(p.name, reply.rows)

DatesOf(fetch) == {c.date : c \in ToSet(fetch.candles)}

----------------------------------------------------------------------------
(* merge_providers.                                                        *)
NothingYet == [is |-> "merged", chosen |-> <<>>, sources |-> <<>>,
               contributions |-> <<>>, failures |-> {}]

(* Mutant of Added: a date that was chosen already is chosen again.        *)
AddedAll(merged, fetch) == DatesOf(fetch)

Added(merged, fetch) == DatesOf(fetch) \ DOMAIN merged.chosen

(* dict.update                                                             *)
Updated(dict, more) ==
  [k \in DOMAIN dict \cup DOMAIN more |-> IF k \in DOMAIN more THEN more[k] ELSE dict[k]]

Taken(merged, name, fetch) ==
  LET added == Added(merged, fetch) IN
  [merged EXCEPT
    !.chosen  = Updated(@, [d \in added |-> CHOOSE c \in ToSet(fetch.candles) : c.date = d]),
    !.sources = Updated(@, [d \in added |-> name]),
    !.contributions = Updated(@, [n \in IF added = {} THEN {} ELSE {name} |-> Cardinality(added)])]

(* Mutant of Failed: what was gathered is given up with the provider.      *)
FailedAlone(merged, name) == [NothingYet EXCEPT !.failures = merged.failures \cup {name}]

Failed(merged, name) == [merged EXCEPT !.failures = @ \cup {name}]

Merged(merged, p) ==
  LET fetch == FetchDaily(p) IN
  CASE merged.is = "broken" -> merged
    [] merged.is # "broken" /\ fetch.is = "broken" -> [NothingYet EXCEPT !.is = "broken"]
    [] merged.is # "broken" /\ fetch.is = "unavailable" -> Failed(merged, p.name)
    [] OTHER -> Taken(merged, p.name, fetch)

(* The series, with the provider of each bar; or that nobody had a bar.    *)
Ended(merged) ==
  IF merged.is = "merged" /\ DOMAIN merged.chosen = {} THEN [merged EXCEPT !.is = "unavailable"]
  ELSE merged

Merge(providers) ==
  LET upto[n \in 0 .. Len(providers)] ==
        IF n = 0 THEN NothingYet ELSE Merged(upto[n - 1], providers[n])
  IN  Ended(upto[Len(providers)])

----------------------------------------------------------------------------
(* compare-providers, for one symbol: the dates each configured provider   *)
(* covers, and the number it prints as what they cover together.           *)
Ready(providers) == {i \in DOMAIN providers : providers[i].configured}

(* Mutant of Together: the dates that all cover.                           *)
TogetherAgreed(covers) == {d \in UNION covers : \A dates \in covers : d \in dates}

Together(covers) == UNION covers

Compare(providers) ==
  LET ready      == Ready(providers)
      Covered(i) == DatesOf(FetchDaily(providers[i]))
  IN  [is |-> IF \E i \in ready : FetchDaily(providers[i]).is = "broken" THEN "broken" ELSE "compared",
       covers |-> [name \in {providers[i].name : i \in ready} |->
                     Covered(CHOOSE i \in ready : providers[i].name = name)],
       together |-> Cardinality(Together({Covered(i) : i \in ready}))]
=============================================================================
