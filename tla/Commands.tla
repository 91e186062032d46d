------------------------------ MODULE Commands ------------------------------
(***************************************************************************)
(* How the commands end that the desk can start (cli.py): the exit code,   *)
(* and whether the output says "needs a human".  An argument holds what a  *)
(* command finds, its settings among them (config.py); whatever escapes    *)
(* the command exits with 1.                                               *)
(***************************************************************************)
EXTENDS Integers, Sequences

(* Settings: a field that only has to be there is a Boolean.               *)
Settings == [
  mode : {"alert", "assisted", "auto"}, understands : BOOLEAN, telegram : BOOLEAN,
  baseUrl : BOOLEAN, proxyKey : BOOLEAN, eodhdKey : BOOLEAN, exports : BOOLEAN,
  providers : {{}, {"yahoo"}, {"eodhd"}, {"yahoo", "eodhd", "tradingview_csv"}, {"yaho"}}]

(* Its validators: automatic mode needs the second switch, assisted mode a *)
(* channel to the operator, and Yahoo's proxy is needed in any case.       *)
Valid(s) ==
  /\ s.mode = "auto" => s.understands
  /\ s.baseUrl /\ s.proxyKey
  /\ s.mode = "assisted" => s.telegram

(* build_providers raises for a name it does not know, and for none.       *)
Buildable(s) == s.providers # {} /\ s.providers \subseteq {"yahoo", "eodhd", "tradingview_csv"}

(* is_configured of each; with valid settings Yahoo always is.             *)
Ready(s) ==
  {name \in s.providers : CASE name = "yahoo" -> s.proxyKey
                             [] name = "eodhd" -> s.eodhdKey
                             [] OTHER -> s.exports}

Exits(code) == [asked |-> FALSE, code |-> code]

(* The checks in their order, each with the end it leads to.               *)
FirstOf(checks) ==
  LET i == CHOOSE i \in DOMAIN checks : checks[i][1] /\ \A j \in 1 .. i - 1 : ~checks[j][1]
  IN  checks[i][2]

(* record: no saved login is told to the desktop and not in these words,   *)
(* and neither is a login found expired at the start; one that expires in  *)
(* the session is, and exits with 0 like every end of the recorder.        *)
Record(c) == FirstOf(<<
  <<~Valid(c.settings), Exits(1)>>,
  <<~c.open, Exits(0)>>,
  <<~c.targets, Exits(1)>>,
  <<~c.saved, Exits(1)>>,
  <<c.started # "signed_in", Exits(1)>>,
  <<c.ended = "raised", Exits(1)>>,
  <<TRUE, [asked |-> c.ended = "expired", code |-> 0]>>>>)

(* thndrx-login: no browser, or nobody signed in before the timeout.       *)
Login(c) == FirstOf(<<
  <<~Valid(c.settings), Exits(1)>>,
  <<c.login # "signed_in", Exits(1)>>,
  <<TRUE, Exits(0)>>>>)

(* audit: an answer that is no MarketDataError ends the whole audit; the   *)
(* desk passes no floor for the share that passes.                         *)
Count(results, what) == Len(SelectSeq(results, LAMBDA r : r = what))

Audit(c) == FirstOf(<<
  <<~Valid(c.settings) \/ Count(c.results, "broken") > 0, Exits(1)>>,
  <<Count(c.results, "usable") * 100 < c.failUnder * Len(c.results), Exits(1)>>,
  <<TRUE, Exits(0)>>>>)

(* verify-calendar, without --write: nothing to go by is an error.         *)
VerifyCalendar(c) == FirstOf(<<
  <<~Valid(c.settings) \/ Count(c.results, "broken") > 0, Exits(1)>>,
  <<Count(c.results, "unfetchable") = Len(c.results), Exits(1)>>,
  <<TRUE, Exits(0)>>>>)

(* compare-providers: one provider alone is remarked on and compared.      *)
CompareProviders(c) == FirstOf(<<
  <<~Valid(c.settings) \/ ~Buildable(c.settings), Exits(1)>>,
  <<Ready(c.settings) = {}, Exits(1)>>,
  <<c.is = "broken", Exits(1)>>,
  <<TRUE, Exits(0)>>>>)

----------------------------------------------------------------------------
(* What a command may find, of two symbols where it fetches them.          *)
Results == UNION {[1 .. n -> {"usable", "blocked", "unfetchable", "broken"}] : n \in 1 .. 2}

Outcome == [
  record |-> {Record(c) : c \in
    [settings : Settings, open : BOOLEAN, targets : BOOLEAN, saved : BOOLEAN,
     started : {"signed_in", "expired", "unavailable"},
     ended : {"closed", "expired", "failures", "raised"}]},
  thndrx_login |-> {Login(c) : c \in
    [settings : Settings, login : {"signed_in", "unavailable", "cancelled"}]},
  audit |-> {Audit(c) : c \in [settings : Settings, results : Results, failUnder : {0}]},
  verify_calendar |-> {VerifyCalendar(c) : c \in [settings : Settings, results : Results]},
  compare_providers |-> {CompareProviders(c) : c \in
    [settings : Settings, is : {"compared", "broken"}]}]

(* The allowlist.                                                          *)
Allowed == DOMAIN Outcome
=============================================================================
