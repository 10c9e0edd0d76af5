# Verification of the tabmo RTB server

The program is a small HTTP server that simulates programmatic advertising. It
loads advertising campaigns from a JSON file, then answers each bid request
(`GET /rtb`) with one compatible campaign, whose budget it debits, or with 204.
This directory holds TLA+ models of it, TLC configurations that check them on
small instances, and TLAPS proofs. Names of definitions follow the C++ code,
hence French.

Paths below are relative to the repository, whose own code is `src/*.cpp` and
`src/*.h` (897 lines); `third-party/drogon` is vendored.

## Inventory

| Component | State | Operations | Interacts with |
|---|---|---|---|
| `CampagnesManager::SelectCampagne` | locals of each call: candidates, drawn campaign, answer | loop over the campaigns, choice, debit | called by `RtbCtrl` from several event-loop threads; shares the campaigns |
| `CampagnesManager::RandomSelectCampagne` | weights, int sum, index | reads the budgets one by one, draws | called by `SelectCampagne`, locks the campaigns |
| `Campagne` | `mBudget` (the only mutable attribute), `mMutex`, constants | constructor controls, `DecrementeBudget`, copy/move | shared by all the threads |
| filters and compatibility | none | size/ratio, floor, include/exclude | inside the loop of `SelectCampagne`; lower-casing done partly by the loader |
| `RtbCtrl::asyncHandleHttpRequest` | locals of each request, uninitialised numbers of `BidRequest` | JSON conversion, control, call, answer | Drogon calls it on 3 threads (`threads_num`) and receives the callback |
| `CampagnesManager::ParseCampagnesFromJson`, `GetFilterFromItr` | `mListeCampagnes` | one campaign per JSON entry, errors caught per entry | run by `main` before the server |
| `main` | none | load, exit if no campaign, run | |
| Drogon, JsonCpp, logging | | | third party |

Nothing is persisted and nothing times out, so there is no recovery and no
retry to model. What is hard here is:

* **interleaving**: a call releases each campaign's mutex between examining it,
  weighing it and debiting it, so each value is stale when used;
* **failure paths**: an exception thrown with a mutex held, JSON conversions
  that throw half-way through filling an uninitialised structure, exceptions
  with no handler;
* **numbers**: float budgets that are rounded by each debit, an `int` that
  accumulates floats, divisions by a null sum, closed intervals, a float
  compared with a double bound, NaN and overflow in what `stof` reads.

The properties that make each part correct: budgets are never accessed without
exclusion, never overdrawn and account for every sale; a null answer or an
exception always has its legitimate cause; every call ends; the draw follows the
budgets; only complete requests reach the auction; each debit gives one 200; a
wrong entry of the file costs no other entry and never starts an empty server;
what is sold conforms to the entry it comes from.
`PROJECT.json` lists each hazard at its line with the properties aimed at it.

## Modules

| Module | Models |
|---|---|
| `Flottant` | C++ `float`: numbers of units, a spacing function `Ulp`, rounding to nearest even |
| `Tirage` | the result of `RandomSelectCampagne` as a relation between budgets, random number and position |
| `CampagnesManager` | concurrent `SelectCampagne` (the core) |
| `Enchere` | what `SelectCampagne` promises: an auction answered at one instant |
| `RandomSelectCampagne` | the loops of the draw, step by step |
| `Compatibilite` | size, floor and filters; `GetFilterFromItr` |
| `RtbCtrl` | the HTTP handler, on top of `Enchere` |
| `Chargement` | `main`, `ParseCampagnesFromJson`, the constructor of `Campagne` and its copy |
| `Serveur` | the whole program: `Chargement`, then `CampagnesManager` |
| `MCConcurrence`, `MCTirage`, `MCEchantillon`, `MCRtb`, `MCChargement`, `MCServeur` | instances for TLC |
| `CampagnesManagerProofs`, `VentesProofs`, `RaffinementProofs` | theorems about `CampagnesManager` and `Enchere` |
| `FlottantProofs` | lemmas about rounding |
| `TirageProofs`, `ChargementProofs`, `ServeurProofs`, `RtbCtrlProofs` | theorems about the other components |

Composition: `CampagnesManager` extends `Tirage`, which extends `Flottant`, and
takes the predicate `Compatible` as a constant. `MCEchantillon` gives it the
predicate of `Compatibilite` on the data of `res/`. `CampagnesManager`
implements `Enchere` (checked and proved), and `RtbCtrl` calls `Enchere` in
place of `SelectCampagne`: the theorem `SelectCampagneLinearisable` is what
allows it, and it keeps the handler's state space small; `HandlersEnchere` says
that the handlers call it as it allows. In the same way `ResultatsConformes`
allows `CampagnesManager` to use the relation of `Tirage` in place of the loops.
`Chargement` extends `Compatibilite`, and `Serveur` composes it (by INSTANCE)
with `CampagnesManager`; `ServeurCampagnes` and `ServeurChargement` say that the
whole program is a behaviour of each.

Definitions commented *faulty variant* are bugs the code could have had. No
specification uses them: each takes the place of the definition that follows it
to make sure that some property notices.

### CampagnesManager

A campaign is its index in `mListeCampagnes`, which nothing modifies once the
server runs; 0 is the null pointer and the null `Json::Value`. `pc[t]` is where
thread `t` is. Each critical section is two actions, one that takes the mutex
and one that does the work and releases it:

| Step of the call | Actions |
|---|---|
| entry | `Appeler` |
| first loop (lines 121-228) | `VerrouillerItr`, `Examiner` |
| end of the loop | `AucuneCompatible`, `UneSeule`, `PlusieursCompatibles` |
| reading the weights (279-284) | `VerrouillerPonderation`, `Ponderer` |
| draw (266-302) | `Tirer` |
| DEBUG message (239) | `Journaliser`, only when `LogDebug` |
| debit (240-248) | `VerrouillerPaiement`, `Debiter`, `BudgetInsuffisant` |
| return, or exception caught by the handler | `Rendre`, `Attraper` |

The random number is drawn before the weights are read in the code and at
`Tirer` in the model: it depends on nothing. The last three variables are
history: sales and answers per campaign, and the campaigns that other threads
debited since a call examined and kept them.

Abstractions: budgets and prices are numbers of units of a float format;
`Compatible(r, c)` stands for the size, floor and filter tests, whose data never
change; the content of the JSON answer is the campaign it names.

### RandomSelectCampagne

One call per random number 0..100, on a fixed vector of budgets, counting the
outcomes: the distribution is uniform, so the counts are the probabilities. The
float values `Inf` and `NaN` are explicit. `ResultatConforme` ties these loops
to the relation of `Tirage` that `CampagnesManager` uses, and `TiragesComptes` ties
the counts to the intervals.

### Compatibilite

Campaigns and requests are records with the C++ attribute names; a filter map is
a function from keys to lists, a list being its length and the set of its values
(the only things the code looks at). `Minuscule` and `Contient` stand for
`tolower` and `string::find`. Dimensions are positive here. Money in
`MCEchantillon` is in thousandths of a euro, exact for the shipped data.

### RtbCtrl

A payload says of each JSON node what the accessors of JsonCpp will do with it
(text, empty, composite; null, number, not convertible). The try block assigns
width, height and floor in order, and a failing conversion leaves the rest
`"indefini"`. Comparing such a value may give either result, and the model
records that it was read. An exception outside the try blocks terminates the
process: Drogon puts no handler around a controller.

### Chargement

One thread, one file, one entry at a time:

| Step | Actions |
|---|---|
| opening and parsing, root empty or not (38-43, 96-107) | `Ouvrir`, `OuvrirEnVain` |
| filters and arguments of one entry (54-71) | `LireEntree`, `LireEntreeLeve` |
| controls of the constructor (`Campagne.cpp`) | `Accepter`, `Refuser` |
| `push_back` of a copy (75-77) | `Ajouter` |
| the two catch clauses (80-93), and what escapes them | `Attraper`, `Avorter` |
| end of the loop, decision of `main` | `FinirLaBoucle`, `Demarrer`, `Arreter` |

A file is a sequence of entries; an entry gives, for each node that the loader
reads, its JSON type and its value. A budget or a price is a fraction, NaN, out
of the range of a float, or unreadable: what `stof` can make of a text. A width
or a height may be a number out of the range of an int (`HorsEntier`).
Conversions throw what JsonCpp and `stof` throw. The arguments of the
constructor are evaluated in an order that C++ leaves open, so any of those that
throw may be the exception that is seen. Both handlers print the id of the
entry, and that access may throw in its turn. The controls compare floats
rounded to the format; the lower bound of the price is the double 0.01, which no
float equals. Negative numbers and infinities fail the same tests as numbers out
of bounds and have no value of their own. `origines` is history: the entry each
campaign comes from.

### Serveur

`Charger` is a step of `Chargement`, `Servir` a step of `CampagnesManager` once
`main` has called `run`. The constants of `CampagnesManager` describe the
campaigns the file yields: `Rang` numbers the entries that the constructor
admits, in the order of the file, and `Represente` compares a campaign of
`CampagnesManager` with the object an entry becomes. `RangAssumption` is about
the file alone; `RemiseFidele` says that the loader, through errors and copies,
really leaves these campaigns. A campaign with a NaN passes no comparison with
its price, so it is one without money.

## Runs

| Run | Result |
|---|---|
| `concurrence` | 3 threads, 2 campaigns, 2 requests, log level INFO: all invariants, and the inductive invariant of the proofs |
| `raffinement` | 2 threads, 3 requests (one compatible with nothing), log level DEBUG: `EnchereSpec`, `AppelsTermines` |
| `journal` | **violated**: `SansCourse` at the DEBUG level |
| `tirage` | 576 vectors of 2 or 3 budgets, 101 random numbers each: the two loops (`BoucleInv`), result, number of draws of each campaign (`TiragesComptes`), exhausted campaigns, proportionality for whole euros |
| `tirage_chance` | **violated**: `ChancePourTous` with 1 and 0.625 euro |
| `echantillon_requete3` | **violated**: 3.md |
| `rtb` | 2 threads, 21 payloads, every one with at most one abnormal node among them: `PasDeLectureIndefinie`, `AchatSurPayloadValide`, `VenteAnnoncee`, `HandlerInv`, `ToutRepondu` |
| `rtb_exception` | **violated**: `PasDException` |
| `chargement` | 3750 files of 0 to 3 entries: `ChargementInv`, `VendeuseSaine`, `DemarrageSain`, `RetourFidele`, `RefusJustifie`, `DemarrageTermine` |
| `chargement_levee` | **violated**: `ErreursAttrapees` |
| `chargement_bornes` | **violated**: `ChargementConforme` |
| `serveur` | 2 threads on the campaigns of a file of seven entries, three of them refused, in a float format that confuses a price with the bound it exceeds and two different ratios: `RemiseFidele`, `VenteConforme`, `VenteProche`, `VenteChargee`, `NulleConforme`, `VecteurStable` |

What the passing runs say:

* `SansCourse`: nobody reads or writes a budget that another thread may be
  writing.
* `ListeVideJustifiee`: when a null answer is given, no compatible campaign can
  pay at that moment, although they were examined at different moments (budgets
  only go down).
* `EchecJustifie`: the "erreur critique" is always a lost race, never a wrong
  test.
* `DepenseBornee`, `VenteRepondue`, `VenteAnnoncee`: sales, money and answers
  agree.
* `PonderationPerimee`: a stale weight is too large, never too small, and a sale
  made since the campaign was examined explains it.
* `EnchereSpec`: the calls are linearisable. A call may also give up
  (`Renoncer`) although another campaign could have paid: the code does not
  try again.
* `EpuiseeJamaisTiree`: closed intervals share their ends, yet a campaign with
  no money is never drawn, save in first place, which is also the default.
* `BoucleInv`: what the loops of the draw have established on the way, in floats:
  every interval passed ends strictly under the random number.
* `TiragesComptes`: whatever the roundings, the calls made so far have drawn each
  campaign as often as there are random numbers in its interval; the lower end goes
  to the interval before, and the first campaign also takes what is beyond the last
  interval. No random number is lost or counted twice.
* `HandlerInv`: what a handler holds at each of its points comes from its own
  payload, and nothing survives the callback into the next request of the thread.
* `PartProportionnelle`: with whole euros each campaign gets its share of the
  draws within two hundredths.
* `RetourFidele`, `DemarrageSain`: the value returned by the loader is true
  exactly when every entry became a campaign, so that `main`, which counts the
  campaigns only when it is false, never serves an empty list.
* `ChargementInv`: at every point of the load the vector is the admissible entries
  met so far, in order and equal to what the constructor made of them, and
  `lReturn` says whether one is missing.
* `RefusJustifie`: errors stay confined to their entry, in every order; the
  conforming entries before one that ends the process are loaded too. A price that
  the format rounds under 0.01 is the one reason to refuse such an entry (see
  `chargement_bornes` below).
* `VendeuseSaine`: whatever passes the controls, only campaigns within the
  documented ranges can buy; this is what the assumptions of the proofs ask.
* `VecteurStable`: the loop of `SelectCampagne` and its pointers are safe without
  `mAccesCampagnes`, because nothing is added once a call is possible.
* `VenteConforme`: a sale agrees with the entry of the file it comes from, after
  refused entries, lower-casing, copies and concurrent debits, exactly as soon as
  the floats tell apart its values and those of the request. `VenteChargee` is
  the same on the side of the loaded campaign, in floats. `NulleConforme` is the
  converse: a null answer means that no entry of the file that accepts the
  request has money left. It leaves out an entry whose price, 0.01 in the file, is
  rounded under 0.01 (see below), which may have been refused.
* `VenteProche`: where the format confuses different ratios, or a value with the
  end of its range, a sale still agrees with its entry up to that rounding: half a
  spacing for a budget or a price, a spacing for the difference of two ratios.

The six violated runs are the findings of `PROJECT.json`. Four are about the
server:

* `journal`: the DEBUG message reads a budget without its mutex;
* `tirage_chance`: with 1 and 0.625 euro left the `int` sum is 1, so that the
  interval of the first campaign is 0..100 and the second, with 38% of the money,
  is never drawn;
* `echantillon_requete3`: `bid-requests/3.md` announces campaign 3 although its
  price is under the floor;
* `rtb_exception`: the string fields are read outside the try block under a comment
  saying that nothing can be thrown.

Two are about the loader, which does not do what its messages and comments say:

* `chargement_levee`: the two catch clauses are meant for "une mauvaise valeur" in
  the JSON or in a float, but neither takes the `out_of_range` of `stof`, and the
  one that takes the JSON errors prints the id of the entry: when the id is an
  object, reading it throws again, out of `main`;
* `chargement_bornes`: in one file, a price of 0.01 is refused, since 0.01f < 0.01,
  although the message says "compris entre 0.01 et 10"; a budget that is NaN passes
  the range control (such a campaign never buys, `VendeuseSaine`); an empty filter
  list disappears instead of being refused as not having 1 to n elements, and the
  campaign is sold without that filter (`Declaree`, used by `VenteConforme` and
  `NulleConforme`, only counts the filters that list something).

`AvortementDelimite`, which is proved, says how far the first goes: the process
survives every entry that is an object with a printable id and floats that fit,
whatever else is wrong with it.

### Bounds

* Float formats. `MCConcurrence` uses 7 significant bits and a unit of 2^-13:
  the integers 0..100 are exact, quotients keep 7 bits, and debits above 32 euros
  are rounded (33.25 becomes 33), so rounding really happens. `MCTirage` uses 16
  bits and a unit of 2^-16, `MCChargement` 10 bits and the same unit. All have the
  structure of a binary32, only coarser. `MCEchantillon` counts
  money in thousandths of a euro, where its data are exact. `MCServeur` uses 10 bits
  and a unit of 2^-10: a price of 10.004 is rounded to 10 and the ratio 626/1002 to
  10/16, while its other values are told apart (`PrecisionAssumption`).
* Campaigns. Two campaigns that pay twice and once reach every step: one, several
  or no candidates, exhaustion between examination and debit, and three threads
  competing for one sale. The proofs remove these bounds.
* The vectors of `tirage` mix null budgets, budgets under a euro (null sums) and
  whole budgets. `tirage_chance` has the one vector 1 and 0.625 euro.
* `MCEchantillon` starts from budgets the shipped campaigns have after 831, 37, 73
  and 105 sales, so that exhaustion is in reach.
* `MCChargement`: its format rounds 0.01 down as a binary32 does. Files: one entry
  with at most two abnormal nodes (two are needed for two arguments that throw, or
  for a handler that throws), every pair of entries with at most one, every triple
  of the four outcomes. The loop keeps nothing from an entry but the list and
  `lReturn`, so three entries meet every order of outcomes. The violated runs take
  one file each.
* `MCRtb`: every payload with at most one abnormal node and two with two of them; the
  conversions and the control look at one node after the other, and the theorems are
  about every payload. The budgets pay for two sales and for one.
* `MCServeur` has campaigns that pay once, never (NaN), twice, and once at the price
  that is rounded; requests for several, for either one (another language, an
  excluded or a missing ifa), for none, and one that only rounding makes compatible.
  Dimensions are small, for the format to tell most ratios apart.
* Threads are interchangeable: symmetry is used where no liveness is checked.
* Deadlock is checked everywhere but in `tirage`, which ends after 101 calls, in
  `rtb`, where the process may be terminated, and in `chargement`, where
  the start of the program ends (and in the violated runs of the same modules).

### Fairness

`FairSpec` assumes that a thread inside a call keeps running (weak fairness of
its steps): event-loop threads are never stopped and wait for nothing but a
mutex. Mutexes are not assumed fair, so a call can starve while others keep
coming; `AppelsTermines` and `ToutRepondu` therefore speak of the runs where
requests stop arriving. Arrival of requests has no fairness. `FairSpec` of
`Chargement` assumes that the main thread, which waits for nobody, keeps running.

## Proofs

The theorems hold for every set of threads, every number of campaigns, every
file, payload and request of the assumed shape, and every float format.

| Module | Theorem | Statement |
|---|---|---|
| `CampagnesManagerProofs` | `InvariantInductif` | `Spec => []IInv` |
| | `TypeCorrect` | `Spec => []TypeOK` |
| | `AbsenceDeCourse` | `LogDebug = FALSE => (Spec => []SansCourse)` |
| | `ReponseNulleJustifiee` | `Spec => []ListeVideJustifiee` |
| | `ExceptionJustifiee` | `Spec => []EchecJustifie` |
| | `ComptesExacts` | `Spec => []DepenseBornee` |
| `VentesProofs` | `VentesRepondues` | `Spec => []VenteRepondue` |
| | `PonderationExpliquee` | `Spec => []PonderationPerimee` |
| `RaffinementProofs` | `SelectCampagneLinearisable` | `Spec => EnchereSpec` |
| `TirageProofs` | `BouclesCorrectes` | `FormatRegulier => (Spec => []BoucleInv)` |
| | `ResultatsConformes` | `FormatRegulier => (Spec => []ResultatConforme)` |
| | `EpuiseesJamaisTirees` | `FormatRegulier => (Spec => []EpuiseeJamaisTiree)` |
| | `TirageFonctionnel` | every random number selects exactly one position (`FormatRegulier`) |
| | `TiragesExacts` | `FormatRegulier /\ FormatCroissant => (Spec => []TiragesComptes)` |
| | `PartsProportionnelles` | the same, and a precise format: `Spec => []PartProportionnelle` |
| `RtbCtrlProofs` | `TypeCorrect` | `Spec => []TypeOK` |
| | `HandlerCorrect` | `Spec => []HandlerInv` |
| | `LectureSure` | `Spec => []PasDeLectureIndefinie` |
| | `AchatComplet` | `Spec => []AchatSurPayloadValide` |
| | `HandlersEnchere` | `Spec => E!Spec` |
| | `VentesAnnoncees` | `Spec => []VenteAnnoncee` |
| `ChargementProofs` | `VecteurCorrect` | `Spec => []ChargementInv` |
| | `TypeCorrect` | `Spec => []TypeOK` |
| | `VendeusesSaines` | `Spec => []VendeuseSaine` |
| | `RetoursFideles` | `Spec => []RetourFidele` |
| | `DemarragesSains` | `Spec => []DemarrageSain` |
| | `RefusJustifies` | `Spec => []RefusJustifie` |
| | `AvortementsDelimites` | `Spec => []AvortementDelimite` |
| `ServeurProofs` | `ServeurCampagnes` | `ServeurSpec => Spec` |
| | `ServeurChargement` | `ServeurSpec => Ch!Spec` |
| | `VecteurJamaisDeplace` | `ServeurSpec => VecteurStable` |
| | `RemisesFideles` | `ServeurSpec => []RemiseFidele` |
| | `VentesChargees` | `ServeurSpec => []VenteChargee` |
| | `NullesConformes` | `ServeurSpec => []NulleConforme` |
| | `VentesConformes` | `ServeurSpec => []VenteConforme` |
| | `VentesProches` | `ServeurSpec => []VenteProche` |

### Assumptions

* `CampagnesManager`: the controls of the constructor, that is budgets within a
  bound and a price larger than half the spacing of the floats at that bound
  (0.01 against 2^-15 for a binary32 under 1000); finitely many threads.
* `RtbCtrl`: a payload gives each node one of the kinds that the accessors of
  JsonCpp tell apart, and the content of a complete payload is a request.
* `Chargement`: the same for the nodes of a file; the marks for NaN, out of range
  and unreadable differ.
* `Serveur`: the file is of that shape, dimensions of requests are positive (the
  handler refuses null ones), the floats around the ratio of a request have a
  spacing, and `Rang` enumerates the admissible entries in the
  order of the file. No assumption says that the loader finds them.
* `RandomSelectCampagne`: the list is not empty (`SelectCampagne` calls it with
  at least two), and in the theorems `FormatRegulier`: the two multiples of the
  spacing around a number are numbers of the format, as in any binary format.
  `TiragesExacts` also uses `FormatCroissant`: the spacing never decreases, and a
  number and the multiple of the spacing below it have the same one. Both quantify
  over all numbers, so they are hypotheses and not ASSUMEs; `MCTirage` evaluates
  them for its format on 0..2^18 (`FormatAssumption`).
* `PartsProportionnelles` adds that the format is precise enough for the vectors of
  whole budgets (`VecteurPrecis`): it holds their partial sums, and the error of one
  step of the loop stays under a hundredth once it is added up over the intervals
  or multiplied by the sum. For a binary32 this allows a sum of about 73000 euros,
  that is more than 70 campaigns with the largest budget. `MCTirage` evaluates it
  (`PrecisionAssumption`).
* `VentesConformes` speaks of the sales for which `FormatPrecis` holds: a value of the
  entry out of its range is not rounded to an end of it, and its ratio and that of
  the request, if they differ, are not rounded to the same float. For a binary32 this covers budgets with up to 4 decimals,
  prices with up to 6, and ratios under 2 when the product of the two widths is under
  2^23. `MCServeur` evaluates it (`PrecisionAssumption`).

Without that condition `VenteConforme` would fail: a budget of 1000.00001 is rounded to 1000 and accepted, and
two ratios closer than the spacing of the floats pass for equal. `VenteProche`,
`VenteChargee` and `TiragesComptes` are the statements that need no precision.

### Arguments

`CampagnesManager`. None of the properties is inductive by itself. `IInv` adds: a
mutex is held exactly inside a critical section of its campaign (`VerrousInv`),
the locals of a call agree with its position (`LocalesInv`), and what the first
loop concluded, restated for the budgets as they are now (`ParcoursInv`): a
campaign left out still cannot pay, a campaign kept still can unless a sale
intervened. The last one rests on `DebitBorne` (a rounded debit strictly lowers
the budget and keeps it non-negative, from `ArrondiProche`) and on `AutreThread`
(a step of one thread does not touch the locals of another). `ExceptionJustifiee`
adds that the campaign of a thrown exception cannot pay, `ComptesExacts` is an
induction on the debits, and the refinement maps every point of a call before its
decision to "attente". `VentesRepondues` follows the set of threads that hold the
answer of a campaign: each step adds or removes one thread, hence the finiteness
of `Threads`. `PonderationExpliquee` uses that a debit is seen by every other call
that has kept the campaign (`venduesDepuis`) and strictly lowers the budget.

`RtbCtrl`. `TypeOK`, `HandlerInv` and `PasDeLectureIndefinie` are inductive
together: the control is reached with a request filled by the conversions of the
same payload, and a number is left undefined only when the error flag is up.
`VentesAnnoncees` counts the threads on both sides of the return of
`SelectCampagne`.

`Chargement`. `ChargementInv` is inductive with the types of the locals; all the
other theorems are consequences of it and of lemmas on the operators. The bounds
of `VendeusesSaines` come from the controls, which compare floats, and those of
`RefusJustifies` from the file, which holds fractions: the lemmas of
`FlottantProofs` bridge them (rounding is monotone, the same for equal fractions,
and exact on the numbers that the format holds).

`RandomSelectCampagne`. `BoucleInv` says what the loops have computed in terms of
the recursive functions of `Tirage`. That these satisfy their equations at every
index is proved with the least-number principle (`WFMin` on the naturals): a
smallest index where no partial function exists gives a contradiction. What
excludes an exhausted campaign is that the end of the last interval passed is a
float (here `FormatRegulier` is needed), so that adding a null percentage to it
changes nothing and the random number is beyond the new end as well.

`TiragesComptes` is inductive with `BoucleInv`: the ends of the intervals increase
(rounding is monotone, from `FormatCroissant`), so a random number is at most the end
of an interval and beyond the previous one for a single position, and the return of
the call adds one to the count of that one. `PartsProportionnelles` then only has to
place the ends: the sum of whole budgets is not truncated (`SommeEntiere`), each step
of the loop errs by at most `ErreurDouble` half units (`PasErreur`), the errors are
added up over the intervals with the least-number principle (`ProbaErreur`), and the
last interval ends between 99 and 101. The first campaign takes at most the random
numbers beyond it in addition to its own.

`Serveur`. The module is linked to both components by refinement, so their
invariants hold of it. `Ch`, in the specification, and `CP`, through which the
theorems of `ChargementProofs` are used, are two instances of the same
definitions; the first lemmas of `ServeurProofs` say that they agree. For
`RemisesFideles` the n-th campaign of the vector must be the n-th admissible
entry. This would be an induction over the file; it is an induction over the steps
of the loader instead: `Ordonnee` says that the first campaigns of `Rang` are
exactly `origines`. `VentesChargees` follows that the campaign of an answer is
compatible and could be paid for with its initial budget, since budgets only go
down. `NullesConformes`
combines `ListeVideJustifiee`, `RemisesFideles` and the equivalence of what an
entry declares (`Declaree`) with what the loaded campaign accepts
(`RequeteCompatible`): integer cross products against quotients of floats, and
names folded by the loader against names folded by the call. `VentesConformes` needs
the other direction of each equivalence. A rounded number is within half a spacing of
the fraction it comes from, so under `FormatPrecis` a fraction out of the range has a
float out of the range (`BornesExactes`), and two equal floats come from two equal
ratios, since the cross products of different ones differ by at least one
(`TailleExacte`, from `RatiosEgaux`). `VentesProches` keeps these half spacings
instead of excluding them (`BornesProches`, `TailleVoisine`), hence needs no
precision.

### Only model-checked

* Liveness: `AppelsTermines`, `ToutRepondu`, `DemarrageTermine`; the prover does
  not handle fairness.

## Not modelled

* Drogon and JsonCpp (third party), apart from what the handler and the loader
  rely on.
* Wording of messages, and the rounding of the price to two digits in the answer
  (a campaign at 0.123 sold over a floor of 0.122 is announced at 0.12).
* `CampagnesManager::mListeMutex`, which nothing uses.
* The move constructor and the two assignment operators of `Campagne`: nothing
  calls them. A vector that grows copies its elements, since the move constructor
  is not `noexcept`.
* Negative dimensions: the constructor accepts them, no request of the models has
  them, and a ratio of two negative dimensions is that of their opposites.
* Failure of `random_device`, which throws where the standard library has no
  source of entropy.

## Plan

1. `CampagnesManager`, `Enchere`, `Tirage`, `Flottant` with their proofs: done.
2. `RandomSelectCampagne`, `Compatibilite`, `RtbCtrl`: done, checked by TLC.
3. `Chargement` and its composition with `CampagnesManager` in `Serveur`: done,
   checked by TLC.
4. Proofs about every component: done. Every safety property of a passing run is a
   theorem. What remains out of the prover's reach
   is liveness under fairness.
