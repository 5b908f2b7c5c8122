--------------------------- MODULE RevenueFigures ---------------------------
(***************************************************************************)
(* What revenue is calculated from an enrollment, a fee grid and the other *)
(* items of revenue: the tuition of every cell of the detail and the items *)
(* derived from new pupils, spread over the months of the fiscal year.     *)
(***************************************************************************)
EXTENDS EnrollmentYear

CONSTANTS
  Primary, Secondary,  \* grades evaluated as "primaire" and as "secondaire"
  ExamGrade,           \* examination -> the grade that sits it
  AcademyRental,       \* the name "PSG Academy Rental"
  Vat                  \* VAT_RATE, in parts of One

VARIABLES
  fees,      \* fees[c]: FeeGrid, of some cells: tuitionHt and dai
  items,     \* OtherRevenueItem without a compute method
  settings   \* VersionRevenueSettings

pricing == <<fees, items, settings>>

-----------------------------------------------------------------------------
(* New pupils: those of AY2 who are not retained from the grade before.    *)

DetailHeads(y, g) ==
  [n \in Nationalities |-> SumOver([t \in Tariffs |-> detail[<<y, g, n, t>>]], Tariffs)]

Stayers(g) == CapAt(AtLeast(cohort[g].retained, 0), Heads(DetailHeads("AY2", g)))

Order == [n \in Nationalities |->
            CASE n = "Francais" -> 1 [] n = "Nationaux" -> 2 [] OTHER -> 3]

\* How far c is above the exact share of n of the stayers, in parts of the
\* pupils of the year before.
Overage(c, n, prior, stay) == c[n] * Heads(prior) - stay * prior[n]

\* Who gives up a place: the largest overage, then the most places.
GivesUp(c, prior, stay) ==
  CHOOSE n \in Nationalities : c[n] > 0 /\
    \A m \in Nationalities \ {n} : c[m] > 0 =>
      LET a == Overage(c, n, prior, stay)  b == Overage(c, m, prior, stay) IN
      \/ a > b
      \/ a = b /\ (c[n] > c[m] \/ (c[n] = c[m] /\ Order[n] < Order[m]))

\* Who gets one, of those with pupils left: the largest deficit, then the
\* largest share, then the most pupils.
Gets(c, prior, now, stay) ==
  CHOOSE n \in Nationalities : c[n] < now[n] /\
    \A m \in Nationalities \ {n} : c[m] < now[m] =>
      LET a == Overage(c, n, prior, stay)  b == Overage(c, m, prior, stay) IN
      \/ a < b
      \/ a = b /\ \/ prior[n] > prior[m]
                  \/ prior[n] = prior[m] /\ now[n] > now[m]
                  \/ prior[n] = prior[m] /\ now[n] = now[m] /\ Order[n] < Order[m]

\* Mutant: a nationality may keep more than it has pupils.
RoundedUncapped(prior, now, stay) ==
  [n \in Nationalities |-> HalfUp(stay * prior[n], Heads(prior))]
Rounded(prior, now, stay) ==
  [n \in Nationalities |-> CapAt(HalfUp(stay * prior[n], Heads(prior)), now[n])]

\* One place after the other is moved until there are as many as stay.
StepTo(c, prior, now, stay) ==
  IF Heads(c) > stay THEN [c EXCEPT ![GivesUp(c, prior, stay)] = @ - 1]
  ELSE IF Heads(c) < stay THEN [c EXCEPT ![Gets(c, prior, now, stay)] = @ + 1]
  ELSE c
Allocated(prior, now, stay) ==
  LET after[k \in 0..(stay + 3)] ==
        IF k = 0 THEN Rounded(prior, now, stay) ELSE StepTo(after[k - 1], prior, now, stay)
  IN IF stay = 0 THEN Nobody ELSE after[stay + 3]

StayersOf(g) == Allocated(DetailHeads("AY1", g - 1), DetailHeads("AY2", g), Stayers(g))
NewPupils(g) ==
  LET now == DetailHeads("AY2", g) IN
  IF g = PS THEN now ELSE [n \in Nationalities |-> now[n] - StayersOf(g)[n]]

-----------------------------------------------------------------------------
(* Derived items.                                                          *)

DaiFees(g, n) == {c \in DOMAIN fees : c[1] = "AY2" /\ c[2] = g /\ c[3] = n}
\* One registration fee for all tariffs, that of Plein.
DaiAgrees ==
  \A g \in Grades, n \in Nationalities : DaiFees(g, n) # {} =>
    /\ <<"AY2", g, n, "Plein">> \in DOMAIN fees
    /\ \A c, d \in DaiFees(g, n) : fees[c].dai = fees[d].dai
DaiKnown ==
  \A c \in Cells : c[1] = "AY2" /\ detail[c] > 0 => DaiFees(c[2], c[3]) # {}

Calculated(g) == IF cohort[g] = None THEN FALSE ELSE cohort[g].retained # None
\* What a calculation needs, or it ends in an error.
Derivable ==
  /\ DaiAgrees /\ DaiKnown
  /\ \A g \in Grades \ {PS} :
       IF ~Calculated(g) THEN FALSE
       ELSE Stayers(g) > 0 => Heads(DetailHeads("AY1", g - 1)) > 0

Item(name, annual, months, category) ==
  [name |-> name, annual |-> annual, category |-> category,
   method |-> "SPECIFIC_PERIOD", months |-> months, weights |-> <<>>]

Registration(name, annual, months) == Item(name, annual, months, "Registration Fees")

DaiOf(n) ==
  LET billed == {c \in Cells : c[1] = "AY2" /\ c[3] = n /\ detail[c] > 0} IN
  SumOver([c \in billed |-> detail[c] * fees[<<"AY2", c[2], n, "Plein">>].dai], billed)
NewOf(n) == SumOver([g \in Grades |-> NewPupils(g)[n]], Grades)
NewIn(band) == SumOver([g \in band |-> Heads(NewPupils(g))], band)

DerivedItems ==
  {Registration(<<"DAI", n>>, DaiOf(n), <<5, 6>>) : n \in Nationalities} \cup
  {Registration(<<"DPI", n>>, settings.dpi * NewOf(n), <<5, 6>>) : n \in Nationalities} \cup
  {Registration(<<"Dossier", n>>, settings.dossier * NewOf(n), <<5, 6>>) :
     n \in Nationalities} \cup
  {Item(<<"Exam", x>>, settings.exam[x] * Or(AY1(ExamGrade[x]), 0), <<4, 5>>,
        "Examination Fees") : x \in DOMAIN ExamGrade} \cup
  {Registration(<<"Evaluation", "Primaire">>, settings.primary * NewIn(Primary), <<10, 11>>),
   Registration(<<"Evaluation", "Secondaire">>, settings.secondary * NewIn(Secondary),
                <<10, 11>>)}

\* Names no other item has: the form wants every derived item sent as one.
DerivedNames ==
  ({"DAI", "DPI", "Dossier"} \X Nationalities)
  \cup ({"Exam"} \X DOMAIN ExamGrade) \cup ({"Evaluation"} \X {"Primaire", "Secondaire"})

-----------------------------------------------------------------------------
(* Spreading over months.                                                  *)

\* Mutant: the last month gets its equal part and the rest is lost.
InPartsRoundedOff(total, list) == [m \in ToSet(list) |-> Down(total, Len(list))]
\* Equal parts, the last month of the list taking the rest.  A month listed
\* twice has one part only.
InParts(total, list) ==
  LET part == Down(total, Len(list)) IN
  [m \in ToSet(list) |->
     IF m = list[Len(list)] THEN total - part * (Len(list) - 1) ELSE part]

\* Parts by weight, the last month with one taking the rest.
InWeights(total, w) ==
  LET weighted == {m \in Months : w[m] > 0}
      part == [m \in weighted |-> Down(total * w[m], SumOver(w, Months))]
  IN [m \in Months |->
        IF m \notin weighted THEN 0
        ELSE IF m = Max(weighted)
             THEN total - SumOver(part, weighted \ {m})
             ELSE part[m]]

Spread(item) ==
  CASE item.method = "ACADEMIC_10" -> InParts(item.annual, <<1, 2, 3, 4, 5, 6, 9, 10, 11, 12>>)
    [] item.method = "YEAR_ROUND_12" -> InParts(item.annual, [m \in Months |-> m])
    [] item.method = "CUSTOM_WEIGHTS" -> InWeights(item.annual, item.weights)
    [] item.method = "SPECIFIC_PERIOD" -> InParts(item.annual, item.months)

\* The part of ten teaching months that falls into the fiscal year, of an
\* amount num/den.
TeachingMonths(y) == IF y = "AY1" THEN <<1, 2, 3, 4, 5, 6>> ELSE <<9, 10, 11, 12>>
Visible(num, den, n) == HalfUp(num * n, 10 * den)
SpreadYear(num, den, list) ==
  LET part == Visible(num, den, 1)
      n == Len(list)
  IN [m \in ToSet(list) |->
        IF m = list[n] THEN Visible(num, den, n) - part * (n - 1) ELSE part]

-----------------------------------------------------------------------------
(* The calculation.                                                        *)

PleinOf(c) == <<c[1], c[2], c[3], "Plein">>
\* A reduced tariff is discounted from Plein, all else by the flat rate; in
\* parts of One.
Discount(c) ==
  IF c[4] # "Plein" /\ PleinOf(c) \in DOMAIN fees
  THEN (fees[PleinOf(c)].tuition - fees[c].tuition) * One
  ELSE fees[c].tuition * settings.flatDiscount
VatOf(n) == IF n = "Nationaux" THEN 0 ELSE Vat

\* Cells without a fee are passed over.
Billed == {c \in Cells : detail[c] > 0 /\ c \in DOMAIN fees}

Tuition(c) ==
  LET gross == detail[c] * fees[c].tuition * One
      discount == detail[c] * Discount(c)
      months == TeachingMonths(c[1])
  IN [gross |-> SpreadYear(gross, One, months),
      discount |-> SpreadYear(discount, One, months),
      net |-> SpreadYear(gross - discount, One, months),
      vat |-> SpreadYear((gross - discount) * VatOf(c[3]), One * One, months)]

\* Rent of the academy is not shown with the activities.
ExecutiveCategory(item) ==
  CASE item.category = "Registration Fees" -> "REGISTRATION_FEES"
    [] item.category = "Examination Fees" -> "EXAMINATION_FEES"
    [] item.category = "Activities & Services" /\ item.name # AcademyRental
         -> "ACTIVITIES_SERVICES"
    [] OTHER -> None

\* A row for every month with an amount.
RowsOf(item) ==
  LET share == Spread(item) IN
  {[name |-> item.name, category |-> item.category, executive |-> ExecutiveCategory(item),
    month |-> m, amount |-> share[m]] : m \in {k \in DOMAIN share : share[k] # 0}}

Revenue ==
  [tuition |-> [c \in Billed |-> Tuition(c)],
   other |-> UNION {RowsOf(item) : item \in items \cup DerivedItems}]
=============================================================================
