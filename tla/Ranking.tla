---- MODULE Ranking ----
(***************************************************************************)
(* The two ranking engines of the market web (src/lib/algorithm.ts and     *)
(* src/lib/demo-algorithm.ts) on the listing they rank (demo-data.ts).     *)
(*                                                                         *)
(* A trace draws a distance for every candidate, keeps those within the    *)
(* radius, scores them by five weighted factors and shows the best.  The   *)
(* draw is Math.random: any distance of its interval.  Ratings are in      *)
(* tenths, ages of prices in the unit their text names.                    *)
(***************************************************************************)
EXTENDS Sums, Sequences

VARIABLES
  trace,             \* the index of the scenario this trace is of
  distances,         \* of the candidates mapped so far: the distance drawn
  ranking            \* the candidates shown, best first, once there are

vars == <<trace, distances, ranking>>

----
(* A listed business; the texts it is shown with are left out. *)
Negocio(ciudad, verificado, saldo, rating, reviews, age, unit) ==
  [ciudad |-> ciudad, verificado |-> verificado, saldo |-> saldo,
   rating |-> rating, reviews |-> reviews, age |-> age, unit |-> unit]

Foods == <<
  Negocio("Neiva",    TRUE,  TRUE,  47, 312,  2, "hora"),
  Negocio("Neiva",    TRUE,  FALSE, 49, 198, 45, "minuto"),
  Negocio("Pitalito", TRUE,  TRUE,  46,  87,  1, "hora"),
  Negocio("Garzon",   FALSE, TRUE,  45,  54,  4, "hora"),
  Negocio("Rivera",   TRUE,  TRUE,  48, 421, 30, "minuto") >>

Barber == <<
  Negocio("Neiva",    TRUE,  TRUE,  48, 234,  1, "dia"),
  Negocio("Pitalito", TRUE,  FALSE, 47, 156,  2, "dia"),
  Negocio("Neiva",    TRUE,  TRUE,  46,  89,  3, "dia"),
  Negocio("LaPlata",  FALSE, FALSE, 45,  67,  5, "dia"),
  Negocio("Neiva",    TRUE,  TRUE,  49,  78, 12, "hora") >>

Beauty == <<
  Negocio("Neiva",    TRUE,  TRUE,  49, 567,  1, "dia"),
  Negocio("Pitalito", TRUE,  FALSE, 48, 234,  8, "hora"),
  Negocio("Neiva",    TRUE,  TRUE,  49, 145,  2, "dia"),
  Negocio("Neiva",    FALSE, TRUE,  47,  98,  3, "dia"),
  Negocio("Garzon",   TRUE,  FALSE, 48,  67,  4, "dia") >>

Hogar == <<
  Negocio("Neiva",    TRUE,  TRUE,  47, 234,  2, "dia"),
  Negocio("Pitalito", TRUE,  TRUE,  48, 167,  1, "dia"),
  Negocio("Neiva",    FALSE, TRUE,  46,  89,  4, "dia"),
  Negocio("Neiva",    TRUE,  FALSE, 47, 134,  6, "hora"),
  Negocio("Rivera",   FALSE, TRUE,  45,  45,  5, "dia") >>

(* The scenarios of the pages.  The deep engine is algorithm.ts, which draws
   distances; radio 0 stands for none given.  No food is in Bogota, so its
   filter leaves nothing out. *)
Scenario(deep, user, listing, strict, radio) ==
  [deep |-> deep, user |-> user, listing |-> listing, strict |-> strict, radio |-> radio]

TRACES_DETALLADOS == <<
  Scenario(TRUE, "Neiva",    Foods,  TRUE,  30),
  Scenario(TRUE, "Medellin", Barber, TRUE,  100),
  Scenario(TRUE, "Bogota",   Foods,  FALSE, 0),
  Scenario(TRUE, "Pereira",  Beauty, TRUE,  0),
  Scenario(TRUE, "Neiva",    Hogar,  FALSE, 10) >>

TRACES == <<
  Scenario(FALSE, "Neiva",    Beauty, FALSE, 0),
  Scenario(FALSE, "Medellin", Barber, FALSE, 0),
  Scenario(FALSE, "Bogota",   Foods,  FALSE, 0) >>

Traces == TRACES_DETALLADOS \o TRACES

limit == 3

----
(* Rounding up from the half, as Math.round does, of num / den. *)
Rounded(num, den) == (2 * num + den) \div (2 * den)

(* Of the cities in the listing; one that no list has is in the north. *)
subregionOf(ciudad) ==
  CASE ciudad = "Garzon" -> "centro"
    [] ciudad = "Pitalito" -> "sur"
    [] ciudad = "LaPlata" -> "occidente"
    [] OTHER -> "norte"

(* Same subregion or not. *)
DeepGeo(ciudad, user) == IF subregionOf(ciudad) = subregionOf(user) THEN 100 ELSE 55

(* Same city, two cities of one list, or neither. *)
ShortGeo(ciudad, user) ==
  IF ciudad = user THEN 100
  ELSE IF {ciudad, user} = {"Neiva", "Rivera"} THEN 65 ELSE 40

geoScore(n, t) == IF t.deep THEN DeepGeo(n.ciudad, t.user) ELSE ShortGeo(n.ciudad, t.user)

verificadoScore(n, t) ==
  IF n.verificado THEN 100 ELSE IF t.deep /\ t.strict THEN 0 ELSE 25

aceptaSaldoScore(n) == IF n.saldo THEN 100 ELSE 40

AtLeast(low, from, loss) == IF loss + low >= from THEN low ELSE from - loss

(* In sixths of a point: a minute costs one. *)
recenciaScore(n) ==
  CASE n.unit = "minuto" -> AtLeast(6 * 70, 600, n.age)
    [] n.unit = "hora"   -> AtLeast(6 * 50, 600, 24 * n.age)
    [] n.unit = "dia"    -> AtLeast(6 * 10, 420, 72 * n.age)

(* 10 log10(reviews + 1) in hundredths, at most 2000, for the counts listed. *)
ReviewPart(reviews) ==
  CASE reviews >= 99 -> 2000
    [] reviews = 98 -> 1996 [] reviews = 89 -> 1954 [] reviews = 87 -> 1944
    [] reviews = 78 -> 1898 [] reviews = 67 -> 1833 [] reviews = 54 -> 1740
    [] reviews = 45 -> 1663

reputacionScore(n) == Rounded(160 * n.rating + ReviewPart(n.reviews), 100)

Factor == {"geo", "verificado", "acepta_saldo", "recencia", "reputacion"}

FACTOR_PESOS ==
  [geo |-> 35, verificado |-> 25, acepta_saldo |-> 15, recencia |-> 15, reputacion |-> 10]

(* In sixths. *)
Score(n, t) ==
  [geo |-> 6 * geoScore(n, t), verificado |-> 6 * verificadoScore(n, t),
   acepta_saldo |-> 6 * aceptaSaldoScore(n), recencia |-> recenciaScore(n),
   reputacion |-> 6 * reputacionScore(n)]

(* mutant: the weight of the line above or below *)
ContribucionOfNeighbour(n, t, f) ==
  LET swapped == [FACTOR_PESOS EXCEPT !.verificado = 15, !.acepta_saldo = 25]
  IN Rounded(swapped[f] * Score(n, t)[f], 600)

Contribucion(n, t, f) == Rounded(FACTOR_PESOS[f] * Score(n, t)[f], 600)

ScoreTotal(n, t) == SumOf([f \in Factor |-> Contribucion(n, t, f)], Factor)

----
Chosen == Traces[trace]

Candidates(t) == DOMAIN t.listing

(* distanceKm of buildTrace; the short engine has none. *)
Distances(t, i) ==
  IF ~t.deep THEN {0}
  ELSE IF t.listing[i].ciudad = t.user THEN 2 .. 13 ELSE 25 .. 104

Radio(t) == IF t.radio = 0 THEN 50 ELSE t.radio

(* The ends of an interval, at either side of any radius that divides it. *)
SideOf(t, i) ==
  Distances(t, i) \cap {0, 2, 13, 25, 104}

EnRadio(t) == {i \in DOMAIN distances : distances[i] <= Radio(t)}

AboveListed(t, i, j) == i < j     \* mutant: cut before it is sorted

(* The sort is stable: an equal score keeps the order of the listing. *)
Above(t, i, j) ==
  LET a == ScoreTotal(t.listing[i], t)
      b == ScoreTotal(t.listing[j], t) IN a > b \/ (a = b /\ i < j)

PlaceOf(t, pool, i) == 1 + Cardinality({j \in pool : Above(t, j, i)})

Best(t, pool) ==
  [p \in 1 .. Min({limit, Cardinality(pool)}) |-> CHOOSE i \in pool : PlaceOf(t, pool, i) = p]

TypeOK ==
  /\ trace \in DOMAIN Traces
  /\ Len(distances) <= Len(Chosen.listing)
  /\ \A i \in DOMAIN distances : distances[i] \in Distances(Chosen, i)
  /\ ranking \in Seq(Candidates(Chosen)) /\ Len(ranking) <= limit

Init ==
  /\ trace \in DOMAIN Traces
  /\ distances = <<>> /\ ranking = <<>>

Draw(d) ==
  /\ Len(distances) < Len(Chosen.listing)
  /\ d \in SideOf(Chosen, Len(distances) + 1)
  /\ distances' = Append(distances, d)
  /\ UNCHANGED <<trace, ranking>>

Rank ==
  /\ Len(distances) = Len(Chosen.listing) /\ ranking = <<>>
  /\ ranking' = Best(Chosen, EnRadio(Chosen))
  /\ UNCHANGED <<trace, distances>>

Next == Rank \/ \E d \in 0 .. 104 : Draw(d)

Spec == Init /\ [][Next]_vars

----
Shown(p) == Chosen.listing[ranking[p]]

(* The weighted sum without rounding, in sixths of a hundredth. *)
Exact(n) == SumOf([f \in Factor |-> FACTOR_PESOS[f] * Score(n, Chosen)[f]], Factor)

(***************************************************************************)
(* Rounding each contribution (algorithm.ts:201-205) costs a total of 2.5  *)
(* points at most, so that it never turns around two businesses five       *)
(* points apart.                                                           *)
(***************************************************************************)
RoundingKeepsOrder ==
  \A p, q \in DOMAIN ranking : p < q => Exact(Shown(p)) + 3000 > Exact(Shown(q))

(* Whether a is as near, as verified, and so on, as b. *)
NoWorse(a, b) ==
  /\ geoScore(a, Chosen) >= geoScore(b, Chosen)
  /\ b.verificado => a.verificado
  /\ b.saldo => a.saldo
  /\ a.rating >= b.rating /\ a.reviews >= b.reviews
  /\ recenciaScore(a) >= recenciaScore(b)

(***************************************************************************)
(* Of those in the radius, one who is no worse in every factor is behind   *)
(* another, or left out for it, only where their rounded totals tie and it *)
(* is listed later: the list is cut after it is sorted                     *)
(* (algorithm.ts:263), and the sort is stable.                             *)
(***************************************************************************)
BetterIsBehindOnATieOnly ==
  \A p \in DOMAIN ranking, i \in EnRadio(Chosen) :
    LET better == Chosen.listing[i] IN
    NoWorse(better, Shown(p)) /\ (\A q \in 1 .. p : ranking[q] # i) =>
      ScoreTotal(better, Chosen) = ScoreTotal(Shown(p), Chosen) /\ ranking[p] < i
====
