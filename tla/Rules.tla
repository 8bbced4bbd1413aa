-------------------------------- MODULE Rules ---------------------------------
(***************************************************************************)
(* The scoring of a table of titles: the ranking that the web-api shows of *)
(* a run.  The next run scores another table, or the same one again: a    *)
(* fetch that is used again and the preview read it from the database.     *)
(*                                                                         *)
(*   services/scoring/src/va_scoring/domain/scoring.py                     *)
(*   services/scoring/src/va_scoring/entrypoints/rpc.py  (preview_basis)   *)
(*                                                                         *)
(* Titles are numbers, ascending as their symbols do.  A figure is a small *)
(* integer or missing (NaN and infinity alike).  Shares of one are counted *)
(* in parts of Whole, a number all divisions here go into.                 *)
(***************************************************************************)
EXTENDS Integers, Sequences, FiniteSets, Sums

CONSTANTS NumStocks,
          ValueFactor, QualityFactor,  \* the factors of each group
          Low,                         \* those of which a low figure is good
          Lines,                       \* what is known of a title: a figure for each factor, or Missing
          Missing,
          ValueWeight, QualityWeight,
          MinCount,                    \* min_factor_count; the shares are one half
          ValueTrap, QualityTrap,      \* thresholds of the value trap
          Whole,
          Orders                       \* in which a table may come

Factor == ValueFactor \cup QualityFactor
Stock == 1..NumStocks

ASSUME RulesAssumption ==
  /\ NumStocks \in Nat \ {0} /\ Orders \subseteq [Stock -> Stock]
  /\ \A s \in Orders : {s[i] : i \in Stock} = Stock
  /\ IsFiniteSet(Factor) /\ ValueFactor \cap QualityFactor = {} /\ Low \subseteq Factor
  /\ Missing \notin Int /\ \A l \in Lines, f \in Factor : l[f] \in Int \cup {Missing}
  /\ {ValueWeight, QualityWeight, ValueTrap, QualityTrap} \subseteq Nat /\ {MinCount, Whole} \subseteq Nat \ {0}
  /\ \A n \in Stock, k \in 1..Cardinality(Factor) : Whole % (2 * n * k) = 0

VARIABLES
  figure,    \* the stored figures of the titles
  large,     \* the titles with market_cap >= min_market_cap
  order,     \* the order in which the table comes: of the universe or of the database
  ranking    \* the scored titles in the order of rank_overall

rulesVars == <<figure, large, order, ranking>>

------------------------------------------------------------------------------
(* score(), of a table.                                                      *)

Table == [figure |-> figure, large |-> large, order |-> order]

\* _percentile_rank: which figures are ranked.  A multiple that is not positive
\* is a loss and no bargain (drop_negative_value_metrics).
Ranked(df, f) ==
  {t \in df.large : df.figure[t][f] # Missing /\ (f \in Low \cap ValueFactor => df.figure[t][f] > 0)}

\* The average place among equal figures as a share of all; low is good.
Percentile(df, t, f) ==
  LET among == Ranked(df, f)
      less == {u \in among : df.figure[u][f] < df.figure[t][f]}
      equal == {u \in among : df.figure[u][f] = df.figure[t][f]}
      share == (2 * Cardinality(less) + Cardinality(equal) + 1) * (Whole \div (2 * Cardinality(among))) IN
    IF f \in Low THEN Whole - share ELSE share

Larger(a, b) == IF a > b THEN a ELSE b

\* _composite_mean: of the factors there are, if they are enough.  Sets of at most
\* one number stand for a number or NaN.
MeanOf(df, t, group) ==
  LET there == {f \in group : t \in Ranked(df, f)}
      required == Larger(MinCount, (Cardinality(group) + 1) \div 2) IN
    IF Cardinality(there) < required THEN {}
    ELSE {SumAt([f \in there |-> Percentile(df, t, f)], there) \div Cardinality(there)}

\* The composite only of both scores; for the trap no value is none, no quality all.
Line(df, t) ==
  LET values == MeanOf(df, t, ValueFactor)  qualities == MeanOf(df, t, QualityFactor) IN
    [title |-> t,
     composite |-> {ValueWeight * v + QualityWeight * q : v \in values, q \in qualities},
     trap |-> /\ (IF values = {} THEN 0 ELSE Only(values)) >= ValueTrap
              /\ (IF qualities = {} THEN Whole ELSE Only(qualities)) <= QualityTrap]

------------------------------------------------------------------------------
(* The order.                                                                *)

Higher(k, l) ==
  \/ l.composite = {} /\ k.composite # {}
  \/ k.composite # {} /\ l.composite # {} /\ Only(k.composite) > Only(l.composite)

\* sort_values: composite descending, without one last, then by symbol.
Ahead(k, l) == Higher(k, l) \/ (k.composite = l.composite /\ k.title < l.title)

Score_Stable(df) ==
  LET line == [t \in df.large |-> Line(df, t)]
      at(t) == CHOOSE i \in Stock : df.order[i] = t
      before(t) == {u \in df.large : \/ Higher(line[u], line[t])
                                     \/ line[u].composite = line[t].composite /\ at(u) < at(t)} IN
    [i \in 1..Cardinality(df.large) |-> line[CHOOSE t \in df.large : Cardinality(before(t)) = i - 1]]

\* The scored lines, in the order of rank_overall.
Score(df) ==
  LET line == [t \in df.large |-> Line(df, t)]
      before(t) == {u \in df.large : Ahead(line[u], line[t])} IN
    [i \in 1..Cardinality(df.large) |-> line[CHOOSE t \in df.large : Cardinality(before(t)) = i - 1]]

------------------------------------------------------------------------------
RulesInit ==
  /\ figure \in [Stock -> Lines]
  /\ large \in SUBSET Stock
  /\ order \in Orders
  /\ ranking = Score(Table)

\* The next run finds another figure.
NewFigure(t, f) ==
  /\ \E l \in Lines : /\ \A g \in Factor : l[g] # figure[t][g] <=> g = f
                      /\ figure' = [figure EXCEPT ![t] = l]
  /\ UNCHANGED <<large, order>>
  /\ ranking' = Score(Table')

\* A title gets large enough, or too small.
NewSize(t) ==
  /\ large' \in {large \cup {t}, large \ {t}}
  /\ UNCHANGED <<figure, order>>
  /\ ranking' = Score(Table')

\* The same table in another order, with the same profile.
ScoreAgain ==
  /\ order' \in Orders
  /\ UNCHANGED <<figure, large>>
  /\ ranking' = Score(Table')

RulesNext == (\E t \in Stock : NewSize(t) \/ \E f \in Factor : NewFigure(t, f)) \/ ScoreAgain

RulesSpec == RulesInit /\ [][RulesNext]_rulesVars

------------------------------------------------------------------------------
(* Properties.                                                               *)

RulesTypeOK ==
  /\ figure \in [Stock -> Lines]
  /\ large \subseteq Stock /\ order \in Orders
  /\ {ranking[i].title : i \in DOMAIN ranking} = large /\ Len(ranking) = Cardinality(large)
  /\ 0 < ValueTrap /\ QualityTrap < Whole => \A i \in DOMAIN ranking : ranking[i].trap => ranking[i].composite # {}

PlaceOf(r, t) == CHOOSE i \in DOMAIN r : r[i].title = t
\* Better than before, and ranked before and after.
Improved(t, f, old, new) ==
  /\ \A x \in {old[t][f], new[t][f]} : x # Missing /\ (f \in Low \cap ValueFactor => x > 0)
  /\ IF f \in Low THEN new[t][f] < old[t][f] ELSE new[t][f] > old[t][f]

Counts(f) == IF f \in ValueFactor THEN ValueWeight > 0 ELSE QualityWeight > 0

\* Of two titles with the same figures there, the one that is nowhere worse and
\* somewhere better, in a group that counts, is ahead.
BetterIsAhead ==
  \A t, u \in large :
    LET of == {f \in Factor : t \in Ranked(Table, f)}
        atLeast(f) == IF f \in Low THEN figure[t][f] <= figure[u][f] ELSE figure[t][f] >= figure[u][f] IN
      /\ of = {f \in Factor : u \in Ranked(Table, f)} /\ (\A f \in of : atLeast(f))
      /\ ranking[PlaceOf(ranking, t)].composite # {} /\ \E f \in of : figure[t][f] # figure[u][f] /\ Counts(f)
      => PlaceOf(ranking, t) < PlaceOf(ranking, u)

\* scoring.py: the rank must not depend on the order of the input (fetch: universe,
\* used again: database).  Nor on titles that are too small, though they are in the
\* table; and no title falls behind because one of its figures got better;
\* nor is any behind one that is nowhere better.
RankingIsFair ==
  /\ []BetterIsAhead
  /\ [][/\ figure' = figure /\ large' = large => ranking' = ranking
        /\ \A t \in Stock, f \in Factor : figure'[t][f] # figure[t][f] =>
             /\ t \notin large => ranking' = ranking
             /\ t \in large /\ Improved(t, f, figure, figure') => PlaceOf(ranking', t) <= PlaceOf(ranking, t)
       ]_rulesVars
==============================================================================
