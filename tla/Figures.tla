------------------------------- MODULE Figures --------------------------------
(***************************************************************************)
(* The figures of a title, from its statements in the reporting currency   *)
(* and market data in the trading currency.                                *)
(*                                                                         *)
(*   market-data: domain/metrics.py, adapters/yahoo.py (fetch_one)         *)
(*                                                                         *)
(* Numbers are fractions of small integers; floats' rounding and overflow  *)
(* are left out.  Where the code takes a root, the figure here is what the *)
(* root is taken of.                                                       *)
(***************************************************************************)
EXTENDS Integers, Sequences, FiniteSets, Places

CONSTANTS Statements,      \* annual statements, each a record of the fields below
          Markets,         \* what Yahoo says of the market
          Rates,           \* currency rates, Unknown among them
          Units,           \* bound: of the other currencies to report in
          DefaultTaxRate

Unknown == <<>>    \* None
Fraction == Int \X (Nat \ {0})
Figure == Fraction \cup {Unknown}
Histories == {"revenue", "income", "eps"}
Balances == {"ebit", "ebitda", "operating", "gross", "pretax", "tax", "assets", "equity", "debt", "cash", "fcf",
             "cashflow", "capex", "buybacks"}

ASSUME FiguresAssumption ==
  /\ \A s \in Statements : /\ DOMAIN s = Histories \cup Balances
                           /\ \A field \in Histories : s[field] \in Seq(Figure)
                           /\ \A field \in Balances : s[field] \in Figure
  /\ Markets \subseteq [cap : Figure, value : Figure, pe : Figure, pb : Figure, dividend : Figure]
  /\ Rates \subseteq Figure /\ Units \subseteq Nat \ {0} /\ DefaultTaxRate \in Fraction

VARIABLES
  statement, market,
  rate,               \* into the trading currency
  unit                \* the currency the statement is reported in: so many are one of the first

figuresVars == <<statement, market, rate, unit>>

Unity == <<1, 1>>
Zero == <<0, 1>>

Some(x) == x # Unknown
Above(x, y) == x[1] * y[2] > y[1] * x[2]
Plus(x, y) == <<x[1] * y[2] + y[1] * x[2], x[2] * y[2]>>
Times(x, y) == <<x[1] * y[1], x[2] * y[2]>>
Subtract(x, y) == Plus(x, Times(<<-1, 1>>, y))
Least(x, y) == IF Above(x, y) THEN y ELSE x

\* safe_div
Div(x, y) ==
  IF ~Some(x) \/ ~Some(y) \/ y[1] = 0 THEN Unknown
  ELSE IF y[1] > 0 THEN <<x[1] * y[2], x[2] * y[1]>> ELSE <<-x[1] * y[2], -x[2] * y[1]>>

Margin(x, y) == IF Some(x) /\ Some(y) THEN Subtract(x, y) ELSE Unknown

------------------------------------------------------------------------------
(* Series, the latest year first.                                            *)

HistoryYears == 5
MinHistory == 4

\* _latest
LatestKnown(series) ==
  LET known == {i \in DOMAIN series : Some(series[i])}
  IN IF known = {} THEN Unknown ELSE series[CHOOSE i \in known : \A j \in known : i <= j]

\* _recent: empty if too few years are known.
Recent(series) ==
  LET known == {i \in DOMAIN series : i <= HistoryYears /\ Some(series[i])}
  IN IF Cardinality(known) < MinHistory THEN <<>> ELSE AtPlaces(series, known)

\* _growth, cagr: the ratio the root of so many years is taken of.
Growth(series) ==
  LET years == Recent(series)
      ratio == IF years = <<>> THEN Unknown ELSE Div(years[1], years[Len(years)])
  IN IF Some(ratio) /\ ratio[1] > 0 THEN <<ratio[1], ratio[2], Len(years) - 1>> ELSE Unknown

Abs(x) == IF x[1] < 0 THEN <<-x[1], x[2]>> ELSE x
Total(seq) == LET sum[i \in 0..Len(seq)] == IF i = 0 THEN Zero ELSE Plus(sum[i - 1], seq[i]) IN sum[Len(seq)]

\* earnings_stability: the square of the variation that is taken from one.
Stability(series) ==
  LET years == Recent(series)
      sum == Total(years)
      spread == Subtract(Times(<<Len(years), 1>>,
        Total([i \in DOMAIN years |-> Times(years[i], years[i])])), Times(sum, sum))
      size == Total([i \in DOMAIN years |-> Abs(years[i])])
  IN IF years = <<>> \/ size[1] = 0 THEN Unknown ELSE Least(Div(spread, Times(size, size)), Unity)

------------------------------------------------------------------------------
(* compute_metrics                                                           *)

ToTrading_OneIfUnknown(x, fxRate) == IF Some(x) THEN (IF Some(fxRate) THEN Times(x, fxRate) ELSE x) ELSE Unknown
ToTrading(x, fxRate) == IF Some(x) /\ Some(fxRate) THEN Times(x, fxRate) ELSE Unknown

SameCurrency(fxRate) == Some(fxRate) /\ fxRate[1] = fxRate[2]

MaxTaxRate == <<3, 5>>
TaxRate(s) ==
  IF Some(s.pretax) /\ s.pretax[1] > 0 /\ Some(s.tax) /\ s.tax[1] >= 0
  THEN Least(MaxTaxRate, Div(s.tax, s.pretax)) ELSE DefaultTaxRate

Roic(s) ==
  IF ~Some(s.ebit) \/ ~Some(s.equity) THEN Unknown
  ELSE Div(Times(s.ebit, Subtract(Unity, TaxRate(s))),
           Plus(s.equity, IF Some(s.debt) THEN s.debt ELSE Zero))

Fcf(s) ==
  IF Some(s.fcf) THEN s.fcf
  ELSE IF Some(s.cashflow) /\ Some(s.capex) THEN Plus(s.cashflow, s.capex) ELSE Unknown

\* Yahoo's own only if it does not mix currencies.
EnterpriseValue(s, fxRate) ==
  LET debt == ToTrading(s.debt, fxRate) cash == ToTrading(s.cash, fxRate) IN
    IF SameCurrency(fxRate) THEN market.value
    ELSE IF Some(market.cap) /\ Some(debt) /\ Some(cash) THEN Subtract(Plus(market.cap, debt), cash) ELSE Unknown

PeRatio(s, fxRate) ==
  LET income == ToTrading(LatestKnown(s.income), fxRate) IN
    IF SameCurrency(fxRate) THEN market.pe
    ELSE IF Some(income) /\ income[1] > 0 THEN Div(market.cap, income) ELSE Unknown

PbRatio(s, fxRate) ==
  IF SameCurrency(fxRate) /\ Some(market.pb) /\ market.pb[1] # 0 THEN market.pb
  ELSE Div(market.cap, ToTrading(s.equity, fxRate))

BuybackYield(s, fxRate) ==
  LET buybacks == ToTrading(s.buybacks, fxRate) IN
    IF Some(buybacks) THEN Div(Abs(buybacks), market.cap) ELSE Unknown

\* 0 % is a value: unknown only if both are.
ShareholderYield(s, fxRate) ==
  LET buyback == BuybackYield(s, fxRate) IN
    IF ~Some(market.dividend) THEN buyback
    ELSE IF Some(buyback) THEN Plus(market.dividend, buyback) ELSE market.dividend

Metrics(s, fxRate) ==
  [enterprise_value |-> EnterpriseValue(s, fxRate),
   ev_ebit |-> Div(EnterpriseValue(s, fxRate), ToTrading(s.ebit, fxRate)),
   pe_ratio |-> PeRatio(s, fxRate), pb_ratio |-> PbRatio(s, fxRate),
   p_fcf |-> Div(market.cap, ToTrading(Fcf(s), fxRate)),
   dividend_yield |-> market.dividend, buyback_yield |-> BuybackYield(s, fxRate),
   shareholder_yield |-> ShareholderYield(s, fxRate),
   roic |-> Roic(s),
   roa |-> Div(LatestKnown(s.income), s.assets),
   fcf_margin |-> Div(Fcf(s), LatestKnown(s.revenue)),
   gross_margin |-> Div(s.gross, LatestKnown(s.revenue)),
   operating_margin |-> Div(s.operating, LatestKnown(s.revenue)),
   net_debt_ebitda |-> Div(Margin(s.debt, s.cash), s.ebitda),
   debt_to_equity |-> Div(s.debt, s.equity),
   earnings_stability |-> Stability(s.income),
   revenue_growth_5y |-> Growth(s.revenue), eps_growth_5y |-> Growth(s.eps)]

------------------------------------------------------------------------------
(* The title as it is fetched: in another currency.                          *)

InUnit(x, k) == IF Some(x) THEN Times(x, <<k, 1>>) ELSE Unknown

Reported(k) ==
  [field \in DOMAIN statement |->
     IF field \in Histories THEN [i \in DOMAIN statement[field] |-> InUnit(statement[field][i], k)]
     ELSE InUnit(statement[field], k)]

\* _statement_fx: one for the same currency, unknown if there is no rate.
FxOf(k) == IF Some(rate) THEN <<rate[1], rate[2] * k>> ELSE Unknown

FiguresInit == statement \in Statements /\ market \in Markets /\ rate \in Rates /\ unit = 1

\* The company goes over to another currency, which is not the trading currency either.
ReportIn(k) ==
  /\ ~SameCurrency(rate) /\ ~SameCurrency(FxOf(k))
  /\ k # unit /\ unit' = k
  /\ UNCHANGED <<statement, market, rate>>

FiguresNext == \E k \in Units : ReportIn(k)

FiguresSpec == FiguresInit /\ [][FiguresNext]_figuresVars

------------------------------------------------------------------------------
(* Properties.                                                               *)

FiguresTypeOK ==
  /\ statement \in Statements /\ market \in Markets /\ rate \in Rates /\ unit \in Units \cup {1}
  /\ unit # 1 => ~SameCurrency(rate) /\ ~SameCurrency(FxOf(unit))

Equal(x, y) ==
  IF x = Unknown \/ y = Unknown THEN x = y
  ELSE /\ x[1] * y[2] = y[1] * x[2]
       /\ Len(x) = Len(y) /\ \A i \in 3..Len(x) : x[i] = y[i]

\* metrics.py: multiples are in the trading currency, quality has no currency.  So
\* the currency a company reports in changes none of its figures, whichever of its
\* data are missing; and without a rate none of them takes a statement against
\* market data.
UnitsDoNotMatter ==
  unit # 1 =>
    LET now == Metrics(Reported(unit), FxOf(unit))
        first == Metrics(Reported(1), FxOf(1))
    IN \A f \in DOMAIN now : Equal(now[f], first[f])
==============================================================================
