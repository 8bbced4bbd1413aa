----------------------------- MODULE MCComponents -----------------------------
(* Components with a small instance of each.                                  *)
EXTENDS Components

CONSTANTS adm, usr, ip1

MCOpen == <<adm, usr>>
MCWrongLogins == <<[name |-> usr, ip |-> ip1, at |-> 0, reason |-> "wrong_password"]>>

\* pb: low is good, and counts if positive; sy: may be missing; roic.
MCLines ==
  {[pb |-> 0, sy |-> 1, roic |-> 1], [pb |-> 1, sy |-> 1, roic |-> 1], [pb |-> 2, sy |-> 1, roic |-> 1],
   [pb |-> 0, sy |-> Missing, roic |-> 1], [pb |-> 1, sy |-> 1, roic |-> 2]}
MCOrders == {<<1, 2, 3>>, <<3, 2, 1>>}

\* Two indices of one title each; a title that has left DAX for MDAX, and one without ISIN.
MCExpected == [DAX |-> 1, MDAX |-> 1]
MCCsv ==
  <<[symbol |-> "a", index |-> "DAX", isin |-> 1], [symbol |-> "b", index |-> "MDAX", isin |-> NoIsin],
    [symbol |-> "a", index |-> "MDAX", isin |-> 1]>>

\* A full statement, and one for each number that is missing, zero or negative.
MCNumbers ==
  {"ebit", "ebitda", "operating", "gross", "pretax", "tax", "assets", "equity", "debt", "cash", "fcf", "cashflow",
   "capex", "buybacks"}
MCStatement ==
  [ebit |-> <<4, 1>>, ebitda |-> <<6, 1>>, operating |-> <<3, 1>>, gross |-> <<5, 1>>, pretax |-> <<3, 1>>,
   tax |-> <<1, 1>>, assets |-> <<9, 1>>, equity |-> <<5, 1>>, debt |-> <<2, 1>>, cash |-> <<1, 1>>,
   fcf |-> <<2, 1>>, cashflow |-> <<3, 1>>, capex |-> <<-1, 1>>, buybacks |-> <<-1, 1>>,
   revenue |-> <<<<8, 1>>, <<7, 1>>, <<6, 1>>, <<6, 1>>, <<5, 1>>>>,
   income |-> <<<<2, 1>>, <<1, 1>>, <<-1, 1>>, <<1, 1>>>>,
   eps |-> <<<<2, 1>>, <<2, 1>>, <<1, 1>>, <<1, 1>>>>]
MCHistories ==
  {<<>>, <<Unknown, <<1, 1>>, <<2, 1>>, <<2, 1>>, <<3, 1>>>>, <<<<-1, 1>>, <<1, 1>>, <<2, 1>>, Unknown, <<3, 1>>>>}
MCStatements ==
  {MCStatement}
    \cup {[MCStatement EXCEPT ![f] = x] : f \in MCNumbers, x \in {Unknown, Zero, <<-2, 1>>}}
    \cup {[MCStatement EXCEPT !.income = s, !.revenue = s, !.eps = s] : s \in MCHistories}
MCMarkets ==
  {[cap |-> <<7, 1>>, value |-> <<8, 1>>, pe |-> <<9, 1>>, pb |-> <<1, 1>>, dividend |-> <<1, 9>>],
   [cap |-> Unknown, value |-> Unknown, pe |-> Unknown, pb |-> Unknown, dividend |-> Unknown]}
MCRates == {Unknown, Unity, <<3, 2>>}
MCTaxRate == <<1, 4>>

\* Every table that a migration makes.
MCWatched == UNION {Migrations[k].makes : k \in 1..Len(Migrations)}

\* VIEW: what tells two states apart.  The others are as they start, in one way for
\* each part (StartOfOthers), so part and the moving component determine the state.
Moving ==
  <<part, faults,
    CASE part = "outbox" -> outboxState [] part = "realtime" -> realtimeState
      [] part = "readmodel" -> readModelState [] part = "profiles" -> profilesVars
      [] part = "identity" -> identityVars [] part = "versions" -> versionsState
      [] part = "batch" -> batchState [] part = "rules" -> rulesVars
      [] part = "yahoo" -> yahooVars [] part = "universe" -> universeVars
      [] part = "figures" -> figuresVars [] part = "schema" -> schemaVars>>
================================================================================
