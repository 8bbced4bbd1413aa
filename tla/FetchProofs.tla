----------------------------- MODULE FetchProofs ------------------------------
(***************************************************************************)
(* Proofs about the way of a title: what market-data fetches, stores and   *)
(* computes, and how scoring ranks it.                                     *)
(*                                                                         *)
(* Versions, for any number of days and fetches and any overlap of the     *)
(* windows: in whatever order overlapping fetches commit, a series has no  *)
(* gap and its prices have every split that is stored.                     *)
(*                                                                         *)
(* Yahoo, for any number of runs and titles: what is stored as the         *)
(* consensus of a title is what Yahoo has of it.                           *)
(*                                                                         *)
(* Universe, for any titles, any list kept by hand, any expected numbers   *)
(* and any answers: the universe of a run is one source's, and an ISIN     *)
(* that a title has stays its own.                                         *)
(*                                                                         *)
(* Figures, for any statements, market data, rates and units: the currency *)
(* a company reports in changes none of its figures.                       *)
(*                                                                         *)
(* Rules, for any number of titles, any factors and figures, thresholds    *)
(* and weights: the ranking is one of the figures of the titles that are   *)
(* large enough, of nothing else, and fair to them.                        *)
(***************************************************************************)
EXTENDS Versions, Yahoo, Universe, Figures, Rules, NumberLemmas

------------------------------------------------------------------------------
(* Versions.                                                                 *)

On(f) == fetches[f].on

\* The last day the provider has for a fetch of this day.
End(on) == IF series = "price_bar" THEN on - 1 ELSE on

\* The changes that the values of this series have in them.
Changes == IF series = "share_count" THEN {} ELSE changed

\* A row is what the provider had on the day of its fetch.
IsOfItsFetch(r) ==
  /\ r.seen \in FetchId /\ r.day \in 1..End(On(r.seen))
  /\ r.has = {c \in Changes : r.day < c /\ c <= On(r.seen)}
  /\ r.event = (series = "price_bar" /\ r.day \in changed)

\* Up to fetch f, and perhaps as of a later change, day d has a row from day x or later.
Knows(d, f, x) == \E r \in rows : r.day = d /\ r.seen <= f /\ On(r.seen) >= x

\* Day d has a row up to fetch f, and it has all changes up to the day on.
UpTo(d, f, on) == \A x \in Changes \cup {0} : x <= on => Knows(d, f, x)

\* Fetches take place in their order, changes up to today.
DaysInv ==
  /\ \A g, f \in FetchId : g < f /\ On(f) # 0 => On(g) # 0 /\ On(g) <= On(f)
  /\ \A f \in FetchId : On(f) <= today
  /\ \A c \in changed : c <= today
  /\ \A f \in FetchId : On(f) = 0 <=> fetches[f].step \in {"none", "known"}

\* All days of a stored fetch are stored and have at least its changes; those before
\* its rows also when only fetches up to this one count.
TableInv ==
  \A r \in rows :
    /\ IsOfItsFetch(r) /\ fetches[r.seen].step = "over"
    /\ \A d \in 1..End(On(r.seen)) : UpTo(d, MaxFetches, On(r.seen))
    /\ \A d \in 1..(r.day - 1) : UpTo(d, r.seen, On(r.seen))

\* What a fetch has read: the days up to the last one are stored with all changes up
\* to it, and the splits it knows of are among them.
KnownInv(f) == fetches[f].step = "known" =>
  /\ fetches[f].last <= today /\ fetches[f].events \subseteq 1..fetches[f].last
  /\ \A d \in 1..fetches[f].last : UpTo(d, f, fetches[f].last)

InFrame(f, d) == \E r \in fetches[f].frame : r.day = d

FrameInv(f) == fetches[f].step \in {"loaded", "compared"} =>
  \A r \in fetches[f].frame : IsOfItsFetch(r) /\ r.seen = f

\* What it has loaded makes the series complete.
LoadedInv(f) == fetches[f].step = "loaded" =>
  \A d \in 1..End(On(f)) : InFrame(f, d) \/ UpTo(d, f, On(f))

\* What the comparison has left does so too, and each row of it has the days before it.
ComparedInv(f) == fetches[f].step = "compared" =>
  /\ \A d \in 1..End(On(f)) : InFrame(f, d) \/ UpTo(d, MaxFetches, On(f))
  /\ \A r \in fetches[f].frame : \A d \in 1..(r.day - 1) : InFrame(f, d) \/ UpTo(d, f, On(f))

FetchInv(f) == KnownInv(f) /\ FrameInv(f) /\ LoadedInv(f) /\ ComparedInv(f)

\* The inductive invariant.
VersionsInv == VersionsTypeOK /\ DaysInv /\ TableInv /\ \A f \in FetchId : FetchInv(f)
------------------------------------------------------------------------------
(* Days, fetches and rows.                                                  *)

\* The greater of two numbers, and the last stored day.
LEMMA Greater ==
  ASSUME NEW a \in Nat, NEW b \in Nat
  PROVE  Max({a, b}) \in {a, b} /\ Max({a, b}) >= a /\ Max({a, b}) >= b
<1>1. \E x \in {a, b} : \A y \in {a, b} : x >= y
  <2>1. CASE a >= b
    BY <2>1
  <2>2. CASE ~(a >= b)
    BY <2>2
  <2> QED BY <2>1, <2>2
<1> QED BY <1>1 DEF Max

\* The rows and frames have days and fetches, and days are numbers.
LEMMA Numbers ==
  ASSUME VersionsTypeOK
  PROVE  /\ MaxDay \in Nat /\ MaxFetches \in Nat /\ Overlap \in Nat /\ today \in Nat
         /\ \A f \in FetchId : f \in Nat /\ f <= MaxFetches /\ On(f) \in Nat
         /\ \A r \in rows : r.day \in Day /\ r.day \in Nat /\ r.seen \in FetchId
         /\ \A x \in changed : x \in Nat
         /\ \A f \in FetchId : \A r \in fetches[f].frame : r.day \in Day /\ r.day \in Nat /\ r.seen \in FetchId
         /\ \A f \in FetchId : fetches[f].last \in Nat
<1>1. MaxDay \in Nat /\ MaxFetches \in Nat /\ Overlap \in Nat
  BY VersionsAssumption
<1>2. \A r \in TableRow : r.day \in Day /\ r.day \in Nat /\ r.seen \in FetchId
  BY DEF TableRow, Day
<1>3. \A f \in FetchId : fetches[f] \in FetchState
  BY DEF VersionsTypeOK
<1>4. \A s \in FetchState : s.on \in Nat /\ s.last \in Nat /\ s.frame \subseteq TableRow
  BY <1>1 DEF FetchState
<1> QED BY <1>1, <1>2, <1>3, <1>4 DEF VersionsTypeOK, On, FetchId, Day

\* The last stored day is stored, or nothing is.
LEMMA LastStored ==
  ASSUME VersionsTypeOK
  PROVE  /\ LastDay \in 0..MaxDay /\ \A r \in rows : r.day <= LastDay
         /\ LastDay # 0 => \E r \in rows : r.day = LastDay
<1> DEFINE S == {0} \cup Stored
<1>1. S \in SUBSET Nat /\ S # {} /\ MaxDay \in Nat /\ \A k \in S : k <= MaxDay
  BY Numbers DEF Stored, Day
<1>2. \E m \in S : \A k \in S : k <= m
  BY <1>1, GreatestNumber
<1>3. \E m \in S : \A k \in S : m >= k
  BY <1>1, <1>2
<1>4. Max(S) \in S /\ \A k \in S : Max(S) >= k
  BY <1>3 DEF Max
<1>5. LastDay \in S /\ \A k \in S : LastDay >= k
  BY <1>4 DEF LastDay
<1>6. LastDay \in Nat /\ LastDay <= MaxDay
  BY <1>1, <1>5
<1>7. \A r \in rows : r.day <= LastDay
  BY <1>1, <1>5, <1>6, Numbers DEF Stored
<1>8. LastDay # 0 => \E r \in rows : r.day = LastDay
  BY <1>5 DEF Stored
<1> QED BY <1>1, <1>6, <1>7, <1>8

\* DISTINCT ON finds a row of the day, the latest.
LEMMA LatestRow ==
  ASSUME VersionsTypeOK, NEW S, S \subseteq rows, NEW d, \E r \in S : r.day = d
  PROVE  /\ LatestOf(S, d) \in S /\ LatestOf(S, d).day = d
         /\ \A q \in S : q.day = d => q.seen <= LatestOf(S, d).seen
<1> DEFINE T == {r.seen : r \in {q \in S : q.day = d}}
<1>1. T \in SUBSET Nat /\ T # {} /\ MaxFetches \in Nat /\ \A k \in T : k <= MaxFetches
  BY Numbers
<1>2. PICK m \in T : \A k \in T : k <= m
  BY <1>1, GreatestNumber
<1>3. \E r \in S : r.day = d /\ \A q \in S : q.day = d => q.seen <= r.seen
  BY <1>2
<1> QED BY <1>3 DEF LatestOf

\* A fetch with rows has loaded on a day from theirs on; a later fetch has loaded on that
\* day or later.
LEMMA LoadedDays ==
  ASSUME VersionsTypeOK, DaysInv
  PROVE  /\ \A r : IsOfItsFetch(r) =>
              On(r.seen) # 0 /\ r.day <= On(r.seen) /\ On(r.seen) <= today
         /\ \A g, f \in FetchId : g <= f /\ On(f) # 0 => On(g) # 0 /\ On(g) <= On(f)
         /\ \A f \in FetchId : End(On(f)) <= On(f) /\ \A d \in 1..End(On(f)) : d \in Nat /\ d <= On(f)
<1>1. \A f \in FetchId : End(On(f)) <= On(f) /\ \A d \in 1..End(On(f)) : d \in Nat /\ d <= On(f)
  BY Numbers DEF End
<1>2. \A r : IsOfItsFetch(r) =>
        On(r.seen) # 0 /\ r.day <= On(r.seen) /\ On(r.seen) <= today
  BY <1>1, Numbers DEF IsOfItsFetch, DaysInv
<1>3. \A g, f \in FetchId : g <= f /\ On(f) # 0 => On(g) # 0 /\ On(g) <= On(f)
  BY Numbers DEF DaysInv
<1> QED BY <1>1, <1>2, <1>3
------------------------------------------------------------------------------
(* What stays as time goes on.                                              *)

\* Rows are only added, days and changes only come after those there are, and a
\* fetch that has loaded keeps its day.
DaysGoOn ==
  /\ series' = series /\ rows \subseteq rows' /\ today' \in Nat /\ today <= today'
  /\ changed \subseteq changed' /\ \A x \in changed' : x \in Nat /\ (x \in changed \/ x > today)
  /\ \A f \in FetchId : On(f) # 0 => fetches'[f].on = On(f)

\* A day that is up to date stays so.
LEMMA StaysUpTo ==
  ASSUME VersionsTypeOK, DaysInv, TableInv, DaysGoOn, NEW d, NEW f, NEW on \in Nat, on <= today, UpTo(d, f, on)
  PROVE  UpTo(d, f, on)'
<1> SUFFICES ASSUME NEW x \in Changes' \cup {0}, x <= on PROVE Knows(d, f, x)'
  BY DEF UpTo
<1>1. x \in Changes \cup {0}
  BY Numbers DEF DaysGoOn, Changes
<1>2. PICK r \in rows : r.day = d /\ r.seen <= f /\ On(r.seen) >= x
  BY <1>1 DEF UpTo, Knows
<1>3. r.seen \in FetchId /\ On(r.seen) # 0
  BY LoadedDays DEF TableInv, IsOfItsFetch
<1>4. r \in rows' /\ fetches'[r.seen].on >= x
  BY <1>2, <1>3 DEF DaysGoOn
<1> QED BY <1>2, <1>4 DEF Knows, On

\* A row stays what the provider had.
LEMMA StaysOfItsFetch ==
  ASSUME VersionsTypeOK, DaysInv, DaysGoOn, NEW r, IsOfItsFetch(r)
  PROVE  IsOfItsFetch(r)'
<1>1. r.seen \in FetchId /\ On(r.seen) # 0 /\ r.day <= On(r.seen) /\ On(r.seen) <= today
      /\ r.day \in Nat /\ On(r.seen) \in Nat /\ today \in Nat
  BY LoadedDays, Numbers DEF IsOfItsFetch
<1>2. fetches'[r.seen].on = On(r.seen) /\ series' = series
  BY <1>1 DEF DaysGoOn
<1>3. r.day \in changed' <=> r.day \in changed
  BY <1>1 DEF DaysGoOn
<1>4. \A c : c <= On(r.seen) => (c \in Changes' <=> c \in Changes)
  BY <1>1, Numbers DEF DaysGoOn, Changes
<1>5. r.has = {c \in Changes' : r.day < c /\ c <= On(r.seen)}
  BY <1>4 DEF IsOfItsFetch
<1> QED BY <1>2, <1>3, <1>5 DEF IsOfItsFetch, On, End

\* A fetch that is not at work keeps what it has.
LEMMA StaysFetch ==
  ASSUME VersionsTypeOK, DaysInv, TableInv, DaysGoOn, NEW f \in FetchId, fetches'[f] = fetches[f], FetchInv(f)
  PROVE  FetchInv(f)'
<1>1. On(f)' = On(f) /\ On(f) \in Nat /\ On(f) <= today /\ series' = series /\ End(On(f))' = End(On(f))
  BY Numbers DEF On, DaysInv, DaysGoOn, End
<1>2. KnownInv(f)'
  <2> SUFFICES ASSUME fetches[f].step = "known"
               PROVE  /\ fetches[f].last <= today' /\ fetches[f].events \subseteq 1..fetches[f].last
                      /\ \A d \in 1..fetches[f].last : UpTo(d, f, fetches[f].last)'
    BY DEF KnownInv, UpTo, Knows
  <2>1. PICK n \in Nat : n = fetches[f].last
    BY Numbers
  <2>2. n <= today /\ \A d \in 1..n : UpTo(d, f, n)
    BY <2>1 DEF FetchInv, KnownInv
  <2>3. \A d \in 1..n : UpTo(d, f, n)'
    BY <2>2, StaysUpTo
  <2> QED BY <2>1, <2>2, <2>3, Numbers DEF FetchInv, KnownInv, DaysGoOn, UpTo, Knows
<1>3. FrameInv(f)'
  BY StaysOfItsFetch DEF FetchInv, FrameInv
<1>4. PICK on \in Nat : on = On(f)
  BY <1>1
<1>5. \A d, g : UpTo(d, g, on) => UpTo(d, g, on)'
  BY <1>1, <1>4, StaysUpTo
<1>6. LoadedInv(f)'
  <2> SUFFICES ASSUME fetches[f].step = "loaded", NEW d \in 1..End(On(f)) PROVE InFrame(f, d) \/ UpTo(d, f, on)'
    BY <1>1, <1>4 DEF LoadedInv, InFrame, UpTo
  <2> QED BY <1>4, <1>5 DEF FetchInv, LoadedInv
<1>7. ComparedInv(f)'
  <2> SUFFICES ASSUME fetches[f].step = "compared"
               PROVE  /\ \A d \in 1..End(On(f)) : InFrame(f, d) \/ UpTo(d, MaxFetches, on)'
                      /\ \A r \in fetches[f].frame : \A d \in 1..(r.day - 1) : InFrame(f, d) \/ UpTo(d, f, on)'
    BY <1>1, <1>4 DEF ComparedInv, InFrame, UpTo
  <2> QED BY <1>4, <1>5 DEF FetchInv, ComparedInv
<1> QED BY <1>2, <1>3, <1>6, <1>7 DEF FetchInv

\* Rows that are stored keep what they have.
LEMMA StaysStored ==
  ASSUME VersionsTypeOK, DaysInv, TableInv, DaysGoOn, NEW r \in rows,
         fetches[r.seen].step = "over" => fetches'[r.seen].step = "over"
  PROVE  /\ IsOfItsFetch(r)' /\ fetches'[r.seen].step = "over"
         /\ \A d \in 1..End(On(r.seen))' : UpTo(d, MaxFetches, On(r.seen))'
         /\ \A d \in 1..(r.day - 1) : UpTo(d, r.seen, On(r.seen))'
<1>1. /\ IsOfItsFetch(r) /\ fetches[r.seen].step = "over"
      /\ \A d \in 1..End(On(r.seen)) : UpTo(d, MaxFetches, On(r.seen))
      /\ \A d \in 1..(r.day - 1) : UpTo(d, r.seen, On(r.seen))
  BY DEF TableInv
<1>2. r.seen \in FetchId /\ On(r.seen) # 0 /\ On(r.seen) \in Nat /\ On(r.seen) <= today
  BY <1>1, LoadedDays, Numbers
<1>3. PICK on \in Nat : on = On(r.seen)
  BY <1>2
<1>4. fetches'[r.seen].on = on /\ series' = series
  BY <1>2, <1>3 DEF DaysGoOn
<1>5. \A d, g : UpTo(d, g, on) => UpTo(d, g, on)'
  BY <1>2, <1>3, StaysUpTo
<1>6. End(On(r.seen))' = End(On(r.seen)) /\ On(r.seen)' = on
  BY <1>3, <1>4 DEF End, On
<1> QED BY <1>1, <1>3, <1>5, <1>6, StaysOfItsFetch DEF UpTo
------------------------------------------------------------------------------
(* The steps.                                                               *)

\* A step of one fetch that stores nothing keeps the invariant if it keeps its own part.
LEMMA StepOfOne ==
  ASSUME VersionsInv, VersionsTypeOK', DaysInv', DaysGoOn, rows' = rows, NEW f \in FetchId,
         \A g \in FetchId : g # f => fetches'[g] = fetches[g], fetches[f].step # "over", FetchInv(f)'
  PROVE  VersionsInv'
<1>1. VersionsTypeOK /\ DaysInv /\ TableInv /\ \A g \in FetchId : FetchInv(g)
  BY DEF VersionsInv
<1>2. ASSUME NEW g \in FetchId PROVE FetchInv(g)'
  BY <1>1, StaysFetch
<1>3. TableInv'
  <2>1. \A r \in rows : r.seen \in FetchId /\ fetches[r.seen].step = "over"
    BY <1>1, Numbers DEF TableInv
  <2>2. \A r \in rows : fetches'[r.seen].step = "over"
    BY <2>1
  <2> QED BY <1>1, <2>2, StaysStored DEF TableInv
<1> QED BY <1>2, <1>3 DEF VersionsInv

\* A step that moves no day of a fetch keeps the fetches in their order.
LEMMA StaysInOrder ==
  ASSUME DaysInv, UNCHANGED <<today, changed>>, NEW f \in FetchId,
         \A g \in FetchId : fetches'[g].on = On(g),
         \A g \in FetchId : g # f => fetches'[g] = fetches[g],
         fetches'[f].step \in {"none", "known"} <=> fetches[f].step \in {"none", "known"}
  PROVE  DaysInv'
<1>1. \A g \in FetchId : On(g)' = On(g)
  BY DEF On
<1> QED BY <1>1 DEF DaysInv

\* A step that leaves days and rows alone goes on in time.
LEMMA FetchesGoOn ==
  ASSUME VersionsTypeOK, UNCHANGED <<series, today, changed>>, rows \subseteq rows',
         \A g \in FetchId : On(g) # 0 => fetches'[g].on = On(g)
  PROVE  DaysGoOn
<1>1. today' \in Nat /\ today <= today' /\ \A x \in changed : x \in Nat
  BY Numbers
<1>2. changed \subseteq changed' /\ \A x \in changed' : x \in Nat /\ (x \in changed \/ x > today)
  BY <1>1
<1> QED BY <1>1, <1>2 DEF DaysGoOn

\* history_state gives the last stored day and the stored splits.
LEMMA ReadKeeps ==
  ASSUME VersionsInv, NEW f \in FetchId, ReadState(f)
  PROVE  VersionsInv'
<1>1. VersionsTypeOK /\ DaysInv /\ TableInv /\ FetchInv(f)
  BY DEF VersionsInv
<1>2. /\ fetches[f].step = "none" /\ UNCHANGED <<series, today, changed, rows, faults>>
      /\ fetches' = [fetches EXCEPT ![f].step = "known", ![f].last = LastDay, ![f].events = SplitDays]
  BY DEF ReadState
<1>3. /\ fetches'[f].step = "known" /\ fetches'[f].last = LastDay /\ fetches'[f].events = SplitDays
      /\ fetches'[f].on = On(f) /\ \A g \in FetchId : g # f => fetches'[g] = fetches[g]
  BY <1>1, <1>2 DEF VersionsTypeOK, FetchState, On
<1>4. SplitDays \subseteq Day /\ \A d \in SplitDays : d \in 1..LastDay
  BY <1>1, Numbers, LastStored DEF SplitDays, Day
<1>5. VersionsTypeOK'
  <2>1. PICK s \in FetchState : s = fetches[f]
    BY <1>1 DEF VersionsTypeOK
  <2>2. [s EXCEPT !.step = "known", !.last = LastDay, !.events = SplitDays] \in FetchState
    BY <1>1, <1>4, LastStored DEF FetchState
  <2>3. fetches' = [fetches EXCEPT ![f] = [s EXCEPT !.step = "known", !.last = LastDay, !.events = SplitDays]]
    BY <1>1, <1>2, <2>1 DEF VersionsTypeOK, FetchState
  <2>4. fetches' \in [FetchId -> FetchState]
    BY <1>1, <2>2, <2>3 DEF VersionsTypeOK
  <2> QED BY <1>1, <1>2, <2>4 DEF VersionsTypeOK
<1>6. DaysInv'
  <2>1. \A g \in FetchId : fetches'[g].on = On(g)
    BY <1>3 DEF On
  <2> QED BY <1>1, <1>2, <1>3, <2>1, StaysInOrder
<1>7. DaysGoOn
  <2>1. \A g \in FetchId : fetches'[g].on = On(g)
    BY <1>3 DEF On
  <2> QED BY <1>1, <1>2, <2>1, FetchesGoOn
<1>8. LastDay <= today /\ \A d \in 1..LastDay : UpTo(d, f, LastDay)
  <2>1. CASE LastDay = 0
    BY <1>1, <2>1, Numbers
  <2>2. CASE LastDay # 0
    <3>1. PICK r \in rows : r.day = LastDay
      BY <1>1, <2>2, LastStored
    <3>2. /\ IsOfItsFetch(r) /\ LastDay \in Nat /\ LastDay \in 1..End(On(r.seen))
          /\ LastDay <= On(r.seen) /\ On(r.seen) <= today /\ On(r.seen) \in Nat /\ End(On(r.seen)) \in Int
      BY <1>1, <3>1, LoadedDays, Numbers, LastStored DEF TableInv, IsOfItsFetch, End
    <3>3. \A d \in 1..LastDay : UpTo(d, MaxFetches, On(r.seen))
      BY <1>1, <3>2 DEF TableInv
    <3>4. On(f) = 0
      BY <1>1, <1>2 DEF DaysInv
    <3>5. \A q \in rows : q.seen \in FetchId /\ On(q.seen) # 0
      BY <1>1, LoadedDays DEF TableInv, IsOfItsFetch
    <3>6. \A q \in rows : q.seen <= f
      BY <1>1, <3>4, <3>5, LoadedDays, Numbers
    <3>7. \A d, x : Knows(d, MaxFetches, x) => Knows(d, f, x)
      BY <3>6 DEF Knows
    <3>8. \A x \in Changes \cup {0} : x \in Nat
      BY <1>1, Numbers DEF Changes
    <3>9. LastDay <= today
      BY <1>1, <3>2, Numbers
    <3> QED BY <3>2, <3>3, <3>7, <3>8, <3>9 DEF UpTo
  <2> QED BY <2>1, <2>2
<1>9. FetchInv(f)'
  <2>1. PICK n \in Nat : n = LastDay
    BY <1>1, LastStored, Numbers
  <2>2. \A d \in 1..n : UpTo(d, f, n)'
    BY <1>1, <1>7, <1>8, <2>1, StaysUpTo
  <2> QED BY <1>2, <1>3, <1>4, <1>8, <2>1, <2>2 DEF FetchInv, KnownInv, FrameInv, LoadedInv, ComparedInv
<1> QED BY <1>2, <1>3, <1>5, <1>6, <1>7, <1>9, StepOfOne

\* A fetch that is the first of its time and loads today is in order.
LEMMA LoadedInOrder ==
  ASSUME VersionsTypeOK, DaysInv, UNCHANGED <<today, changed>>, NEW f \in FetchId, FirstOfItsTime(f),
         fetches'[f].on = today, fetches'[f].step \notin {"none", "known"},
         \A g \in FetchId : g # f => fetches'[g] = fetches[g]
  PROVE  DaysInv'
<1>1. \A g \in FetchId : IF g = f THEN On(g)' = today ELSE On(g)' = On(g)
  BY DEF On
<1>2. \A g \in FetchId : g # f => ((g < f) <=> (On(g) # 0))
  BY DEF FirstOfItsTime, On
<1>3. today \in Nat /\ today # 0
  BY Numbers DEF VersionsTypeOK, Day
<1>4. \A g, h \in FetchId : g < h /\ On(h)' # 0 => On(g)' # 0 /\ On(g)' <= On(h)'
  BY <1>1, <1>2, <1>3, Numbers DEF DaysInv
<1>5. \A g \in FetchId : On(g)' <= today
  BY <1>1, <1>3 DEF DaysInv
<1>6. \A g \in FetchId : g # f => (On(g)' = 0 <=> fetches'[g].step \in {"none", "known"})
  BY <1>1 DEF DaysInv
<1> QED BY <1>1, <1>3, <1>4, <1>5, <1>6 DEF DaysInv

\* What the provider has from a day on, if the days before are up to date.
LEMMA LoadKeeps ==
  ASSUME VersionsInv, NEW f \in FetchId, NEW from \in Nat \ {0}, LoadFrom(f, from),
         \A d \in 1..(from - 1) : UpTo(d, f, today)
  PROVE  VersionsInv'
<1>1. VersionsTypeOK /\ DaysInv /\ TableInv /\ FetchInv(f)
  BY DEF VersionsInv
<1>2. /\ fetches[f].step = "known" /\ FirstOfItsTime(f) /\ UNCHANGED <<series, today, changed, rows, faults>>
      /\ fetches' = [fetches EXCEPT ![f].step = "loaded", ![f].on = today, ![f].frame = ProviderHas(f, from)]
  BY DEF LoadFrom
<1>3. /\ fetches'[f].step = "loaded" /\ fetches'[f].on = today /\ fetches'[f].frame = ProviderHas(f, from)
      /\ \A g \in FetchId : g # f => fetches'[g] = fetches[g]
  BY <1>1, <1>2 DEF VersionsTypeOK, FetchState
<1>4. today \in 1..MaxDay /\ today \in Nat
  BY <1>1, Numbers DEF VersionsTypeOK, Day
<1>5. ASSUME NEW r \in ProviderHas(f, from)
      PROVE  r \in TableRow /\ r.seen = f /\ IsOfItsFetch(r)'
  <2>1. PICK d \in from..today :
          /\ series = "price_bar" => d < today
          /\ r = [day |-> d, has |-> IF series = "share_count" THEN {} ELSE {c \in changed : c > d},
                  event |-> series = "price_bar" /\ d \in changed, seen |-> f]
    BY DEF ProviderHas
  <2>2. d \in Day /\ changed \subseteq Day
    BY <1>1, <1>4, <2>1, Numbers DEF Day, VersionsTypeOK
  <2>3. r \in TableRow
    BY <2>1, <2>2 DEF TableRow
  <2>4. r.day \in 1..End(On(r.seen))'
    BY <1>2, <1>3, <1>4, <2>1 DEF End, On
  <2>5. \A c \in changed : c \in Nat /\ c <= today
    BY <1>1, Numbers DEF DaysInv
  <2>6. r.has = {c \in Changes' : r.day < c /\ c <= On(f)'}
    BY <1>2, <1>3, <1>4, <2>1, <2>5 DEF Changes, On
  <2> QED BY <1>2, <2>1, <2>3, <2>4, <2>6 DEF IsOfItsFetch
<1>6. VersionsTypeOK'
  <2>1. PICK s \in FetchState : s = fetches[f]
    BY <1>1 DEF VersionsTypeOK
  <2>5. PICK n \in 0..MaxDay : n = today
    BY <1>4
  <2>6. PICK S \in SUBSET TableRow : S = ProviderHas(f, from)
    BY <1>5
  <2>2. [s EXCEPT !.step = "loaded", !.on = today, !.frame = ProviderHas(f, from)] \in FetchState
    BY <2>5, <2>6 DEF FetchState
  <2>3. fetches' = [fetches EXCEPT ![f] = [s EXCEPT !.step = "loaded", !.on = today, !.frame = ProviderHas(f, from)]]
    BY <1>1, <1>2, <2>1 DEF VersionsTypeOK, FetchState
  <2>4. fetches' \in [FetchId -> FetchState]
    BY <1>1, <2>2, <2>3 DEF VersionsTypeOK
  <2> QED BY <1>1, <1>2, <2>4 DEF VersionsTypeOK
<1>7. On(f) = 0
  BY <1>1, <1>2 DEF DaysInv
<1>8. DaysGoOn
  <2>1. \A g \in FetchId : On(g) # 0 => fetches'[g].on = On(g)
    BY <1>3, <1>7 DEF On
  <2> QED BY <1>1, <1>2, <2>1, FetchesGoOn
<1>9. DaysInv'
  BY <1>1, <1>2, <1>3, LoadedInOrder
<1>10. FetchInv(f)'
  <2>1. PICK on \in Nat : on = today
    BY <1>4
  <2>2. \A d \in 1..(from - 1) : UpTo(d, f, on)'
    BY <1>1, <1>4, <1>8, <2>1, StaysUpTo
  <2>3. FrameInv(f)'
    BY <1>3, <1>5 DEF FrameInv
  <2>4. LoadedInv(f)'
    <3> SUFFICES ASSUME NEW d \in 1..End(On(f))' PROVE InFrame(f, d)' \/ UpTo(d, f, on)'
      BY <1>3, <2>1 DEF LoadedInv, On, UpTo
    <3>1. d \in 1..today /\ (series = "price_bar" => d < today)
      BY <1>2, <1>3, <1>4 DEF End, On
    <3>2. CASE d \in 1..(from - 1)
      BY <2>2, <3>2
    <3>3. CASE d \notin 1..(from - 1)
      <4>1. d \in from..today
        BY <1>4, <3>1, <3>3
      <4>2. \E r \in ProviderHas(f, from) : r.day = d
        <5> DEFINE r == [day |-> d, has |-> IF series = "share_count" THEN {} ELSE {c \in changed : c > d},
                         event |-> series = "price_bar" /\ d \in changed, seen |-> f]
        <5>1. d \in {e \in from..today : series = "price_bar" => e < today}
          BY <3>1, <4>1
        <5>2. r \in ProviderHas(f, from)
          BY <5>1 DEF ProviderHas
        <5>3. r.day = d
          OBVIOUS
        <5> QED BY <5>2, <5>3
      <4> QED BY <1>3, <4>2 DEF InFrame
    <3> QED BY <3>2, <3>3
  <2> QED BY <1>3, <2>3, <2>4 DEF FetchInv, KnownInv, ComparedInv
<1> QED BY <1>2, <1>3, <1>6, <1>8, <1>9, <1>10, StepOfOne

\* Where a fetch of prices, shares or statements begins, the days before are up to date.
LEMMA LoadsKeep ==
  ASSUME VersionsInv, NEW f \in FetchId, LoadStatements(f) \/ LoadShares(f) \/ LoadPrices(f)
  PROVE  VersionsInv'
<1>1. VersionsTypeOK /\ DaysInv /\ TableInv /\ FetchInv(f) /\ fetches[f].step = "known"
  BY DEF VersionsInv, LoadStatements, LoadShares, LoadPrices, LoadFrom
<1>2. PICK last \in Nat : last = fetches[f].last
  BY <1>1, Numbers
<1>3. /\ last <= today /\ fetches[f].events \subseteq 1..last /\ \A d \in 1..last : UpTo(d, f, last)
      /\ today \in Nat /\ Overlap \in Nat /\ \A c \in changed : c \in Nat
  BY <1>1, <1>2, Numbers DEF FetchInv, KnownInv
<1>4. CASE LoadStatements(f)
  BY <1>4, LoadKeeps DEF LoadStatements
<1>5. CASE LoadShares(f)
  <2>1. PICK from : from = Max({1, last})
    OBVIOUS
  <2>2. from \in Nat \ {0} /\ \A d \in 1..(from - 1) : d \in 1..last
    BY <2>1, Greater
  <2>3. series = "share_count" /\ LoadFrom(f, from)
    BY <1>2, <1>5, <2>1 DEF LoadShares
  <2>4. \A d : UpTo(d, f, last) => UpTo(d, f, today)
    BY <1>3, <2>3 DEF UpTo, Changes
  <2> QED BY <1>3, <2>2, <2>3, <2>4, LoadKeeps
<1>6. CASE LoadPrices(f)
  <2>1. PICK start : start = PriceStart(f)
    OBVIOUS
  <2>2. start \in Nat \ {0} /\ \A d \in 1..(start - 1) : d \in 1..last
    <3>1. Minus(last, Overlap) \in Nat /\ Minus(last, Overlap) <= last
      BY <1>3 DEF Minus
    <3>2. start = Max({1, Minus(last, Overlap)})
      BY <1>2, <2>1 DEF PriceStart
    <3> QED BY <3>1, <3>2, Greater
  <2>3. CASE NewSplits(f) = {}
    <3>1. ASSUME NEW d \in 1..(start - 1) PROVE UpTo(d, f, today)
      <4> SUFFICES ASSUME NEW x \in Changes \cup {0}, x <= today PROVE Knows(d, f, x)
        BY DEF UpTo
      <4>1. UpTo(d, f, last) /\ x \in Nat
        BY <1>3, <2>2 DEF Changes
      <4>2. x <= last
        <5>1. CASE x = 0
          BY <5>1
        <5>2. CASE x \in changed /\ x >= start
          <6>1. x \in fetches[f].events
            BY <2>1, <2>3, <5>2 DEF NewSplits
          <6> QED BY <1>3, <6>1
        <5>3. CASE x # 0 /\ ~(x >= start)
          BY <2>2, <4>1, <5>3
        <5> QED BY <5>1, <5>2, <5>3 DEF Changes
      <4> QED BY <4>1, <4>2 DEF UpTo
    <3> QED BY <1>6, <2>1, <2>2, <2>3, <3>1, LoadKeeps DEF LoadPrices
  <2>4. CASE NewSplits(f) # {}
    BY <1>6, <2>4, LoadKeeps DEF LoadPrices
  <2> QED BY <2>3, <2>4
<1> QED BY <1>4, <1>5, <1>6

\* A failure ends a fetch and stores nothing.
LEMMA FailuresKeep ==
  ASSUME VersionsInv, NEW f \in FetchId, ProviderFails(f) \/ WriteFails(f)
  PROVE  VersionsInv'
<1>1. VersionsTypeOK /\ DaysInv /\ TableInv /\ fetches[f].step \in {"known", "compared"}
  BY DEF VersionsInv, ProviderFails, WriteFails
<1>2. UNCHANGED <<series, today, changed, rows>> /\ faults' \in 0..MaxFaults
  BY <1>1, FaultsAssumption DEF ProviderFails, WriteFails, Fault, VersionsTypeOK
<1>3. /\ fetches' \in [FetchId -> FetchState] /\ fetches'[f].step = "over"
      /\ \A g \in FetchId : g # f => fetches'[g] = fetches[g]
  <2>1. PICK s \in FetchState : s = fetches[f]
    BY <1>1 DEF VersionsTypeOK
  <2>2. PICK n \in 0..MaxDay : n = today
    BY <1>1, Numbers DEF VersionsTypeOK, Day
  <2>3. [s EXCEPT !.step = "over", !.on = n] \in FetchState /\ [s EXCEPT !.step = "over"] \in FetchState
    BY DEF FetchState
  <2>4. \E t \in FetchState : fetches' = [fetches EXCEPT ![f] = t] /\ t.step = "over"
    <3>1. CASE ProviderFails(f)
      <4>1. fetches' = [fetches EXCEPT ![f] = [s EXCEPT !.step = "over", !.on = n]]
        BY <1>1, <2>1, <2>2, <3>1 DEF ProviderFails, VersionsTypeOK, FetchState
      <4>2. [s EXCEPT !.step = "over", !.on = n].step = "over"
        BY DEF FetchState
      <4> QED BY <2>3, <4>1, <4>2
    <3>2. CASE WriteFails(f)
      <4>1. fetches' = [fetches EXCEPT ![f] = [s EXCEPT !.step = "over"]]
        BY <1>1, <2>1, <3>2 DEF WriteFails, To, VersionsTypeOK, FetchState
      <4>2. [s EXCEPT !.step = "over"].step = "over"
        BY DEF FetchState
      <4> QED BY <2>3, <4>1, <4>2
    <3> QED BY <3>1, <3>2
  <2> QED BY <1>1, <2>4 DEF VersionsTypeOK
<1>4. VersionsTypeOK'
  BY <1>1, <1>2, <1>3 DEF VersionsTypeOK
<1>5. DaysInv' /\ \A g \in FetchId : On(g) # 0 => fetches'[g].on = On(g)
  <2>1. CASE ProviderFails(f)
    <3>1. fetches[f].step = "known" /\ FirstOfItsTime(f)
      BY <2>1 DEF ProviderFails
    <3>2. fetches'[f].on = today
      BY <1>1, <2>1 DEF ProviderFails, VersionsTypeOK, FetchState
    <3>3. On(f) = 0
      BY <1>1, <3>1 DEF DaysInv
    <3>4. DaysInv'
      BY <1>1, <1>2, <1>3, <3>1, <3>2, LoadedInOrder
    <3> QED BY <1>3, <3>3, <3>4 DEF On
  <2>2. CASE WriteFails(f)
    <3>1. fetches[f].step = "compared"
      BY <2>2 DEF WriteFails
    <3>2. fetches'[f].on = On(f)
      BY <1>1, <2>2 DEF WriteFails, To, VersionsTypeOK, FetchState, On
    <3>3. \A g \in FetchId : fetches'[g].on = On(g)
      BY <1>3, <3>2 DEF On
    <3> QED BY <1>1, <1>2, <1>3, <3>1, <3>3, StaysInOrder
  <2> QED BY <2>1, <2>2
<1>6. DaysGoOn
  BY <1>1, <1>2, <1>5, FetchesGoOn
<1>7. FetchInv(f)'
  BY <1>3 DEF FetchInv, KnownInv, FrameInv, LoadedInv, ComparedInv
<1> QED BY <1>1, <1>2, <1>3, <1>4, <1>5, <1>6, <1>7, StepOfOne

\* A row with the value that a fetch has found for its day knows all changes up to it.
LEMMA SameValue ==
  ASSUME VersionsTypeOK, DaysInv, TableInv, NEW f \in FetchId, NEW p, IsOfItsFetch(p), p.seen = f,
         NEW q \in rows, q.day = p.day, q.has = p.has
  PROVE  \A x \in Changes \cup {0} : x <= On(f) => On(q.seen) >= x
<1> SUFFICES ASSUME NEW x \in Changes \cup {0}, x <= On(f) PROVE On(q.seen) >= x
  OBVIOUS
<1>1. /\ IsOfItsFetch(q) /\ x \in Nat /\ q.day \in Nat /\ q.seen \in FetchId
      /\ On(q.seen) \in Nat /\ q.day <= On(q.seen)
  BY LoadedDays, Numbers DEF TableInv, Changes
<1>2. CASE x <= q.day
  BY <1>1, <1>2
<1>3. CASE x > q.day
  <2>1. x \in Changes
    BY <1>1, <1>3
  <2>2. x \in p.has
    BY <1>3, <2>1 DEF IsOfItsFetch
  <2> QED BY <1>1, <2>2 DEF IsOfItsFetch
<1> QED BY <1>1, <1>2, <1>3

\* If a fetch overtaken by a later one leaves out a day with an equal value, and not a
\* day after it, then a change between them would have changed that value too.
LEMMA Overtaken ==
  ASSUME VersionsTypeOK, DaysInv, TableInv, NEW f \in FetchId,
         NEW r, IsOfItsFetch(r), r.seen = f, r.day \in Stored => r.has # Current(r.day).has,
         NEW p, IsOfItsFetch(p), p.seen = f, p.day < r.day,
         p.day \in Stored, p.has = Current(p.day).has
  PROVE  Current(p.day).seen <= f
<1> SUFFICES ASSUME ~(Current(p.day).seen <= f) PROVE FALSE
  OBVIOUS
<1>1. PICK q : q = Current(p.day)
  OBVIOUS
<1>2. q \in rows /\ q.day = p.day /\ \A v \in rows : v.day = p.day => v.seen <= q.seen
  BY <1>1, LatestRow DEF Current, Stored
<1>3. /\ IsOfItsFetch(q) /\ q.seen \in FetchId /\ On(q.seen) \in Nat /\ On(f) \in Nat
      /\ p.day \in Nat /\ r.day \in 1..End(On(f))
  BY <1>2, Numbers DEF TableInv, IsOfItsFetch
<1>4. On(f) <= On(q.seen) /\ On(f) # 0
  <2>1. f < q.seen
    BY <1>1, <1>3, Numbers
  <2>2. On(q.seen) # 0
    BY <1>3, LoadedDays
  <2> QED BY <1>3, <2>1, <2>2 DEF DaysInv
<1>5. UpTo(r.day, MaxFetches, On(q.seen))
  <2>1. r.day \in 1..End(On(q.seen))
    BY <1>3, <1>4 DEF End
  <2> QED BY <1>2, <2>1 DEF TableInv
<1>6. PICK w : w = Current(r.day)
  OBVIOUS
<1>7. /\ w \in rows /\ w.day = r.day /\ w.has # r.has
      /\ \A v \in rows : v.day = r.day => v.seen <= w.seen
  <2>1. \E v \in rows : v.day = r.day
    BY <1>3, <1>5 DEF UpTo, Knows
  <2>2. r.day \in Stored
    BY <2>1 DEF Stored
  <2> QED BY <1>6, <2>1, <2>2, LatestRow DEF Current
<1>8. IsOfItsFetch(w) /\ w.seen \in FetchId /\ On(w.seen) \in Nat
  BY <1>7, Numbers DEF TableInv
<1>9. \A x \in Changes : x \in Nat /\ (x <= On(q.seen) => x <= On(w.seen))
  <2> SUFFICES ASSUME NEW x \in Changes, x <= On(q.seen) PROVE x <= On(w.seen)
    BY Numbers DEF Changes
  <2>1. PICK v \in rows : v.day = r.day /\ On(v.seen) >= x
    BY <1>5 DEF UpTo, Knows
  <2>2. v.seen <= w.seen /\ v.seen \in FetchId /\ On(v.seen) \in Nat
    BY <1>7, <2>1, Numbers
  <2>3. On(v.seen) <= On(w.seen)
    BY <1>8, <2>2, LoadedDays
  <2>4. x \in Nat
    BY Numbers DEF Changes
  <2> QED BY <1>8, <2>1, <2>2, <2>3, <2>4
<1>10. PICK x \in Changes : r.day < x /\ x <= On(w.seen) /\ ~(x <= On(f))
  <2>1. w.has = {x \in Changes : r.day < x /\ x <= On(w.seen)}
    BY <1>7, <1>8 DEF IsOfItsFetch
  <2>2. r.has = {x \in Changes : r.day < x /\ x <= On(f)}
    BY DEF IsOfItsFetch
  <2>3. \A x \in Changes : x <= On(f) => x <= On(w.seen)
    BY <1>3, <1>4, <1>9
  <2> QED BY <1>7, <2>1, <2>2, <2>3
<1>11. PICK v \in rows : v.day = p.day /\ On(v.seen) >= x
  <2>1. p.day \in 1..(w.day - 1)
    BY <1>3, <1>7 DEF IsOfItsFetch
  <2>2. UpTo(p.day, w.seen, On(w.seen))
    BY <1>7, <2>1 DEF TableInv
  <2> QED BY <1>10, <2>2 DEF UpTo, Knows
<1>12. On(v.seen) <= On(q.seen)
  BY <1>2, <1>3, <1>11, LoadedDays, Numbers
<1>13. x <= On(q.seen) /\ p.day < x
  BY <1>3, <1>9, <1>10, <1>11, <1>12, Numbers
<1>14. x \in p.has
  BY <1>1, <1>2, <1>3, <1>13 DEF IsOfItsFetch
<1> QED BY <1>10, <1>14 DEF IsOfItsFetch

\* The comparison leaves out days whose value is known with all changes, and a row is
\* left with the days before it.
LEMMA CompareKeeps ==
  ASSUME VersionsInv, NEW f \in FetchId, Compare(f, OtherValues(f))
  PROVE  VersionsInv'
<1>1. VersionsTypeOK /\ DaysInv /\ TableInv /\ FetchInv(f) /\ fetches[f].step = "loaded"
  BY DEF VersionsInv, Compare
<1>2. PICK new : new = OtherValues(f)
  OBVIOUS
<1>3. /\ UNCHANGED <<series, today, changed, rows, faults>>
      /\ fetches' = [fetches EXCEPT ![f].step = "compared", ![f].frame = new]
  BY <1>2 DEF Compare
<1>4. /\ fetches'[f].step = "compared" /\ fetches'[f].frame = new /\ fetches'[f].on = On(f)
      /\ \A g \in FetchId : g # f => fetches'[g] = fetches[g]
  BY <1>1, <1>3 DEF VersionsTypeOK, FetchState, On
<1>5. /\ \A p \in fetches[f].frame : IsOfItsFetch(p) /\ p.seen = f
      /\ \A p \in fetches[f].frame : p \in new <=> (p.day \in Stored => p.has # Current(p.day).has)
      /\ new \subseteq fetches[f].frame
  BY <1>1, <1>2 DEF FetchInv, FrameInv, OtherValues
<1>6. VersionsTypeOK'
  <2>1. PICK s \in FetchState : s = fetches[f]
    BY <1>1 DEF VersionsTypeOK
  <2>2. new \in SUBSET TableRow
    BY <1>5, <2>1 DEF FetchState
  <2>3. [s EXCEPT !.step = "compared", !.frame = new] \in FetchState
    BY <2>2 DEF FetchState
  <2>4. fetches' = [fetches EXCEPT ![f] = [s EXCEPT !.step = "compared", !.frame = new]]
    BY <1>1, <1>3, <2>1 DEF VersionsTypeOK, FetchState
  <2>5. fetches' \in [FetchId -> FetchState]
    BY <1>1, <2>3, <2>4 DEF VersionsTypeOK
  <2> QED BY <1>1, <1>3, <2>5 DEF VersionsTypeOK
<1>7. \A g \in FetchId : fetches'[g].on = On(g)
  BY <1>4 DEF On
<1>8. DaysInv'
  BY <1>1, <1>3, <1>4, <1>7, StaysInOrder
<1>9. DaysGoOn
  BY <1>1, <1>3, <1>7, FetchesGoOn
<1>10. /\ On(f) \in Nat /\ On(f) <= today /\ f \in Nat /\ f <= MaxFetches
       /\ \A q \in rows : q.seen \in Nat /\ q.seen <= MaxFetches
  BY <1>1, Numbers DEF DaysInv
\* A row that is left out is as current as the one it is compared with.
<1>11. ASSUME NEW p \in fetches[f].frame, p \notin new
       PROVE  /\ p.day \in Stored /\ p.has = Current(p.day).has
              /\ Current(p.day) \in rows /\ Current(p.day).day = p.day
              /\ \A g \in Nat : Current(p.day).seen <= g => UpTo(p.day, g, On(f))
  <2>1. p.day \in Stored /\ p.has = Current(p.day).has
    BY <1>5, <1>11
  <2>2. PICK q : q = Current(p.day)
    OBVIOUS
  <2>3. q \in rows /\ q.day = p.day
    BY <1>1, <2>1, <2>2, LatestRow DEF Current, Stored
  <2>4. \A x \in Changes \cup {0} : x <= On(f) => On(q.seen) >= x
    BY <1>1, <1>5, <2>1, <2>2, <2>3, SameValue
  <2> QED BY <2>1, <2>2, <2>3, <2>4 DEF UpTo, Knows
<1>12. \A d : UpTo(d, f, On(f)) => UpTo(d, MaxFetches, On(f))
  BY <1>1, <1>10, Numbers DEF UpTo, Knows
<1>13. ASSUME NEW d \in 1..End(On(f)) PROVE (\E p \in new : p.day = d) \/ UpTo(d, MaxFetches, On(f))
  <2>1. CASE \E p \in fetches[f].frame : p.day = d /\ p \notin new
    <3>1. PICK p \in fetches[f].frame : p.day = d /\ p \notin new
      BY <2>1
    <3>2. Current(d) \in rows /\ \A g \in Nat : Current(d).seen <= g => UpTo(d, g, On(f))
      BY <1>11, <3>1
    <3> QED BY <1>1, <1>10, <3>2, Numbers
  <2>2. CASE ~\E p \in fetches[f].frame : p.day = d /\ p \notin new
    BY <1>1, <1>12, <2>2 DEF FetchInv, LoadedInv, InFrame
  <2> QED BY <2>1, <2>2
<1>14. ASSUME NEW r \in new, NEW d \in 1..(r.day - 1) PROVE (\E p \in new : p.day = d) \/ UpTo(d, f, On(f))
  <2>1. /\ IsOfItsFetch(r) /\ r.seen = f /\ (r.day \in Stored => r.has # Current(r.day).has)
        /\ r.day \in Nat /\ d \in Nat /\ d < r.day /\ d \in 1..End(On(f))
    BY <1>5, <1>10 DEF IsOfItsFetch, End
  <2>2. CASE \E p \in fetches[f].frame : p.day = d /\ p \notin new
    <3>1. PICK p \in fetches[f].frame : p.day = d /\ p \notin new
      BY <2>2
    <3>2. /\ p.day \in Stored /\ p.has = Current(p.day).has
          /\ \A g \in Nat : Current(p.day).seen <= g => UpTo(p.day, g, On(f))
      BY <1>11, <3>1
    <3>3. IsOfItsFetch(p) /\ p.seen = f /\ p.day < r.day
      BY <1>5, <2>1, <3>1
    <3>4. Current(p.day).seen <= f
      BY <1>1, <2>1, <3>2, <3>3, Overtaken
    <3> QED BY <1>10, <3>1, <3>2, <3>4
  <2>3. CASE ~\E p \in fetches[f].frame : p.day = d /\ p \notin new
    BY <1>1, <2>1, <2>3 DEF FetchInv, LoadedInv, InFrame
  <2> QED BY <2>2, <2>3
<1>15. FetchInv(f)'
  <2>1. PICK on \in Nat : on = On(f)
    BY <1>10
  <2>2. \A d, g : UpTo(d, g, on) => UpTo(d, g, on)'
    BY <1>1, <1>9, <1>10, <2>1, StaysUpTo
  <2>3. End(On(f))' = End(On(f)) /\ On(f)' = on
    BY <1>3, <1>4, <2>1 DEF End, On
  <2>4. ComparedInv(f)'
    <3>1. \A d \in 1..End(On(f)) : (\E p \in new : p.day = d) \/ UpTo(d, MaxFetches, on)'
      BY <1>13, <2>1, <2>2
    <3>2. \A r \in new : \A d \in 1..(r.day - 1) : (\E p \in new : p.day = d) \/ UpTo(d, f, on)'
      BY <1>14, <2>1, <2>2
    <3> QED BY <1>4, <2>3, <3>1, <3>2 DEF ComparedInv, InFrame, UpTo
  <2>5. FrameInv(f)'
    BY <1>1, <1>4, <1>5, <1>9, StaysOfItsFetch DEF FrameInv
  <2> QED BY <1>4, <2>4, <2>5 DEF FetchInv, KnownInv, LoadedInv
<1> QED BY <1>1, <1>3, <1>4, <1>6, <1>8, <1>9, <1>15, StepOfOne

\* To compare the split of a day as well makes no difference: a day keeps what it was.
LEMMA WritesKeep ==
  ASSUME VersionsInv, NEW f \in FetchId, WriteStatements(f) \/ WriteShareCounts(f) \/ WritePriceBars(f)
  PROVE  VersionsInv'
<1>1. CASE WriteStatements(f) \/ WriteShareCounts(f)
  BY <1>1, CompareKeeps DEF WriteStatements, WriteShareCounts
<1>2. CASE WritePriceBars(f)
  <2>1. VersionsTypeOK /\ TableInv /\ FetchInv(f) /\ fetches[f].step = "loaded"
    BY <1>2 DEF VersionsInv, WritePriceBars, Compare
  <2>2. ASSUME NEW r \in fetches[f].frame, r.day \in Stored PROVE r.event = Current(r.day).event
    <3>1. PICK q : q = Current(r.day)
      OBVIOUS
    <3>2. q \in rows /\ q.day = r.day
      BY <2>1, <2>2, <3>1, LatestRow DEF Current, Stored
    <3> QED BY <2>1, <3>1, <3>2 DEF TableInv, FetchInv, FrameInv, IsOfItsFetch
  <2>3. {r \in fetches[f].frame : r.day \in Stored => ~Same(r, Current(r.day))} = OtherValues(f)
    BY <2>2 DEF OtherValues, Same
  <2> QED BY <1>2, <2>3, CompareKeeps DEF WritePriceBars
<1> QED BY <1>1, <1>2

\* What is committed are rows with all that TableInv says.
LEMMA CommitKeeps ==
  ASSUME VersionsInv, NEW f \in FetchId, Commit(f)
  PROVE  VersionsInv'
<1>1. /\ VersionsTypeOK /\ DaysInv /\ TableInv /\ fetches[f].step = "compared"
      /\ \A g \in FetchId : FetchInv(g)
  BY DEF VersionsInv, Commit
<1>2. PICK new : new = fetches[f].frame
  OBVIOUS
<1>3. UNCHANGED <<series, today, changed, faults>> /\ rows' = rows \cup new
  BY <1>2 DEF Commit, Add
<1>4. /\ fetches'[f].step = "over" /\ fetches'[f].on = On(f)
      /\ \A g \in FetchId : g # f => fetches'[g] = fetches[g]
  BY <1>1 DEF Commit, To, VersionsTypeOK, FetchState, On
<1>5. VersionsTypeOK'
  <2>1. PICK s \in FetchState : s = fetches[f]
    BY <1>1 DEF VersionsTypeOK
  <2>2. new \in SUBSET TableRow /\ [s EXCEPT !.step = "over"] \in FetchState
    BY <1>2, <2>1 DEF FetchState
  <2>3. fetches' = [fetches EXCEPT ![f] = [s EXCEPT !.step = "over"]]
    BY <1>1, <2>1 DEF Commit, To, VersionsTypeOK, FetchState
  <2>4. fetches' \in [FetchId -> FetchState]
    BY <1>1, <2>2, <2>3 DEF VersionsTypeOK
  <2> QED BY <1>1, <1>3, <2>2, <2>4 DEF VersionsTypeOK
<1>6. \A g \in FetchId : fetches'[g].on = On(g)
  BY <1>4 DEF On
<1>7. DaysInv'
  BY <1>1, <1>3, <1>4, <1>6, StaysInOrder
<1>8. DaysGoOn
  BY <1>1, <1>3, <1>6, FetchesGoOn
<1>9. \A g \in FetchId : FetchInv(g)'
  <2>1. FetchInv(f)'
    BY <1>4 DEF FetchInv, KnownInv, FrameInv, LoadedInv, ComparedInv
  <2> QED BY <1>1, <1>4, <1>8, <2>1, StaysFetch
<1>10. PICK on \in Nat : on = On(f)
  BY <1>1, Numbers
<1>11. On(f)' = on /\ End(On(f))' = End(on) /\ on <= today /\ f \in Nat /\ f <= MaxFetches
  BY <1>1, <1>3, <1>4, <1>10, Numbers DEF On, End, DaysInv
<1>12. \A p \in new : IsOfItsFetch(p) /\ p.seen = f
  BY <1>1, <1>2 DEF FetchInv, FrameInv
\* The rows of this fetch are all new.
<1>13. ASSUME NEW p \in new, NEW g \in Nat, f <= g PROVE UpTo(p.day, g, on)'
  <2> SUFFICES ASSUME NEW x, x <= on PROVE Knows(p.day, g, x)'
    BY DEF UpTo
  <2>1. p \in rows' /\ p.seen <= g /\ On(p.seen)' = on
    BY <1>3, <1>11, <1>12, <1>13
  <2>2. fetches'[p.seen].on >= x
    BY <2>1 DEF On
  <2> QED BY <2>1, <2>2 DEF Knows, On
<1>14. \A d, g : UpTo(d, g, on) => UpTo(d, g, on)'
  BY <1>1, <1>8, <1>10, <1>11, StaysUpTo
<1>15. \A d \in 1..End(on) : UpTo(d, MaxFetches, on)'
  <2>1. \A d \in 1..End(on) : (\E p \in new : p.day = d) \/ UpTo(d, MaxFetches, on)
    BY <1>1, <1>2, <1>10 DEF FetchInv, ComparedInv, InFrame
  <2> QED BY <1>1, <1>11, <1>13, <1>14, <2>1, Numbers
<1>16. \A r \in new : \A d \in 1..(r.day - 1) : UpTo(d, f, on)'
  <2>1. \A r \in new : \A d \in 1..(r.day - 1) : (\E p \in new : p.day = d) \/ UpTo(d, f, on)
    BY <1>1, <1>2, <1>10 DEF FetchInv, ComparedInv, InFrame
  <2> QED BY <1>11, <1>13, <1>14, <2>1
<1>17. TableInv'
  <2>1. ASSUME NEW r \in rows
        PROVE  /\ IsOfItsFetch(r)' /\ fetches'[r.seen].step = "over"
               /\ \A d \in 1..End(On(r.seen))' : UpTo(d, MaxFetches, On(r.seen))'
               /\ \A d \in 1..(r.day - 1) : UpTo(d, r.seen, On(r.seen))'
    <3>1. r.seen \in FetchId /\ (fetches[r.seen].step = "over" => fetches'[r.seen].step = "over")
      BY <1>1, <1>4, Numbers
    <3> QED BY <1>1, <1>8, <3>1, StaysStored
  <2>2. ASSUME NEW r \in new
        PROVE  /\ IsOfItsFetch(r)' /\ fetches'[r.seen].step = "over"
               /\ \A d \in 1..End(On(r.seen))' : UpTo(d, MaxFetches, On(r.seen))'
               /\ \A d \in 1..(r.day - 1) : UpTo(d, r.seen, On(r.seen))'
    <3>1. IsOfItsFetch(r)' /\ r.seen = f
      BY <1>1, <1>8, <1>12, StaysOfItsFetch
    <3>2. On(r.seen)' = on /\ End(On(r.seen))' = End(on)
      BY <1>11, <3>1
    <3> QED BY <1>4, <1>15, <1>16, <3>1, <3>2 DEF UpTo
  <2> QED BY <1>3, <2>1, <2>2 DEF TableInv
<1> QED BY <1>5, <1>7, <1>9, <1>17 DEF VersionsInv

\* A day begins, perhaps with a split or a restatement.
LEMMA NextDayKeeps ==
  ASSUME VersionsInv, NextDay
  PROVE  VersionsInv'
<1>1. VersionsTypeOK /\ DaysInv /\ TableInv /\ \A g \in FetchId : FetchInv(g)
  BY DEF VersionsInv
<1>2. /\ UNCHANGED <<series, rows, fetches, faults>> /\ today' = today + 1 /\ today < MaxDay
      /\ changed \subseteq changed' /\ \A x \in changed' : x \in changed \/ x = today + 1
  BY DEF NextDay
<1>3. today \in Nat /\ MaxDay \in Nat /\ \A x \in changed : x \in Nat /\ x <= today
  BY <1>1, Numbers DEF DaysInv
<1>4. VersionsTypeOK'
  <2>1. today + 1 \in Day
    BY <1>2, <1>3 DEF Day
  <2>2. changed' \subseteq Day
    BY <1>1, <1>2, <2>1 DEF VersionsTypeOK
  <2> QED BY <1>1, <1>2, <2>1, <2>2 DEF VersionsTypeOK
<1>5. DaysInv'
  <2>1. \A g \in FetchId : On(g)' = On(g) /\ On(g) \in Nat
    BY <1>1, <1>2, Numbers DEF On
  <2>2. \A x \in changed' : x <= today'
    BY <1>2, <1>3
  <2>3. \A g \in FetchId : On(g) <= today'
    BY <1>1, <1>2, <1>3, <2>1 DEF DaysInv
  <2> QED BY <1>1, <1>2, <2>1, <2>2, <2>3 DEF DaysInv
<1>6. DaysGoOn
  <2>1. today' \in Nat /\ today <= today' /\ today + 1 > today
    BY <1>2, <1>3
  <2>2. \A x \in changed' : x \in Nat /\ (x \in changed \/ x > today)
    BY <1>2, <1>3
  <2> QED BY <1>2, <2>1, <2>2 DEF DaysGoOn, On
<1>7. \A g \in FetchId : FetchInv(g)'
  BY <1>1, <1>2, <1>6, StaysFetch
<1>8. TableInv'
  <2>1. \A r \in rows : fetches[r.seen].step = "over" => fetches'[r.seen].step = "over"
    BY <1>2
  <2> QED BY <1>1, <1>2, <1>6, <2>1, StaysStored DEF TableInv
<1> QED BY <1>4, <1>5, <1>7, <1>8 DEF VersionsInv

\* It holds at first: no fetch, no row.
LEMMA InitKeeps == VersionsInit => VersionsInv
<1> SUFFICES ASSUME VersionsInit PROVE VersionsInv
  OBVIOUS
<1>1. \A f \in FetchId : fetches[f] = NoFetch /\ On(f) = 0 /\ fetches[f].step = "none"
  BY DEF VersionsInit, NoFetch, On
<1>2. NoFetch \in FetchState /\ 1 \in Day
  BY VersionsAssumption DEF NoFetch, FetchState, Day
<1>3. VersionsTypeOK
  BY <1>2, FaultsAssumption DEF VersionsInit, VersionsTypeOK
<1>4. DaysInv
  BY <1>1 DEF VersionsInit, DaysInv
<1>5. TableInv /\ \A f \in FetchId : FetchInv(f)
  BY <1>1 DEF VersionsInit, TableInv, FetchInv, KnownInv, FrameInv, LoadedInv, ComparedInv
<1> QED BY <1>3, <1>4, <1>5 DEF VersionsInv

\* Every step keeps it.
LEMMA VersionsNextKeeps == VersionsInv /\ [VersionsNext]_versionsVars => VersionsInv'
<1> SUFFICES ASSUME VersionsInv, [VersionsNext]_versionsVars PROVE VersionsInv'
  OBVIOUS
<1>1. CASE NextDay
  BY <1>1, NextDayKeeps
<1>2. ASSUME NEW f \in FetchId, ReadState(f) PROVE VersionsInv'
  BY <1>2, ReadKeeps
<1>3. ASSUME NEW f \in FetchId, LoadStatements(f) \/ LoadShares(f) \/ LoadPrices(f) PROVE VersionsInv'
  BY <1>3, LoadsKeep
<1>4. ASSUME NEW f \in FetchId, WriteStatements(f) \/ WriteShareCounts(f) \/ WritePriceBars(f) PROVE VersionsInv'
  BY <1>4, WritesKeep
<1>5. ASSUME NEW f \in FetchId, Commit(f) PROVE VersionsInv'
  BY <1>5, CommitKeeps
<1>6. ASSUME NEW f \in FetchId, ProviderFails(f) \/ WriteFails(f) PROVE VersionsInv'
  BY <1>6, FailuresKeep
<1>7. CASE UNCHANGED versionsVars
  BY <1>7 DEF versionsVars, versionsState, VersionsInv, VersionsTypeOK, DaysInv, TableInv, IsOfItsFetch, FetchInv,
              KnownInv, FrameInv, LoadedInv, ComparedInv, InFrame, UpTo, Knows, Changes, End, On
<1> QED BY <1>1, <1>2, <1>3, <1>4, <1>5, <1>6, <1>7 DEF VersionsNext
------------------------------------------------------------------------------
(* The theorems.                                                            *)

\* Any number of fetches of one series, which overlap, fail and commit in any order, keep
\* the invariant.
THEOREM VersionsInvariant == VersionsSpec => []VersionsInv
<1> QED BY InitKeeps, VersionsNextKeeps, PTL DEF VersionsSpec

\* A day that is stored has all days before it stored: a lost fetch, a failed write or
\* an overtaken one leaves no hole that no later fetch would fill (history_state: only the
\* last day stored is asked for).
THEOREM VersionsHaveNoGap == VersionsSpec => []NoGap
<1>1. VersionsInv => NoGap
  <2> SUFFICES ASSUME VersionsInv, NEW r \in rows, NEW d \in 1..r.day PROVE d \in Stored
    BY DEF NoGap, Stored
  <2>1. VersionsTypeOK /\ TableInv
    BY DEF VersionsInv
  <2>2. IsOfItsFetch(r) /\ r.day \in Nat
    BY <2>1, Numbers DEF TableInv
  <2>3. d \in 1..End(On(r.seen)) /\ On(r.seen) \in Nat
    BY <2>1, <2>2, Numbers DEF IsOfItsFetch, End
  <2>4. Knows(d, MaxFetches, 0)
    BY <2>1, <2>3 DEF TableInv, UpTo
  <2> QED BY <2>4 DEF Knows, Stored
<1> QED BY <1>1, VersionsInvariant, PTL

\* All prices before a stored split that count, now or as of any earlier fetch, have it
\* (price_frames: a stored split is no reason to load all prices again).
THEOREM SplitsAreApplied == VersionsSpec => []StoredSplitIsApplied
<1>1. VersionsInv => StoredSplitIsApplied
  <2> SUFFICES ASSUME VersionsInv, NEW f \in FetchId, series = "price_bar",
                      NEW r \in KnownAt(f), NEW q \in KnownAt(f), q.event, q.day > r.day
               PROVE  q.day \in r.has
    BY DEF StoredSplitIsApplied
  <2> DEFINE S == {v \in rows : v.seen <= f}
  <2>1. VersionsTypeOK /\ DaysInv /\ TableInv
    BY DEF VersionsInv
  <2>2. \A v \in S : LatestOf(S, v.day) \in S /\ LatestOf(S, v.day).day = v.day
                     /\ \A u \in S : u.day = v.day => u.seen <= LatestOf(S, v.day).seen
    BY <2>1, LatestRow
  <2>3. q \in S /\ r \in S /\ \A u \in S : u.day = r.day => u.seen <= r.seen
    BY <2>2 DEF KnownAt
  <2>4. /\ IsOfItsFetch(q) /\ IsOfItsFetch(r) /\ q.day \in Nat /\ r.day \in Nat
        /\ q.seen \in FetchId /\ r.seen \in FetchId
    BY <2>1, <2>3, Numbers DEF TableInv
  <2>5. q.day \in Changes /\ q.day <= On(q.seen)
    BY <2>1, <2>4, LoadedDays DEF IsOfItsFetch, Changes
  <2>6. UpTo(r.day, q.seen, On(q.seen))
    <3>1. r.day \in 1..(q.day - 1)
      BY <2>4 DEF IsOfItsFetch
    <3> QED BY <2>1, <2>3, <3>1 DEF TableInv
  <2>7. PICK v \in rows : v.day = r.day /\ v.seen <= q.seen /\ On(v.seen) >= q.day
    BY <2>5, <2>6 DEF UpTo, Knows
  <2>8. v \in S /\ v.seen \in FetchId
    BY <2>1, <2>3, <2>4, <2>7, Numbers
  <2>9. On(r.seen) >= On(v.seen)
    BY <2>1, <2>3, <2>4, <2>7, <2>8, LoadedDays
  <2>10. q.day <= On(r.seen)
    BY <2>1, <2>4, <2>7, <2>8, <2>9, Numbers
  <2> QED BY <2>4, <2>5, <2>10 DEF IsOfItsFetch
<1> QED BY <1>1, VersionsInvariant, PTL

------------------------------------------------------------------------------
(* Yahoo.                                                                    *)

\* The place of a kind among the calls.
CallPlace(k) == CASE k = "eps_trend" -> 2 [] k = "growth_estimates" -> 3 [] OTHER -> 4

\* A title that is past its base data has them, or is done with.
RawInv == (call = 1 => raw = FALSE) /\ (call \in 2..11 => raw = TRUE)

\* The guard is closed by this title's own rate limit, and nobody asks behind it.
LimitInv == limited = hit /\ pressed = FALSE /\ (call = 1 => hit = FALSE)

\* A kind that is behind its call has an entry that is true, but for an "empty" that was read
\* from a failed response, which is corrected after the last kind.
EntryInv(k) ==
  /\ entries[k] = "unasked" <=> call <= CallPlace(k) \/ ~raw
  /\ entries[k] = "ok" => k \in has
  /\ entries[k] = "skipped" => limited
  /\ entries[k] = "empty" /\ k \in has => k \in SharedKinds /\ shared = "failed" /\ call <= 4

\* A response that failed has left its mark.
FailedInv == shared = "failed" => \E k \in SharedKinds : entries[k] = "response_error"

YahooInv ==
  YahooTypeOK /\ RawInv /\ LimitInv /\ (\A k \in Kinds : EntryInv(k)) /\ FailedInv

Status == {"unasked", "ok", "empty", "error", "response_error", "skipped"}

LEMMA CallsAre ==
  /\ Len(Calls) = 12 /\ Fx = 11
  /\ \A n \in 1..12 : (Calls[n] = "base" <=> n = 1) /\ (Calls[n] = "done" <=> n = 12) /\ (Calls[n] = "fx" <=> n = 11)
  /\ \A n \in 1..12 : Calls[n] \in Series <=> n \in 5..10
  /\ \A n \in 1..12 : Calls[n] \in Kinds <=> n \in 2..4
  /\ \A n \in 1..12, k \in Kinds : Calls[n] = k <=> n = CallPlace(k)
  /\ \A k \in Kinds : CallPlace(k) \in 2..4 /\ (k \in SharedKinds <=> CallPlace(k) < 4)
<1>1. /\ Len(Calls) = 12
      /\ Calls[1] = "base" /\ Calls[2] = "eps_trend" /\ Calls[3] = "growth_estimates"
      /\ Calls[4] = "analyst_price_targets" /\ Calls[5] = "income" /\ Calls[6] = "balance"
      /\ Calls[7] = "cashflow" /\ Calls[8] = "shares" /\ Calls[9] = "prices"
      /\ Calls[10] = "all_prices" /\ Calls[11] = "fx" /\ Calls[12] = "done"
  BY DEF Calls
<1> HIDE DEF Calls
<1>2. \A n \in 1..12 : \/ n = 1 \/ n = 2 \/ n = 3 \/ n = 4 \/ n = 5 \/ n = 6
                       \/ n = 7 \/ n = 8 \/ n = 9 \/ n = 10 \/ n = 11 \/ n = 12
  OBVIOUS
<1>3. \A n \in 1..12 : (Calls[n] = "base" <=> n = 1) /\ (Calls[n] = "done" <=> n = 12) /\ (Calls[n] = "fx" <=> n = 11)
  BY <1>1, <1>2
<1>4. Fx = 11
  BY <1>1, <1>3 DEF Fx
<1>5. \A n \in 1..12 : Calls[n] \in Series <=> n \in 5..10
  BY <1>1, <1>2 DEF Series
<1>6. \A n \in 1..12 : Calls[n] \in Kinds <=> n \in 2..4
  BY <1>1, <1>2 DEF Kinds, SharedKinds
<1>7. \A n \in 1..12, k \in Kinds : Calls[n] = k <=> n = CallPlace(k)
  BY <1>1, <1>2 DEF Kinds, SharedKinds, CallPlace
<1>8. \A k \in Kinds : CallPlace(k) \in 2..4 /\ (k \in SharedKinds <=> CallPlace(k) < 4)
  BY DEF Kinds, SharedKinds, CallPlace
<1> QED BY <1>1, <1>3, <1>4, <1>5, <1>6, <1>7, <1>8

LEMMA YahooTypes ==
  ASSUME YahooTypeOK
  PROVE  /\ pass \in 1..NumRuns /\ nth \in 1..NumListed /\ call \in 1..12 /\ tries \in 0..2
         /\ hit \in BOOLEAN /\ foreign \in BOOLEAN /\ raw \in BOOLEAN /\ limited \in BOOLEAN /\ pressed \in BOOLEAN
         /\ has \in Coverage /\ shared \in {"unasked", "read", "failed"} /\ entries \in [Kinds -> Status]
         /\ fx \in {None, One} \cup Rate /\ rateCache \in {None} \cup Rate
<1>1. hit \in BOOLEAN /\ foreign \in BOOLEAN /\ raw \in BOOLEAN /\ limited \in BOOLEAN /\ pressed \in BOOLEAN
  BY DEF YahooTypeOK
<1> QED BY <1>1, CallsAre DEF YahooTypeOK, Status

\* A title begins.
LEMMA Starts ==
  ASSUME TitleStarts, pass' \in 1..NumRuns, nth' \in 1..NumListed, rateCache' \in {None} \cup Rate
  PROVE  YahooInv'
<1>1. YahooTypeOK'
  <2>1. entries' \in [Kinds -> Status]
    BY DEF TitleStarts, Status
  <2>2. call' \in 1..Len(Calls) /\ tries' \in 0..2 /\ has' \in Coverage
    BY CallsAre DEF TitleStarts
  <2>4. hit' \in BOOLEAN /\ foreign' \in BOOLEAN /\ raw' \in BOOLEAN /\ limited' \in BOOLEAN /\ pressed' \in BOOLEAN
    BY DEF TitleStarts
  <2>3. shared' \in {"unasked", "read", "failed"} /\ fx' \in {None, One} \cup Rate
    BY DEF TitleStarts
  <2> QED BY <2>1, <2>2, <2>3, <2>4 DEF YahooTypeOK, Status
<1>2. RawInv' /\ FailedInv'
  BY DEF TitleStarts, RawInv, FailedInv
<1>3. \A k \in Kinds : EntryInv(k)'
  BY CallsAre DEF TitleStarts, EntryInv
<1> QED BY <1>1, <1>2, <1>3 DEF TitleStarts, YahooInv, LimitInv

\* A kind has got its entry.
LEMMA KindIsDone ==
  ASSUME YahooInv, NEW k \in Kinds, Doing(k), NEW status \in Status, Entry(k, status), GoOn,
         UNCHANGED <<raw, has>>, limited => limited', status # "unasked",
         status = "ok" => k \in has, status = "skipped" => limited',
         status = "empty" /\ k \in has => k \in SharedKinds /\ shared' = "failed",
         shared = "failed" => shared' = "failed",
         shared' = "failed" => shared = "failed" \/ (status = "response_error" /\ k \in SharedKinds)
  PROVE  /\ call \in 2..4 /\ call' = call + 1 /\ tries' = 0 /\ raw = TRUE
         /\ entries' \in [Kinds -> Status]
         /\ RawInv' /\ FailedInv' /\ \A l \in Kinds : EntryInv(l)'
<1>1. /\ call = CallPlace(k) /\ call \in 2..4 /\ call' = call + 1 /\ tries' = 0 /\ raw = TRUE
      /\ entries \in [Kinds -> Status]
  BY CallsAre DEF YahooInv, YahooTypeOK, RawInv, Doing, GoOn, GoTo, Status
<1>2. PICK e : e = [entries EXCEPT ![k] = status]
  OBVIOUS
<1>3. /\ e \in [Kinds -> Status] /\ e[k] = status
      /\ \A l \in Kinds : l # k => e[l] = entries[l]
  BY <1>1, <1>2
<1>4. \A l \in Kinds : entries[l] = "unasked" <=> call <= CallPlace(l)
  BY <1>1 DEF YahooInv, EntryInv
<1>5. \A l \in Kinds : e[l] = "unasked" <=> call' <= CallPlace(l)
  <2>1. \A l \in Kinds : l # k => CallPlace(l) # CallPlace(k)
    BY DEF Kinds, SharedKinds, CallPlace
  <2> QED BY <1>1, <1>3, <1>4, <2>1, CallsAre
<1>6. shared' = "failed" => \E l \in SharedKinds : e[l] = "response_error"
  <2>1. ASSUME shared = "failed" PROVE \E l \in SharedKinds : e[l] = "response_error"
    <3>1. PICK l \in SharedKinds : entries[l] = "response_error"
      BY <2>1 DEF YahooInv, FailedInv
    <3>2. l \in Kinds /\ l # k
      BY <1>1, <1>4, <3>1 DEF Kinds
    <3> QED BY <1>3, <3>1, <3>2
  <2> QED BY <1>3, <2>1 DEF Kinds
<1>7. \A l \in Kinds : /\ e[l] = "ok" => l \in has
                       /\ e[l] = "skipped" => limited'
                       /\ e[l] = "empty" /\ l \in has => l \in SharedKinds /\ shared' = "failed"
  BY <1>3 DEF YahooInv, EntryInv
<1>8. CASE Calls[call + 1] \in Kinds
  <2>1. entries' = e /\ call' <= 4
    BY <1>1, <1>2, <1>8, CallsAre DEF Entry
  <2>2. RawInv' /\ FailedInv'
    BY <1>1, <1>6, <2>1 DEF RawInv, FailedInv
  <2>3. \A l \in Kinds : EntryInv(l)'
    BY <1>1, <1>5, <1>7, <2>1 DEF EntryInv
  <2> QED BY <1>1, <1>3, <2>1, <2>2, <2>3
<1>9. CASE Calls[call + 1] \notin Kinds
  <2>1. entries' = MarkFollowUps(e) /\ call' = 5
    BY <1>1, <1>2, <1>9, CallsAre DEF Entry
  <2>2. /\ entries' \in [Kinds -> Status]
        /\ \A l \in Kinds : entries'[l] = e[l] \/ (e[l] = "empty" /\ entries'[l] = "error")
        /\ shared' = "failed" => \A l \in SharedKinds : entries'[l] # "empty"
    <3>1. CASE \E l \in SharedKinds : e[l] = "response_error"
      <4>1. entries' = [l \in Kinds |-> IF l \in SharedKinds /\ e[l] = "empty" THEN "error" ELSE e[l]]
        BY <2>1, <3>1 DEF MarkFollowUps
      <4> QED BY <1>3, <4>1 DEF Status, Kinds
    <3>2. CASE ~\E l \in SharedKinds : e[l] = "response_error"
      BY <1>3, <1>6, <2>1, <3>2 DEF MarkFollowUps
    <3> QED BY <3>1, <3>2
  <2>3. RawInv' /\ FailedInv'
    BY <1>1, <1>6, <2>1, <2>2 DEF RawInv, FailedInv, Kinds
  <2>4. \A l \in Kinds : EntryInv(l)'
    BY <1>1, <1>5, <1>7, <2>1, <2>2 DEF EntryInv
  <2> QED BY <1>1, <2>2, <2>3, <2>4
<1> QED BY <1>8, <1>9


\* A call that says nothing of the consensus.
LEMMA OtherCall ==
  ASSUME YahooInv, call' \in 1..12, tries' \in 0..2,
         call \in 5..12 \/ call' = call,
         raw = TRUE, UNCHANGED <<pass, nth, has, foreign, shared, entries, raw, pressed>>,
         hit' \in BOOLEAN, limited' \in BOOLEAN, limited' = hit', hit => hit', call' # 1,
         fx' \in {None, One} \cup Rate, rateCache' \in {None} \cup Rate, call' >= call
  PROVE  YahooInv'
<1>1. YahooTypeOK'
  BY YahooTypes, CallsAre DEF YahooInv, YahooTypeOK
<1>2. RawInv' /\ FailedInv'
  BY YahooTypes DEF YahooInv, RawInv, FailedInv
<1>3. \A k \in Kinds : EntryInv(k)'
  BY YahooTypes, CallsAre DEF YahooInv, EntryInv, LimitInv
<1> QED BY <1>1, <1>2, <1>3 DEF YahooInv, LimitInv

LEMMA BaseDataKeeps ==
  ASSUME YahooInv, BaseData
  PROVE  YahooInv'
<1>1. call = 1 /\ raw = FALSE /\ hit = FALSE /\ limited = FALSE /\ tries \in 0..2
  BY YahooTypes, CallsAre DEF BaseData, Doing, YahooInv, RawInv, LimitInv
<1>2. /\ pressed' = FALSE /\ UNCHANGED <<hit, limited, pass, nth, has, foreign, shared, entries, fx, rateCache>>
      /\ raw' \in BOOLEAN /\ tries' \in 0..2
      /\ \/ raw' = TRUE /\ call' = 2
         \/ raw' = FALSE /\ call' = 1
         \/ raw' = FALSE /\ call' = 12
  <2>1. pressed' = FALSE
    BY <1>1 DEF BaseData, Ask, YahooInv, LimitInv
  <2>2. \/ raw' = TRUE /\ call' = 2 /\ tries' = 0
        \/ raw' = raw /\ call' = 1 /\ tries' \in 0..2
        \/ raw' = raw /\ call' = 12 /\ tries' = 0
    BY <1>1, CallsAre DEF BaseData, GoOn, GoTo, Again
  <2>3. UNCHANGED <<hit, limited, pass, nth, has, foreign, shared, entries, fx, rateCache>>
    BY DEF BaseData, NoLimit, UnchangedTitle
  <2>4. tries' \in 0..2
    BY <2>2
  <2>5. \/ raw' = TRUE /\ call' = 2
        \/ raw' = FALSE /\ call' = 1
        \/ raw' = FALSE /\ call' = 12
    BY <1>1, <2>2, Zenon
  <2>6. raw' \in BOOLEAN
    BY <2>5, Zenon
  <2> QED BY <2>1, <2>3, <2>4, <2>5, <2>6, Zenon
<1>3. YahooTypeOK'
  <2>1. pressed' \in BOOLEAN /\ raw' \in BOOLEAN
    BY <1>2
  <2> QED BY <1>2, <2>1, YahooTypes, CallsAre DEF YahooInv, YahooTypeOK, Status
<1>4. RawInv' /\ FailedInv'
  BY <1>2 DEF YahooInv, RawInv, FailedInv
<1>5. \A k \in Kinds : EntryInv(k)'
  BY <1>1, <1>2, CallsAre DEF YahooInv, EntryInv
<1> QED BY <1>1, <1>2, <1>3, <1>4, <1>5 DEF YahooInv, LimitInv

\* What a call for a kind leaves alone.
LEMMA KindKeeps ==
  ASSUME YahooInv, NEW k \in Kinds, Doing(k), NEW status \in Status, Entry(k, status), GoOn,
         UnchangedTitle, UNCHANGED <<raw, fx, rateCache>>, pressed' = FALSE,
         NoLimit \/ NoteLimit, status # "unasked",
         status = "ok" => k \in has, status = "skipped" => limited,
         status = "empty" /\ k \in has => k \in SharedKinds /\ shared' = "failed",
         shared' \in {"unasked", "read", "failed"}, shared = "failed" => shared' = "failed",
         shared' = "failed" => shared = "failed" \/ (status = "response_error" /\ k \in SharedKinds)
  PROVE  YahooInv'
<1>1. limited' = hit' /\ limited' \in BOOLEAN /\ hit' \in BOOLEAN /\ (limited => limited')
  <2>1. hit \in BOOLEAN /\ limited = hit
    BY YahooTypes DEF YahooInv, LimitInv
  <2>2. CASE NoLimit
    BY <2>1, <2>2, Zenon DEF NoLimit
  <2>3. CASE NoteLimit
    BY <2>3, Zenon DEF NoteLimit
  <2> QED BY <2>2, <2>3
<1>2. /\ call \in 2..4 /\ call' = call + 1 /\ tries' = 0 /\ raw = TRUE
      /\ entries' \in [Kinds -> Status]
      /\ RawInv' /\ FailedInv' /\ \A l \in Kinds : EntryInv(l)'
  BY <1>1, KindIsDone DEF UnchangedTitle
<1>3. YahooTypeOK'
  <2>1. YahooTypeOK /\ UNCHANGED <<pass, nth, has, foreign>> /\ call' \in 1..12 /\ tries' \in 0..2
    BY <1>2 DEF YahooInv, UnchangedTitle
  <2> QED BY <1>1, <1>2, <2>1, YahooTypes, CallsAre DEF YahooTypeOK, Status
<1> QED BY <1>1, <1>2, <1>3 DEF YahooInv, LimitInv

LEMMA SkipKindKeeps ==
  ASSUME YahooInv, NEW k \in Kinds, SkipKind(k)
  PROVE  YahooInv'
<1>1. ~pressed /\ pressed' = FALSE /\ limited /\ "skipped" \in Status
  BY DEF SkipKind, YahooInv, YahooTypeOK, LimitInv, Status
<1>2. shared' \in {"unasked", "read", "failed"} /\ shared' = shared
  BY DEF SkipKind, UnchangedYf, YahooInv, YahooTypeOK
<1> QED BY <1>1, <1>2, KindKeeps DEF SkipKind

LEMMA KindFromCacheKeeps ==
  ASSUME YahooInv, NEW k \in Kinds, KindFromCache(k)
  PROVE  YahooInv'
<1>1. pressed' = FALSE
  BY DEF KindFromCache, YahooInv, YahooTypeOK, LimitInv
<1>2. shared' \in {"unasked", "read", "failed"} /\ shared' = shared /\ k \in SharedKinds
  BY DEF KindFromCache, UnchangedYf, YahooInv, YahooTypeOK
<1>3. PICK status \in Status : status = IF shared = "failed" THEN "empty" ELSE Found(k)
  BY DEF Found, Status
<1>4. /\ status # "unasked" /\ status # "skipped" /\ (status = "ok" => k \in has)
      /\ status = "empty" /\ k \in has => shared = "failed"
  BY <1>3 DEF Found
<1>5. Entry(k, status)
  BY <1>3 DEF KindFromCache
<1> QED BY <1>1, <1>2, <1>4, <1>5, KindKeeps DEF KindFromCache

LEMMA AskKindKeeps ==
  ASSUME YahooInv, NEW k \in Kinds, AskKind(k)
  PROVE  YahooInv'
<1>1. pressed' = FALSE /\ hit = FALSE /\ limited = FALSE /\ call = CallPlace(k) /\ call \in 2..4 /\ raw = TRUE
  BY YahooTypes, CallsAre DEF AskKind, Ask, YahooInv, LimitInv, RawInv, Doing
<1>2. shared \in {"unasked", "read", "failed"} /\ (k \in SharedKinds => shared = "unasked")
  BY DEF AskKind, YahooInv, YahooTypeOK
<1>3. Doing(k) /\ UnchangedTitle /\ UNCHANGED <<raw, fx, rateCache>>
  BY DEF AskKind
<1>4. "error" \in Status /\ "response_error" \in Status
  BY DEF Status
<1>5. CASE /\ Entry(k, Found(k)) /\ GoOn /\ NoLimit
           /\ shared' = IF k \in SharedKinds THEN "read" ELSE shared
  <2>1. PICK status \in Status : status = Found(k)
    BY DEF Found, Status
  <2>2. /\ status # "unasked" /\ status # "skipped" /\ (status = "ok" => k \in has)
        /\ status = "empty" => k \notin has
    BY <2>1 DEF Found
  <2>3. /\ shared' \in {"unasked", "read", "failed"} /\ (shared = "failed" => shared' = "failed")
        /\ shared' = "failed" => shared = "failed"
    BY <1>2, <1>5
  <2> QED BY <1>1, <1>3, <1>5, <2>1, <2>2, <2>3, KindKeeps
<1>6. CASE /\ Entry(k, "response_error") /\ GoOn /\ NoLimit
           /\ shared' = IF k \in SharedKinds THEN "failed" ELSE shared
  <2>1. /\ shared' \in {"unasked", "read", "failed"} /\ (shared = "failed" => shared' = "failed")
        /\ shared' = "failed" => shared = "failed" \/ k \in SharedKinds
    BY <1>2, <1>6
  <2> QED BY <1>1, <1>3, <1>4, <1>6, <2>1, KindKeeps
<1>7. CASE Again(2) /\ NoLimit /\ UNCHANGED <<entries, shared>>
  <2>1. /\ UNCHANGED <<call, pass, nth, has, foreign, shared, entries, raw, pressed, hit, limited, fx, rateCache>>
    BY <1>1, <1>3, <1>7, Zenon DEF Again, NoLimit, UnchangedTitle, YahooInv, LimitInv
  <2>2. tries' \in 0..2 /\ call' \in 1..12 /\ call' # 1 /\ call' >= call /\ call' = call
    BY <1>1, <1>7, YahooTypes DEF Again, YahooInv
  <2>3. hit' \in BOOLEAN /\ limited' = hit' /\ (hit => hit')
    BY <1>1, <2>1, Zenon
  <2>4. fx' \in {None, One} \cup Rate /\ rateCache' \in {None} \cup Rate
    BY <2>1, YahooTypes DEF YahooInv
  <2> QED BY <1>1, <2>1, <2>2, <2>3, <2>4, OtherCall
<1>8. CASE Entry(k, "error") /\ GoOn /\ (NoLimit \/ NoteLimit) /\ UnchangedYf
  BY <1>1, <1>2, <1>3, <1>4, <1>8, KindKeeps DEF UnchangedYf
<1> QED BY <1>5, <1>6, <1>7, <1>8 DEF AskKind


LEMMA AnsweredGoesOn ==
  ASSUME call \in 5..10, NEW ok \in BOOLEAN, Answered(ok)
  PROVE  tries' = 0 /\ call' \in 6..11 /\ call' >= call
<1>1. GoOn \/ GoTo(11)
  BY CallsAre DEF Answered
<1> QED BY <1>1 DEF GoOn, GoTo

LEMMA SeriesKeeps ==
  ASSUME YahooInv, AskSeries \/ SkipSeries
  PROVE  YahooInv'
<1>1. call \in 5..10 /\ tries \in 0..2
  BY YahooTypes, CallsAre DEF AskSeries, SkipSeries, YahooInv
<1>2. raw = TRUE /\ hit \in BOOLEAN /\ limited = hit /\ pressed = FALSE
  BY <1>1, YahooTypes DEF YahooInv, RawInv, LimitInv
<1>3. fx' \in {None, One} \cup Rate /\ rateCache' \in {None} \cup Rate
  BY YahooTypes DEF YahooInv, AskSeries, SkipSeries
<1>4. UNCHANGED <<pass, nth, has, foreign, shared, entries, raw>>
  BY DEF AskSeries, SkipSeries, UnchangedTitle, UnchangedYf
<1>5. pressed' = pressed
  <2>1. CASE AskSeries
    <3>1. hit = FALSE
      BY <1>2, <2>1, Zenon DEF AskSeries
    <3> QED BY <1>2, <2>1, <3>1, Zenon DEF AskSeries, Ask
  <2>2. CASE SkipSeries
    BY <2>2 DEF SkipSeries
  <2> QED BY <2>1, <2>2
<1>6. tries' \in 0..2 /\ call' \in 5..11 /\ call' >= call
  <2>1. CASE Answered(TRUE) \/ Answered(FALSE)
    <3>1. PICK ok \in BOOLEAN : Answered(ok)
      BY <2>1, Zenon
    <3>2. tries' = 0 /\ call' \in 6..11 /\ call' >= call
      BY <1>1, <3>1, AnsweredGoesOn
    <3> QED BY <3>2
  <2>2. CASE Again(2)
    BY <1>1, <2>2 DEF Again
  <2>3. CASE SkipSeries
    BY <1>1, <2>3, CallsAre DEF SkipSeries, GoTo
  <2> QED BY <2>1, <2>2, <2>3 DEF AskSeries
<1>7. hit' \in BOOLEAN /\ limited' = hit' /\ (hit => hit')
  <2>1. CASE NoLimit
    BY <1>2, <2>1, Zenon DEF NoLimit
  <2>2. CASE NoteLimit
    BY <2>2, Zenon DEF NoteLimit
  <2> QED BY <2>1, <2>2 DEF AskSeries, SkipSeries
<1>8. call' \in 1..12 /\ call' # 1 /\ call \in 5..12
  BY <1>1, <1>6
<1> QED BY <1>2, <1>3, <1>4, <1>5, <1>6, <1>7, <1>8, OtherCall

LEMMA StatementFxKeeps ==
  ASSUME YahooInv, StatementFx
  PROVE  YahooInv'
<1>1. call = 11 /\ tries \in 0..2
  BY YahooTypes, CallsAre DEF StatementFx, Doing, YahooInv
<1>2. raw = TRUE /\ hit \in BOOLEAN /\ limited = hit
  BY <1>1, YahooTypes DEF YahooInv, RawInv, LimitInv
<1>3. fx' \in {None, One} \cup Rate /\ rateCache' \in {None} \cup Rate
  <2>1. pass \in Rate /\ fx \in {None, One} \cup Rate /\ rateCache \in {None} \cup Rate
    BY YahooTypes DEF YahooInv, Rate
  <2> QED BY <2>1 DEF StatementFx
<1>4. UNCHANGED <<pass, nth, has, foreign, shared, entries, raw, pressed, hit, limited>>
  BY DEF StatementFx, UnchangedTitle, UnchangedYf, NoLimit
<1>5. tries' \in 0..2 /\ call' \in 11..12
  BY <1>1 DEF StatementFx, GoOn, GoTo, Again
<1>6. hit' \in BOOLEAN /\ limited' = hit' /\ (hit => hit')
  BY <1>2, <1>4, Zenon
<1>7. call' \in 1..12 /\ call' # 1 /\ call \in 5..12 /\ call' >= call
  BY <1>1, <1>5
<1> QED BY <1>2, <1>3, <1>4, <1>5, <1>6, <1>7, OtherCall

LEMMA NextTickerKeeps ==
  ASSUME YahooInv, NextTicker
  PROVE  YahooInv'
<1>1. pass \in 1..NumRuns /\ nth \in 1..NumListed /\ rateCache \in {None} \cup Rate
  BY YahooTypes DEF YahooInv
<1>2. pass' \in 1..NumRuns /\ nth' \in 1..NumListed
  BY <1>1, YahooAssumption DEF NextTicker
<1>3. rateCache' \in {None} \cup Rate
  BY <1>1 DEF NextTicker
<1> QED BY <1>2, <1>3, Starts DEF NextTicker

LEMMA YahooInitInv == YahooInit => YahooInv
<1> SUFFICES ASSUME YahooInit PROVE YahooInv
  OBVIOUS
<1>1. YahooTypeOK
  <2>1. entries \in [Kinds -> Status]
    BY DEF YahooInit, Status
  <2>2. hit \in BOOLEAN /\ foreign \in BOOLEAN /\ raw \in BOOLEAN /\ limited \in BOOLEAN /\ pressed \in BOOLEAN
    BY DEF YahooInit
  <2>3. call \in 1..Len(Calls) /\ tries \in 0..2 /\ pass \in 1..NumRuns /\ nth \in 1..NumListed
    BY CallsAre, YahooAssumption DEF YahooInit
  <2> QED BY <2>1, <2>2, <2>3 DEF YahooInit, YahooTypeOK, Status
<1>2. \A k \in Kinds : EntryInv(k)
  BY CallsAre DEF YahooInit, EntryInv
<1>3. LimitInv
  BY Zenon DEF YahooInit, LimitInv
<1>4. RawInv /\ FailedInv
  BY DEF YahooInit, RawInv, FailedInv
<1> QED BY <1>1, <1>2, <1>3, <1>4 DEF YahooInv

LEMMA YahooNextInv == YahooInv /\ [YahooNext]_yahooVars => YahooInv'
<1> SUFFICES ASSUME YahooInv, [YahooNext]_yahooVars PROVE YahooInv'
  OBVIOUS
<1>1. CASE BaseData
  BY <1>1, BaseDataKeeps
<1>2. CASE \E k \in Kinds : SkipKind(k) \/ KindFromCache(k) \/ AskKind(k)
  BY <1>2, SkipKindKeeps, KindFromCacheKeeps, AskKindKeeps
<1>3. CASE AskSeries \/ SkipSeries
  BY <1>3, SeriesKeeps
<1>4. CASE StatementFx \/ NextTicker
  BY <1>4, StatementFxKeeps, NextTickerKeeps
<1>5. CASE UNCHANGED yahooVars
  BY <1>5 DEF yahooVars, YahooInv, YahooTypeOK, RawInv, LimitInv, EntryInv, FailedInv
<1> QED BY <1>1, <1>2, <1>3, <1>4, <1>5 DEF YahooNext

\* Any order of answers, retries, rate limits and HTTP errors keeps the invariant.
THEOREM YahooInvariant == YahooSpec => []YahooInv
BY YahooInitInv, YahooNextInv, PTL DEF YahooSpec

\* What a title is done with says of each kind what Yahoo has of it: neither an error
\* that yfinance keeps as nothing, nor a rate limit of another title, nor a call that
\* was passed over ends as "empty" (_mark_follow_up_errors, _RateLimitGuard).
THEOREM ConsensusTrue == YahooSpec => []ConsensusIsTrue
<1>1. YahooInv => ConsensusIsTrue
  <2> SUFFICES ASSUME YahooInv PROVE ConsensusIsTrue
    OBVIOUS
  <2>1. ~pressed
    BY Zenon DEF YahooInv, LimitInv
  <2>2. ASSUME Doing("done"), raw, NEW k \in Kinds
        PROVE  /\ entries[k] = "empty" => k \notin has
               /\ entries[k] = "ok" => k \in has
               /\ entries[k] \in {"skipped", "unasked"} => limited
    <3>1. call = 12
      BY <2>2, YahooTypes, CallsAre DEF YahooInv, Doing
    <3>2. CallPlace(k) < 12 /\ CallPlace(k) \in Nat
      BY CallsAre
    <3>3. EntryInv(k)
      BY DEF YahooInv
    <3> QED BY <2>2, <3>1, <3>2, <3>3 DEF EntryInv
  <2> QED BY <2>1, <2>2 DEF ConsensusIsTrue
<1> QED BY <1>1, YahooInvariant, PTL

------------------------------------------------------------------------------
(* Universe.                                                                 *)

\* What is kept of a list of tickers are tickers.
LEMMA PlacesAre ==
  ASSUME NEW T, NEW s \in Seq(T), NEW places \in SUBSET (1..Len(s))
  PROVE  AtPlaces(s, places) \in Seq(T)
<1>1. Len(s) \in Nat /\ \A i \in places : s[i] \in T
  OBVIOUS
<1>2. AtPlaces(s, places) = [k \in 1..Cardinality(places) |->
                               s[CHOOSE i \in places : Cardinality({j \in places : j <= i}) = k]]
  BY DEF AtPlaces
<1>3. ASSUME NEW k \in 1..Cardinality(places)
      PROVE  s[CHOOSE i \in places : Cardinality({j \in places : j <= i}) = k] \in T
  <2>1. \E i \in places : Cardinality({j \in places : j <= i}) = k
    BY <1>1, PlaceOfCount
  <2> QED BY <1>1, <2>1
<1>4. Cardinality(places) \in Nat
  BY <1>1, CountedNumbers
<1>5. AtPlaces(s, places) \in [1..Cardinality(places) -> T]
  BY <1>2, <1>3
<1> QED BY <1>4, <1>5

LEMMA TickersAre ==
  ASSUME NEW s \in Seq(Ticker)
  PROVE  Dedupe(s) \in Seq(Ticker) /\ OnlyDax(s) \in Seq(Ticker)
<1>1. /\ {i \in DOMAIN s : \A j \in 1..(i - 1) : s[j].symbol # s[i].symbol} \in SUBSET (1..Len(s))
      /\ {i \in DOMAIN s : s[i].index = "DAX"} \in SUBSET (1..Len(s))
  OBVIOUS
<1> QED BY <1>1, PlacesAre DEF Dedupe, OnlyDax

------------------------------------------------------------------------------
(* Titles of an index.                                                       *)

OnlyOf(t, x) == \A i \in 1..Len(t) : t[i].index = x

\* Titles of one index are added to its number only.
LEMMA IndexCount ==
  ASSUME NEW s \in Seq(Ticker), NEW t \in Seq(Ticker), NEW x, OnlyOf(t, x), NEW y
  PROVE  OfIndex(s \o t, y) = OfIndex(s, y) + (IF y = x THEN Len(t) ELSE 0)
<1>1. /\ Len(s) \in Nat /\ Len(t) \in Nat /\ DOMAIN s = 1..Len(s) /\ DOMAIN (s \o t) = 1..(Len(s) + Len(t))
      /\ \A i \in 1..(Len(s) + Len(t)) : (s \o t)[i] = IF i <= Len(s) THEN s[i] ELSE t[i - Len(s)]
  OBVIOUS
<1> DEFINE old == {i \in 1..Len(s) : s[i].index = y}
           new == IF y = x THEN (Len(s) + 1)..(Len(s) + Len(t)) ELSE {}
<1>2. {i \in DOMAIN (s \o t) : (s \o t)[i].index = y} = old \cup new
  BY <1>1 DEF OnlyOf
<1>3. IsFiniteSet(old) /\ IsFiniteSet(new) /\ old \cap new = {}
  <2>1. IsFiniteSet(1..Len(s)) /\ old \in SUBSET (1..Len(s))
    BY <1>1, FS_Interval
  <2>2. IsFiniteSet(old)
    BY <2>1, FS_Subset
  <2>3. IsFiniteSet(new)
    <3>1. CASE y = x
      BY <1>1, <3>1, FS_Interval
    <3>2. CASE y # x
      BY <3>2, FS_EmptySet
    <3> QED BY <3>1, <3>2
  <2>4. old \cap new = {}
    BY <1>1
  <2> QED BY <2>2, <2>3, <2>4
<1>4. Cardinality(new) = IF y = x THEN Len(t) ELSE 0
  <2>1. CASE y = x
    <3>1. PICK a, b : a = Len(s) + 1 /\ b = Len(s) + Len(t)
      OBVIOUS
    <3>2. a \in Int /\ b \in Int /\ (a > b <=> Len(t) = 0) /\ b - a + 1 = Len(t)
      BY <1>1, <3>1
    <3>3. Cardinality(a..b) = IF a > b THEN 0 ELSE b - a + 1
      BY <3>2, FS_Interval
    <3> QED BY <2>1, <3>1, <3>2, <3>3
  <2>2. CASE y # x
    BY <2>2, FS_EmptySet
  <2> QED BY <2>1, <2>2
<1> HIDE DEF old, new
<1>5. Cardinality(old \cup new) = Cardinality(old) + Cardinality(new) - 0
  BY <1>3, FS_Union, FS_EmptySet
<1>6. Cardinality(old) \in Nat /\ Cardinality(new) \in Nat
  BY <1>3, FS_CardinalityType
<1>7. OfIndex(s \o t, y) = Cardinality(old \cup new)
  BY <1>2 DEF OfIndex
<1>8. OfIndex(s, y) = Cardinality(old)
  BY <1>1 DEF OfIndex, old
<1> QED BY <1>4, <1>5, <1>6, <1>7, <1>8

LEMMA NoneOfIndex == \A y : OfIndex(<<>>, y) = 0
<1>1. \A y : {i \in DOMAIN <<>> : <<>>[i].index = y} = {}
  OBVIOUS
<1> QED BY <1>1, FS_EmptySet DEF OfIndex

------------------------------------------------------------------------------
(* The table of titles.                                                      *)

TitleTable == UNION {[D -> Isins \cup {NoIsin}] : D \in SUBSET Symbols}

\* table is as from, with some ISINs more.
Keeps(from, table) ==
  /\ table \in TitleTable /\ Unique(table)
  /\ DOMAIN table = DOMAIN from
  /\ \A s \in DOMAIN from : from[s] # NoIsin => table[s] = from[s]

\* One title: an ISIN that is set stays, and none is given twice.
LEMMA WriteKeeps ==
  ASSUME NEW from, NEW table, Keeps(from, table), NEW t \in Ticker, t.symbol \in DOMAIN table
  PROVE  Keeps(from, WriteIsin(table, t))
<1>1. t.symbol \in Symbols /\ t.isin \in Isins \cup {NoIsin}
  BY DEF Ticker
<1>2. PICK D \in SUBSET Symbols : table \in [D -> Isins \cup {NoIsin}]
  BY DEF Keeps, TitleTable
<1>3. CASE t.isin # NoIsin /\ table[t.symbol] = NoIsin /\ \A s \in DOMAIN table : table[s] # t.isin
  <2>1. PICK u : u = [table EXCEPT ![t.symbol] = t.isin]
    OBVIOUS
  <2>2. /\ WriteIsin(table, t) = u /\ u \in [D -> Isins \cup {NoIsin}]
        /\ u[t.symbol] = t.isin /\ \A s \in D : s # t.symbol => u[s] = table[s]
    BY <1>1, <1>2, <1>3, <2>1 DEF WriteIsin
  <2>3. Unique(u)
    BY <1>2, <1>3, <2>2 DEF Unique, Keeps
  <2>4. u \in TitleTable /\ DOMAIN u = DOMAIN from
    BY <1>2, <2>2 DEF TitleTable, Keeps
  <2>5. \A s \in DOMAIN from : from[s] # NoIsin => u[s] = from[s]
    BY <1>2, <1>3, <2>2 DEF Keeps
  <2> QED BY <2>2, <2>3, <2>4, <2>5 DEF Keeps
<1>4. CASE ~(t.isin # NoIsin /\ table[t.symbol] = NoIsin /\ \A s \in DOMAIN table : table[s] # t.isin)
  BY <1>4 DEF WriteIsin
<1> QED BY <1>3, <1>4

\* Title by title.  The function that write_isins computes exists, since a first title
\* up to which there is none cannot be.
LEMMA WritesAre ==
  ASSUME NEW table, NEW tickers \in Seq(Ticker)
  PROVE  \E f : /\ DOMAIN f = 0..Len(tickers) /\ f[0] = table
                /\ \A i \in 1..Len(tickers) : f[i] = WriteIsin(f[i - 1], tickers[i])
                /\ WriteIsins(table, tickers) = f[Len(tickers)]
<1> DEFINE N == Len(tickers)
           Step(f, i) == IF i = 0 THEN table ELSE WriteIsin(f[i - 1], tickers[i])
           Upto(n) == \E f : f = [i \in 0..n |-> Step(f, i)]
<1>1. N \in Nat
  OBVIOUS
<1>2. \A n \in 0..N : Upto(n)
  <2> SUFFICES ASSUME {n \in 0..N : ~Upto(n)} # {} PROVE FALSE
    OBVIOUS
  <2>1. {n \in 0..N : ~Upto(n)} \in SUBSET Nat
    BY <1>1
  <2> HIDE DEF Upto
  <2>2. PICK n \in 0..N : ~Upto(n) /\ \A m \in 0..N : ~Upto(m) => n <= m
    <3>1. PICK S : S = {n \in 0..N : ~Upto(n)}
      OBVIOUS
    <3>2. \E m \in S : \A k \in S : m <= k
      BY <2>1, <3>1, LeastNumber
    <3> QED BY <3>1, <3>2
  <2>3. CASE n = 0
    <3>1. PICK g : g = [i \in 0..0 |-> table]
      OBVIOUS
    <3>2. g = [i \in 0..0 |-> Step(g, i)]
      BY <3>1
    <3> QED BY <2>2, <2>3, <3>2 DEF Upto
  <2>4. CASE n # 0
    <3>1. n - 1 \in 0..N /\ n - 1 < n /\ n \in Nat
      BY <1>1, <2>4
    <3>2. Upto(n - 1)
      BY <2>2, <3>1
    <3>3. PICK f : f = [i \in 0..(n - 1) |-> Step(f, i)]
      BY <3>2 DEF Upto
    <3>4. PICK g : g = [i \in 0..n |-> IF i = n THEN WriteIsin(f[n - 1], tickers[n]) ELSE f[i]]
      OBVIOUS
    <3>5. \A i \in 0..n : g[i] = Step(g, i)
      <4>1. SUFFICES ASSUME NEW i \in 0..n PROVE g[i] = Step(g, i)
        OBVIOUS
      <4>2. CASE i = n
        <5>1. g[n] = WriteIsin(f[n - 1], tickers[n]) /\ g[n - 1] = f[n - 1]
          BY <3>1, <3>4
        <5> QED BY <2>4, <4>2, <5>1
      <4>3. CASE i # n
        <5>1. i \in 0..(n - 1)
          BY <3>1, <4>3
        <5>2. g[i] = f[i] /\ f[i] = Step(f, i)
          BY <3>3, <3>4, <4>3, <5>1
        <5>3. i # 0 => i - 1 \in 0..n /\ i - 1 # n
          BY <3>1, <5>1
        <5>4. i # 0 => g[i - 1] = f[i - 1]
          BY <3>4, <5>3
        <5> QED BY <5>2, <5>4
      <4> QED BY <4>2, <4>3
    <3>6. g = [i \in 0..n |-> Step(g, i)]
      BY <3>4, <3>5
    <3> QED BY <2>2, <3>6 DEF Upto
  <2> QED BY <2>3, <2>4
<1>3. Upto(N)
  BY <1>1, <1>2
<1>4. PICK f : f = CHOOSE h : h = [i \in 0..N |-> Step(h, i)]
  OBVIOUS
<1>5. f = [i \in 0..N |-> Step(f, i)]
  BY <1>3, <1>4
<1>6. WriteIsins(table, tickers) = f[N]
  BY <1>4 DEF WriteIsins
<1>7. f[0] = table /\ \A i \in 1..N : f[i] = WriteIsin(f[i - 1], tickers[i])
  <2>1. \A i \in 0..N : f[i] = Step(f, i)
    BY <1>5, Zenon
  <2> HIDE DEF Step
  <2>2. 0 \in 0..N /\ \A i \in 1..N : i \in 0..N /\ i # 0
    BY <1>1
  <2> QED BY <2>1, <2>2 DEF Step
<1>8. DOMAIN f = 0..N
  BY <1>5, Zenon
<1> QED BY <1>6, <1>7, <1>8

\* What is created keeps the ISINs there are and gives none.
LEMMA CreatedKeeps ==
  ASSUME NEW table \in TitleTable, Unique(table), NEW symbols \in SUBSET Symbols
  PROVE  /\ Keeps(Created(table, symbols), Created(table, symbols))
         /\ symbols \subseteq DOMAIN Created(table, symbols)
         /\ \A s \in DOMAIN table : s \in DOMAIN Created(table, symbols) /\ Created(table, symbols)[s] = table[s]
<1>1. PICK D \in SUBSET Symbols : table \in [D -> Isins \cup {NoIsin}]
  BY DEF TitleTable
<1>2. PICK new : new = Created(table, symbols)
  OBVIOUS
<1>3. new = [s \in D \cup symbols |-> IF s \in D THEN table[s] ELSE NoIsin]
  BY <1>1, <1>2 DEF Created
<1>4. /\ DOMAIN new = D \cup symbols /\ new \in [D \cup symbols -> Isins \cup {NoIsin}]
      /\ \A s \in D : new[s] = table[s]
      /\ \A s \in symbols \ D : new[s] = NoIsin
  BY <1>1, <1>3
<1>5. Unique(new)
  BY <1>1, <1>4 DEF Unique
<1>6. new \in TitleTable
  BY <1>4 DEF TitleTable
<1> QED BY <1>1, <1>2, <1>4, <1>5, <1>6 DEF Keeps

\* All titles: so the constraint of the table is never hit.
LEMMA AllWritesKeep ==
  ASSUME NEW table, Keeps(table, table), NEW tickers \in Seq(Ticker),
         \A i \in 1..Len(tickers) : tickers[i].symbol \in DOMAIN table
  PROVE  Keeps(table, WriteIsins(table, tickers))
<1>1. PICK f : /\ DOMAIN f = 0..Len(tickers) /\ f[0] = table
               /\ \A i \in 1..Len(tickers) : f[i] = WriteIsin(f[i - 1], tickers[i])
               /\ WriteIsins(table, tickers) = f[Len(tickers)]
  BY WritesAre
<1>2. Len(tickers) \in Nat /\ \A i \in 1..Len(tickers) : tickers[i] \in Ticker
  OBVIOUS
<1>3. \A n \in 0..Len(tickers) : Keeps(table, f[n])
  <2>1. PICK S : S = {n \in 0..Len(tickers) : ~Keeps(table, f[n])}
    OBVIOUS
  <2>2. SUFFICES ASSUME S # {} PROVE FALSE
    BY <2>1
  <2>3. S \in SUBSET Nat
    BY <2>1
  <2>4. PICK n \in S : \A m \in S : n <= m
    BY <2>2, <2>3, LeastNumber
  <2>5. n \in 1..Len(tickers)
    BY <1>1, <2>1, <2>4
  <2>6. Keeps(table, f[n - 1])
    BY <1>2, <2>1, <2>4, <2>5
  <2>7. Keeps(table, f[n])
    BY <1>1, <1>2, <2>5, <2>6, WriteKeeps DEF Keeps
  <2> QED BY <2>1, <2>4, <2>7
<1> QED BY <1>1, <1>2, <1>3

------------------------------------------------------------------------------
(* The chain of sources.                                                     *)

\* A source is asked after those before it were given up, and has for each index so far
\* all its titles, and none of another.
AskInv ==
  asking # 0 =>
    /\ universe = <<>> /\ answered < 2
    /\ refused = IF asking = 1 THEN {} ELSE {"iShares"}
    /\ \A j \in 1..2 : OfIndex(loaded, Indices[j]) = IF j <= answered THEN Expected[Indices[j]] ELSE 0

TitlesInv == isinOf \in TitleTable /\ Unique(isinOf) /\ fetch # "failed"

UniverseInv == UniverseTypeOK /\ AskInv /\ UniverseFromOneSource /\ TitlesInv

LEMMA SourcesAre ==
  /\ Len(Sources) = 2 /\ Sources[1] = "iShares" /\ Sources[2] = "Deka" /\ ToSet(Sources) = {"iShares", "Deka"}
  /\ FallbackSource \notin ToSet(Sources)
  /\ Len(Indices) = 2 /\ Indices[1] = "DAX" /\ Indices[2] = "MDAX" /\ ToSet(Indices) = {"DAX", "MDAX"}
  /\ Expected["DAX"] \in Nat /\ Expected["MDAX"] \in Nat
<1>1. /\ Len(Sources) = 2 /\ Sources[1] = "iShares" /\ Sources[2] = "Deka" /\ DOMAIN Sources = 1..2
      /\ Len(Indices) = 2 /\ Indices[1] = "DAX" /\ Indices[2] = "MDAX" /\ DOMAIN Indices = 1..2
  BY DEF Sources, Indices
<1>2. \A i \in 1..2 : i = 1 \/ i = 2
  OBVIOUS
<1>3. 1 \in 1..2 /\ 2 \in 1..2
  OBVIOUS
<1>4. ToSet(Sources) = {"iShares", "Deka"} /\ ToSet(Indices) = {"DAX", "MDAX"}
  BY <1>1, <1>2, <1>3 DEF ToSet
<1> QED BY <1>1, <1>4, UniverseAssumption DEF FallbackSource

LEMMA UniverseTypes ==
  ASSUME UniverseTypeOK
  PROVE  /\ asking \in 0..2 /\ answered \in 0..2 /\ loaded \in Seq(Ticker) /\ Index = Indices[answered + 1]
         /\ answered < 2 => Index \in {"DAX", "MDAX"}
<1>1. asking \in 0..2 /\ answered \in 0..2 /\ loaded \in Seq(Ticker)
  BY SourcesAre DEF UniverseTypeOK
<1>2. answered < 2 => answered = 0 \/ answered = 1
  BY <1>1
<1> QED BY <1>1, <1>2, SourcesAre DEF Index

LEMMA AnswerKeeps ==
  ASSUME UniverseInv, asking # 0, NEW tickers \in Seq(Ticker), Len(tickers) = Expected[Index],
         \A i \in 1..Len(tickers) : tickers[i].index = Index, Answer(tickers)
  PROVE  UniverseInv'
<1>1. asking \in 1..2 /\ answered \in 0..1 /\ loaded \in Seq(Ticker) /\ Index = Indices[answered + 1]
  BY UniverseTypes DEF UniverseInv, AskInv
<1>2. PICK s : s = loaded \o tickers
  OBVIOUS
<1>3. /\ loaded' = s /\ s \in Seq(Ticker) /\ answered' = answered + 1
      /\ UNCHANGED <<refused, forced, isinOf, fetch, loads>>
  BY <1>1, <1>2 DEF Answer
<1>4. /\ answered = 1 => universe' = <<Sources[asking], Dedupe(s)>> /\ asking' = 0
      /\ answered = 0 => universe' = universe /\ asking' = asking
  BY <1>1, <1>3, SourcesAre DEF Answer
<1>5. \A j \in 1..2 : OfIndex(s, Indices[j]) = IF j <= answered + 1 THEN Expected[Indices[j]] ELSE 0
  <2>1. SUFFICES ASSUME NEW j \in 1..2
                 PROVE  OfIndex(s, Indices[j]) = IF j <= answered + 1 THEN Expected[Indices[j]] ELSE 0
    OBVIOUS
  <2>2. OfIndex(s, Indices[j]) = OfIndex(loaded, Indices[j]) + (IF Indices[j] = Index THEN Len(tickers) ELSE 0)
    <3>1. PICK x, y : x = Index /\ y = Indices[j]
      OBVIOUS
    <3>2. OnlyOf(tickers, x)
      BY <3>1 DEF OnlyOf
    <3>3. OfIndex(loaded \o tickers, y) = OfIndex(loaded, y) + (IF y = x THEN Len(tickers) ELSE 0)
      <4>1. PICK l : l = loaded
        OBVIOUS
      <4>2. l \in Seq(Ticker) /\ tickers \in Seq(Ticker)
        BY <1>1, <4>1
      <4>3. OfIndex(l \o tickers, y) = OfIndex(l, y) + (IF y = x THEN Len(tickers) ELSE 0)
        BY <3>2, <4>2, IndexCount
      <4> QED BY <4>1, <4>3
    <3> QED BY <1>2, <3>1, <3>3
  <2>3. OfIndex(loaded, Indices[j]) = IF j <= answered THEN Expected[Indices[j]] ELSE 0
    BY DEF UniverseInv, AskInv
  <2>4. Indices[j] = Index <=> j = answered + 1
    BY <1>1, SourcesAre
  <2>5. Expected[Indices[j]] \in Nat
    BY SourcesAre
  <2> QED BY <1>1, <2>2, <2>3, <2>4, <2>5
<1>6. TitlesInv'
  BY <1>3 DEF UniverseInv, TitlesInv
<1>7. AskInv'
  BY <1>1, <1>3, <1>4, <1>5 DEF UniverseInv, AskInv
<1>8. UniverseFromOneSource'
  <2>1. CASE answered = 1
    <3>1. PICK src : src = Sources[asking]
      OBVIOUS
    <3>2. src \in ToSet(Sources) /\ src # FallbackSource /\ src \notin refused
      BY <1>1, <3>1, SourcesAre DEF UniverseInv, AskInv, FallbackSource
    <3>3. \A index \in ToSet(Indices) : OfIndex(s, index) = Expected[index]
      BY <1>5, <2>1, SourcesAre
    <3>4. universe'[1] = src /\ universe'[2] = Dedupe(s)
      BY <1>4, <2>1, <3>1
    <3> QED BY <1>3, <3>2, <3>3, <3>4 DEF UniverseFromOneSource
  <2>2. CASE answered = 0
    <3>1. universe' = <<>>
      BY <1>4, <2>2 DEF UniverseInv, AskInv
    <3> QED BY <3>1 DEF UniverseFromOneSource
  <2> QED BY <1>1, <2>1, <2>2
<1>9. UniverseTypeOK'
  <2>1. universe' = <<>> \/ (universe'[1] \in ToSet(Sources) \cup {FallbackSource} /\ universe'[2] \in Seq(Ticker))
    <3>1. CASE answered = 1
      <4>1. Sources[asking] \in ToSet(Sources) /\ Dedupe(s) \in Seq(Ticker)
        BY <1>1, <1>3, SourcesAre, TickersAre
      <4> QED BY <1>4, <3>1, <4>1
    <3>2. CASE answered = 0
      BY <1>4, <3>2 DEF UniverseInv, AskInv
    <3> QED BY <1>1, <3>1, <3>2
  <2>2. asking' \in 0..2 /\ answered' \in 0..2
    BY <1>1, <1>3, <1>4
  <2> QED BY <1>3, <2>1, <2>2, SourcesAre DEF UniverseInv, UniverseTypeOK
<1> QED BY <1>6, <1>7, <1>8, <1>9 DEF UniverseInv

LEMMA AskIsharesKeeps ==
  ASSUME UniverseInv, AskIshares
  PROVE  UniverseInv'
<1>1. asking # 0 /\ Index \in {"DAX", "MDAX"}
  BY UniverseTypes DEF AskIshares, UniverseInv, AskInv
<1>2. PICK list \in Rows(Symbols \X Isins) :
        /\ Len(list) = Expected[Index]
        /\ Answer([i \in DOMAIN list |-> [symbol |-> list[i][1], index |-> Index, isin |-> list[i][2]]])
  BY DEF AskIshares
<1>3. PICK n \in Nat : list \in [1..n -> Symbols \X Isins]
  BY UniverseAssumption DEF Rows
<1>4. PICK t : t = [i \in DOMAIN list |-> [symbol |-> list[i][1], index |-> Index, isin |-> list[i][2]]]
  OBVIOUS
<1>5. DOMAIN list = 1..n /\ Len(list) = n
  BY <1>3
<1>6. \A i \in 1..n : /\ [symbol |-> list[i][1], index |-> Index, isin |-> list[i][2]] \in Ticker
                      /\ t[i].index = Index
  BY <1>1, <1>3, <1>4, <1>5 DEF Ticker
<1>7. t \in [1..n -> Ticker]
  BY <1>4, <1>5, <1>6
<1>8. t \in Seq(Ticker) /\ Len(t) = n
  BY <1>7
<1> QED BY <1>1, <1>2, <1>4, <1>5, <1>6, <1>8, AnswerKeeps

LEMMA SymbolsAre == SymbolOf \in [DOMAIN SymbolOf -> Symbols]
<1>1. PICK list : list = Dedupe(Csv)
  OBVIOUS
<1>2. /\ list \in Seq(Ticker) /\ Len(list) \in Nat /\ DOMAIN list = 1..Len(list)
      /\ \A i \in 1..Len(list) : list[i] \in Ticker
  BY <1>1, UniverseAssumption, TickersAre
<1> DEFINE of(isin) == {i \in DOMAIN list : list[i].isin = isin}
           all == {list[i].isin : i \in DOMAIN list} \ {NoIsin}
<1>3. SymbolOf = [isin \in all |-> list[CHOOSE i \in of(isin) : \A j \in of(isin) : j <= i].symbol]
  BY <1>1 DEF SymbolOf
<1>4. ASSUME NEW isin \in all
      PROVE  list[CHOOSE i \in of(isin) : \A j \in of(isin) : j <= i].symbol \in Symbols
  <2>1. of(isin) \in SUBSET Nat /\ of(isin) # {} /\ \A i \in of(isin) : i <= Len(list) /\ list[i] \in Ticker
    BY <1>2
  <2> HIDE DEF of
  <2>2. \E i \in of(isin) : \A j \in of(isin) : j <= i
    BY <1>2, <2>1, GreatestNumber
  <2>3. PICK i : i = CHOOSE m \in of(isin) : \A j \in of(isin) : j <= m
    OBVIOUS
  <2>4. i \in of(isin)
    BY <2>2, <2>3
  <2>5. list[i].symbol \in Symbols
    BY <2>1, <2>4 DEF Ticker
  <2> QED BY <2>3, <2>5
<1> HIDE DEF of, all
<1> QED BY <1>3, <1>4

LEMMA AskDekaKeeps ==
  ASSUME UniverseInv, AskDeka
  PROVE  UniverseInv'
<1>1. asking # 0 /\ Index \in {"DAX", "MDAX"}
  BY UniverseTypes DEF AskDeka, UniverseInv, AskInv
<1>2. PICK list, resolved :
        /\ list \in Rows(Isins) /\ resolved \in Resolve(ToSet(list) \ DOMAIN SymbolOf)
        /\ Len(list) = Expected[Index]
        /\ DOMAIN resolved = ToSet(list) \ DOMAIN SymbolOf
        /\ Answer([i \in DOMAIN list |->
                     [symbol |-> IF list[i] \in ToSet(list) \ DOMAIN SymbolOf THEN resolved[list[i]]
                                 ELSE SymbolOf[list[i]],
                      index |-> Index, isin |-> list[i]]])
  BY DEF AskDeka
<1> DEFINE symbol(x) == IF x \in ToSet(list) \ DOMAIN SymbolOf THEN resolved[x] ELSE SymbolOf[x]
<1>3. PICK n \in Nat : list \in [1..n -> Isins]
  BY <1>2, UniverseAssumption, SMTT(30) DEF Rows
<1>5. PICK t : t = [i \in DOMAIN list |-> [symbol |-> symbol(list[i]), index |-> Index, isin |-> list[i]]]
  OBVIOUS
<1>6. DOMAIN list = 1..n /\ Len(list) = n
  BY <1>3
<1>7. \A i \in 1..n : symbol(list[i]) \in Symbols
  <2>1. SUFFICES ASSUME NEW i \in 1..n PROVE symbol(list[i]) \in Symbols
    OBVIOUS
  <2>2. PICK x : x = list[i]
    OBVIOUS
  <2>3. \A y \in DOMAIN resolved : resolved[y] \in Symbols
    BY <1>2 DEF Resolve
  <2>4. x \in DOMAIN SymbolOf \/ x \in DOMAIN resolved
    BY <1>2, <1>6, <2>2 DEF ToSet
  <2>5. \A y \in DOMAIN SymbolOf : SymbolOf[y] \in Symbols
    BY SymbolsAre
  <2>6. symbol(x) \in Symbols
    BY <1>2, <2>3, <2>4, <2>5
  <2> QED BY <2>2, <2>6
<1>9. Answer(t)
  BY <1>2, <1>5
<1> HIDE DEF symbol
<1>8. \A i \in 1..n : /\ [symbol |-> symbol(list[i]), index |-> Index, isin |-> list[i]] \in Ticker
                      /\ t[i].index = Index
  BY <1>1, <1>3, <1>5, <1>6, <1>7 DEF Ticker
<1>10. t \in [1..n -> Ticker]
  BY <1>5, <1>6, <1>8
<1>11. t \in Seq(Ticker) /\ Len(t) = n
  BY <1>10
<1> QED BY <1>1, <1>2, <1>6, <1>8, <1>9, <1>11, AnswerKeeps

LEMMA StartLoadKeeps ==
  ASSUME UniverseInv, StartLoad
  PROVE  UniverseInv'
<1>1. PICK by : by = forced'
  OBVIOUS
<1>2. /\ asking = 0 /\ loads < NumLoads /\ loads' = loads + 1 /\ by \in BOOLEAN
      /\ asking' = IF by THEN 0 ELSE 1
      /\ universe' = IF by THEN <<FallbackSource, Dedupe(Csv)>> ELSE <<>>
      /\ answered' = 0 /\ loaded' = <<>> /\ refused' = {}
      /\ UNCHANGED <<isinOf, fetch>>
  BY <1>1 DEF StartLoad
<1>3. Dedupe(Csv) \in Seq(Ticker) /\ <<>> \in Seq(Ticker)
  BY UniverseAssumption, TickersAre
<1>4. asking' \in 0..2 /\ (asking' # 0 => asking' = 1 /\ universe' = <<>>)
  BY <1>2
<1>5. universe' # <<>> => by = TRUE /\ universe'[1] = FallbackSource /\ universe'[2] = Dedupe(Csv)
  BY <1>2
<1>6. UniverseTypeOK'
  <2>1. loads' \in 0..NumLoads
    BY <1>2, UniverseAssumption DEF UniverseInv, UniverseTypeOK
  <2>2. forced' \in BOOLEAN
    BY <1>1, <1>2
  <2>3. \/ universe' = <<>>
        \/ universe'[1] \in ToSet(Sources) \cup {FallbackSource} /\ universe'[2] \in Seq(Ticker)
    BY <1>3, <1>5
  <2> QED BY <1>2, <1>3, <1>4, <2>1, <2>2, <2>3, SourcesAre DEF UniverseInv, UniverseTypeOK
<1>7. AskInv'
  <2>1. \A j \in 1..2 : ~(j <= 0)
    OBVIOUS
  <2> QED BY <1>2, <1>4, <2>1, NoneOfIndex DEF AskInv
<1>8. UniverseFromOneSource'
  <2>1. by = TRUE => forced'
    BY <1>1
  <2> QED BY <1>5, <2>1 DEF UniverseFromOneSource
<1>9. TitlesInv'
  BY <1>2 DEF UniverseInv, TitlesInv
<1> QED BY <1>6, <1>7, <1>8, <1>9 DEF UniverseInv

LEMMA GiveUpSourceKeeps ==
  ASSUME UniverseInv, GiveUpSource
  PROVE  UniverseInv'
<1>1. /\ asking \in 1..2 /\ refused' = refused \cup {Sources[asking]} /\ loaded' = <<>> /\ answered' = 0
      /\ asking' = IF asking = 2 THEN 0 ELSE asking + 1
      /\ universe' = IF asking = 2 THEN <<FallbackSource, Dedupe(Csv)>> ELSE universe
      /\ UNCHANGED <<forced, isinOf, fetch, loads>>
  BY SourcesAre, UniverseTypes DEF GiveUpSource, UniverseInv
<1>2. universe = <<>> /\ refused = IF asking = 1 THEN {} ELSE {"iShares"}
  BY <1>1 DEF UniverseInv, AskInv
<1>3. Dedupe(Csv) \in Seq(Ticker) /\ <<>> \in Seq(Ticker)
  BY UniverseAssumption, TickersAre
<1>4. CASE asking = 1
  <2>1. asking' = 2 /\ universe' = <<>> /\ refused' = {"iShares"}
    BY <1>1, <1>2, <1>4, SourcesAre
  <2>2. AskInv'
    <3>1. \A j \in 1..2 : ~(j <= 0)
      OBVIOUS
    <3> QED BY <1>1, <2>1, <3>1, NoneOfIndex DEF AskInv
  <2>3. UniverseTypeOK'
    BY <1>1, <1>3, <2>1, SourcesAre DEF UniverseInv, UniverseTypeOK
  <2> QED BY <1>1, <2>1, <2>2, <2>3 DEF UniverseInv, TitlesInv, UniverseFromOneSource
<1>5. CASE asking = 2
  <2>1. /\ asking' = 0 /\ refused' = ToSet(Sources)
        /\ universe'[1] = FallbackSource /\ universe'[2] = Dedupe(Csv)
    BY <1>1, <1>2, <1>5, SourcesAre
  <2>2. UniverseTypeOK'
    BY <1>1, <1>3, <2>1, SourcesAre DEF UniverseInv, UniverseTypeOK
  <2> QED BY <1>1, <2>1, <2>2 DEF UniverseInv, AskInv, TitlesInv, UniverseFromOneSource
<1> QED BY <1>1, <1>4, <1>5

\* The start of a fetch: the table keeps its ISINs, and the constraint holds.
LEMMA StartFetchIs ==
  ASSUME UniverseInv, StartFetchOfUniverse
  PROVE  /\ isinOf' \in TitleTable /\ Unique(isinOf)' /\ fetch' = "started" /\ universe' = <<>>
         /\ \A s \in DOMAIN isinOf : isinOf[s] # NoIsin => isinOf'[s] = isinOf[s]
         /\ UNCHANGED <<asking, answered, loaded, refused, forced, loads>>
<1>0. PICK dax \in BOOLEAN :
        LET tickers == IF dax THEN OnlyDax(universe[2]) ELSE universe[2]
            table == WriteIsins(Created(isinOf, {tickers[i].symbol : i \in DOMAIN tickers}), tickers)
        IN IF Unique(table) THEN isinOf' = table /\ fetch' = "started"
                            ELSE isinOf' = isinOf /\ fetch' = "failed"
  BY DEF StartFetchOfUniverse
<1>1. PICK tickers, created, table :
        /\ tickers = IF dax THEN OnlyDax(universe[2]) ELSE universe[2]
        /\ created = Created(isinOf, {tickers[i].symbol : i \in DOMAIN tickers})
        /\ table = WriteIsins(created, tickers)
        /\ IF Unique(table) THEN isinOf' = table /\ fetch' = "started"
                            ELSE isinOf' = isinOf /\ fetch' = "failed"
  BY <1>0
<1>2. universe # <<>> /\ universe' = <<>> /\ UNCHANGED <<asking, answered, loaded, refused, forced, loads>>
  BY DEF StartFetchOfUniverse
<1>3. tickers \in Seq(Ticker)
  <2>1. PICK u : u = universe[2]
    OBVIOUS
  <2>2. u \in Seq(Ticker)
    BY <1>2, <2>1 DEF UniverseInv, UniverseTypeOK
  <2>3. OnlyDax(u) \in Seq(Ticker)
    BY <2>2, TickersAre
  <2> QED BY <1>1, <2>1, <2>2, <2>3
<1>4. PICK symbols : symbols = {tickers[i].symbol : i \in DOMAIN tickers}
  OBVIOUS
<1>5. /\ symbols \in SUBSET Symbols
      /\ \A i \in 1..Len(tickers) : tickers[i].symbol \in symbols
  <2>1. DOMAIN tickers = 1..Len(tickers) /\ \A i \in 1..Len(tickers) : tickers[i] \in Ticker
    BY <1>3
  <2> QED BY <1>4, <2>1 DEF Ticker
<1>6. PICK before : before = isinOf
  OBVIOUS
<1>7. before \in TitleTable /\ Unique(before) /\ created = Created(before, symbols)
  BY <1>1, <1>4, <1>6 DEF UniverseInv, TitlesInv
<1>8. /\ Keeps(created, created) /\ symbols \subseteq DOMAIN created
      /\ \A s \in DOMAIN before : s \in DOMAIN created /\ created[s] = before[s]
  BY <1>5, <1>7, CreatedKeeps
<1>9. Keeps(created, table)
  <2>1. \A i \in 1..Len(tickers) : tickers[i].symbol \in DOMAIN created
    BY <1>5, <1>8
  <2> QED BY <1>1, <1>3, <1>8, <2>1, AllWritesKeep
<1>10. isinOf' = table /\ fetch' = "started"
  BY <1>1, <1>9 DEF Keeps
<1>11. isinOf' \in TitleTable /\ Unique(isinOf)'
  BY <1>9, <1>10 DEF Keeps, Unique
<1>12. \A s \in DOMAIN before : before[s] # NoIsin => table[s] = before[s]
  BY <1>8, <1>9 DEF Keeps
<1> QED BY <1>2, <1>6, <1>10, <1>11, <1>12

LEMMA TablesAre ==
  ASSUME NEW table \in TitleTable
  PROVE  DOMAIN table \subseteq Symbols /\ \A s \in DOMAIN table : table[s] \in Isins \cup {NoIsin}
BY DEF TitleTable

LEMMA StartFetchKeeps ==
  ASSUME UniverseInv, StartFetchOfUniverse
  PROVE  UniverseInv'
<1>1. /\ isinOf' \in TitleTable /\ Unique(isinOf)' /\ fetch' = "started" /\ universe' = <<>>
      /\ UNCHANGED <<asking, answered, loaded, refused, forced, loads>>
  BY StartFetchIs
<1>2. universe # <<>>
  BY DEF StartFetchOfUniverse
<1>3. asking = 0
  BY <1>2 DEF UniverseInv, AskInv
<1>4. UniverseTypeOK'
  <2>1. PICK table : table = isinOf'
    OBVIOUS
  <2>2. DOMAIN table \subseteq Symbols /\ \A s \in DOMAIN table : table[s] \in Isins \cup {NoIsin}
    BY <1>1, <2>1, TablesAre
  <2> QED BY <1>1, <2>1, <2>2 DEF UniverseInv, UniverseTypeOK
<1> QED BY <1>1, <1>3, <1>4 DEF UniverseInv, AskInv, UniverseFromOneSource, TitlesInv

LEMMA UniverseInitInv == UniverseInit => UniverseInv
<1> SUFFICES ASSUME UniverseInit PROVE UniverseInv
  OBVIOUS
<1>1. isinOf \in TitleTable /\ Unique(isinOf) /\ DOMAIN isinOf = {}
  <2>1. DOMAIN isinOf = {} /\ isinOf \in [{} -> Isins \cup {NoIsin}]
    BY DEF UniverseInit
  <2> QED BY <2>1 DEF TitleTable, Unique
<1>2. UniverseTypeOK
  <2>1. loaded \in Seq(Ticker) /\ universe = <<>> /\ fetch \in {"none", "started", "failed"}
    BY DEF UniverseInit
  <2>2. asking \in 0..Len(Sources) /\ answered \in 0..Len(Indices) /\ loads \in 0..NumLoads
    BY UniverseAssumption, SourcesAre DEF UniverseInit
  <2>3. refused \subseteq ToSet(Sources) /\ forced \in BOOLEAN
    BY DEF UniverseInit
  <2>4. PICK table : table = isinOf
    OBVIOUS
  <2>5. DOMAIN table \subseteq Symbols /\ \A s \in DOMAIN table : table[s] \in Isins \cup {NoIsin}
    BY <1>1, <2>4
  <2> QED BY <2>1, <2>2, <2>3, <2>4, <2>5 DEF UniverseTypeOK
<1> QED BY <1>1, <1>2 DEF UniverseInit, UniverseInv, AskInv, UniverseFromOneSource, TitlesInv

LEMMA UniverseNextInv == UniverseInv /\ [UniverseNext]_universeVars => UniverseInv'
<1> SUFFICES ASSUME UniverseInv, [UniverseNext]_universeVars PROVE UniverseInv'
  OBVIOUS
<1>1. CASE StartLoad \/ AskIshares \/ AskDeka \/ GiveUpSource
  BY <1>1, StartLoadKeeps, AskIsharesKeeps, AskDekaKeeps, GiveUpSourceKeeps
<1>2. CASE StartFetchOfUniverse
  BY <1>2, StartFetchKeeps
<1>3. CASE UseFetchOfTheDay
  <2>1. /\ universe # <<>> /\ universe' = <<>>
        /\ UNCHANGED <<asking, answered, loaded, refused, forced, isinOf, fetch, loads>>
    BY <1>3 DEF UseFetchOfTheDay
  <2>2. asking = 0
    BY <2>1 DEF UniverseInv, AskInv
  <2>3. UniverseTypeOK'
    BY <2>1 DEF UniverseInv, UniverseTypeOK
  <2> QED BY <2>1, <2>2, <2>3 DEF UniverseInv, AskInv, UniverseFromOneSource, TitlesInv
<1>4. CASE UNCHANGED universeVars
  <2>1. UNCHANGED <<asking, answered, loaded, universe, refused, forced, isinOf, fetch, loads>>
    BY <1>4 DEF universeVars
  <2>2. UniverseTypeOK' /\ AskInv'
    BY <2>1 DEF UniverseInv, UniverseTypeOK, AskInv
  <2> QED BY <2>1, <2>2 DEF UniverseInv, UniverseFromOneSource, TitlesInv
<1> QED BY <1>1, <1>2, <1>3, <1>4 DEF UniverseNext

\* Whatever the sources answer and wherever they fail, the invariant holds.
THEOREM UniverseInvariant == UniverseSpec => []UniverseInv
BY UniverseInitInv, UniverseNextInv, PTL DEF UniverseSpec

\* A universe is the answer of one source for both indices, in the expected numbers; the
\* list by hand stands in only if it was asked for or both sources were given up.
THEOREM UniverseOfOneSource == UniverseSpec => []UniverseFromOneSource
<1>1. UniverseInv => UniverseFromOneSource
  BY DEF UniverseInv
<1> QED BY <1>1, UniverseInvariant, PTL

\* An ISIN that is set is never overwritten, and none is given to two titles, however often
\* they come and under whatever symbols: so the start of a fetch never fails on it.
THEOREM IsinsNeverChange == UniverseSpec => IsinsStay
<1>1. UniverseInv /\ UniverseInv' /\ [UniverseNext]_universeVars =>
        [/\ fetch' # "failed"
         /\ \A s \in DOMAIN isinOf : isinOf[s] # NoIsin => isinOf'[s] = isinOf[s]]_universeVars
  <2> SUFFICES ASSUME UniverseInv, UniverseInv', UniverseNext
               PROVE  \A s \in DOMAIN isinOf : isinOf[s] # NoIsin => isinOf'[s] = isinOf[s]
    BY DEF UniverseInv, TitlesInv
  <2>1. CASE StartFetchOfUniverse
    BY <2>1, StartFetchIs
  <2>2. CASE StartLoad \/ AskIshares \/ AskDeka \/ GiveUpSource \/ UseFetchOfTheDay
    BY <2>2 DEF StartLoad, AskIshares, AskDeka, GiveUpSource, UseFetchOfTheDay, Answer
  <2> QED BY <2>1, <2>2 DEF UniverseNext
<1> QED BY <1>1, UniverseInvariant, PTL DEF UniverseSpec, IsinsStay

------------------------------------------------------------------------------
(* Figures.                                                                  *)

\* A fraction has two parts, and is not Unknown.
LEMMA NumberIs ==
  ASSUME NEW x \in Fraction
  PROVE  x[1] \in Int /\ x[2] \in Int /\ x[2] > 0 /\ x = <<x[1], x[2]>> /\ Some(x) /\ Len(x) = 2 /\ x \in Figure
BY DEF Fraction, Some, Unknown, Figure

\* And two such parts make one.
LEMMA PairIs ==
  ASSUME NEW a \in Int, NEW b \in Int, b > 0
  PROVE  <<a, b>> \in Fraction /\ <<a, b>>[1] = a /\ <<a, b>>[2] = b
BY DEF Fraction

\* Nothing is the same in every unit; y is k times x.
Scaled(x, y, k) == x \in Fraction /\ y \in Fraction /\ y[1] * x[2] = k * (x[1] * y[2])
\* The same, or unknown both times.
OptIn(x, y, k) == (x = Unknown /\ y = Unknown) \/ Scaled(x, y, k)

\* The parts of numbers one of which is so many times the other.
LEMMA PartsAre ==
  ASSUME NEW x, NEW y, NEW k, Scaled(x, y, k)
  PROVE  x[1] \in Int /\ x[2] \in Int /\ x[2] > 0 /\ y[1] \in Int /\ y[2] \in Int /\ y[2] > 0
BY NumberIs DEF Scaled

\* Sums, differences and products of numbers in another unit are in another unit.
LEMMA PlusIn ==
  ASSUME NEW x, NEW y, NEW a, NEW b, NEW k \in Int, Scaled(x, y, k), Scaled(a, b, k)
  PROVE  Scaled(Plus(x, a), Plus(y, b), k)
<1>1. PICK x1, x2, y1, y2, a1, a2, b1, b2 :
        x1 = x[1] /\ x2 = x[2] /\ y1 = y[1] /\ y2 = y[2] /\ a1 = a[1] /\ a2 = a[2] /\ b1 = b[1] /\ b2 = b[2]
  OBVIOUS
<1>0. /\ x1 \in Int /\ x2 \in Int /\ y1 \in Int /\ y2 \in Int /\ a1 \in Int /\ a2 \in Int /\ b1 \in Int /\ b2 \in Int
      /\ x2 > 0 /\ y2 > 0 /\ a2 > 0 /\ b2 > 0
  BY <1>1, PartsAre
<1>2. y1 * x2 = k * (x1 * y2) /\ b1 * a2 = k * (a1 * b2)
  BY <1>1 DEF Scaled
<1>3. Plus(x, a) = <<x1 * a2 + a1 * x2, x2 * a2>> /\ Plus(y, b) = <<y1 * b2 + b1 * y2, y2 * b2>>
  BY <1>1 DEF Plus
<1>4. /\ x1 * a2 + a1 * x2 \in Int /\ y1 * b2 + b1 * y2 \in Int
      /\ x2 * a2 \in Int /\ x2 * a2 > 0 /\ y2 * b2 \in Int /\ y2 * b2 > 0
  BY <1>0, Z3
<1>5. (y1 * b2 + b1 * y2) * (x2 * a2) = k * ((x1 * a2 + a1 * x2) * (y2 * b2))
  <2>1. (y1 * b2 + b1 * y2) * (x2 * a2) = (y1 * x2) * (a2 * b2) + (b1 * a2) * (y2 * x2)
    BY <1>0, Z3
  <2>2. (y1 * x2) * (a2 * b2) + (b1 * a2) * (y2 * x2) = (k * (x1 * y2)) * (a2 * b2) + (k * (a1 * b2)) * (y2 * x2)
    BY <1>2
  <2>3. (k * (x1 * y2)) * (a2 * b2) + (k * (a1 * b2)) * (y2 * x2) = k * ((x1 * a2 + a1 * x2) * (y2 * b2))
    BY <1>0, Z3
  <2> QED BY <2>1, <2>2, <2>3
<1> QED BY <1>3, <1>4, <1>5, PairIs DEF Scaled

LEMMA TimesIn ==
  ASSUME NEW x, NEW y, NEW a, NEW b, NEW k \in Int, NEW m \in Int, Scaled(x, y, k), Scaled(a, b, m)
  PROVE  Scaled(Times(x, a), Times(y, b), k * m)
<1>1. PICK x1, x2, y1, y2, a1, a2, b1, b2 :
        x1 = x[1] /\ x2 = x[2] /\ y1 = y[1] /\ y2 = y[2] /\ a1 = a[1] /\ a2 = a[2] /\ b1 = b[1] /\ b2 = b[2]
  OBVIOUS
<1>0. /\ x1 \in Int /\ x2 \in Int /\ y1 \in Int /\ y2 \in Int /\ a1 \in Int /\ a2 \in Int /\ b1 \in Int /\ b2 \in Int
      /\ x2 > 0 /\ y2 > 0 /\ a2 > 0 /\ b2 > 0
  BY <1>1, PartsAre
<1>2. y1 * x2 = k * (x1 * y2) /\ b1 * a2 = m * (a1 * b2)
  BY <1>1 DEF Scaled
<1>3. Times(x, a) = <<x1 * a1, x2 * a2>> /\ Times(y, b) = <<y1 * b1, y2 * b2>>
  BY <1>1 DEF Times
<1>4. /\ x1 * a1 \in Int /\ y1 * b1 \in Int
      /\ x2 * a2 \in Int /\ x2 * a2 > 0 /\ y2 * b2 \in Int /\ y2 * b2 > 0
  BY <1>0, Z3
<1>5. (y1 * b1) * (x2 * a2) = (k * m) * ((x1 * a1) * (y2 * b2))
  <2>1. (y1 * b1) * (x2 * a2) = (y1 * x2) * (b1 * a2)
    BY <1>0, Z3
  <2>2. (y1 * x2) * (b1 * a2) = (k * (x1 * y2)) * (m * (a1 * b2))
    BY <1>2
  <2>3. (k * (x1 * y2)) * (m * (a1 * b2)) = (k * m) * ((x1 * a1) * (y2 * b2))
    BY <1>0, Z3
  <2> QED BY <2>1, <2>2, <2>3
<1> QED BY <1>3, <1>4, <1>5, PairIs DEF Scaled

LEMMA SubtractIn ==
  ASSUME NEW x, NEW y, NEW a, NEW b, NEW k \in Int, Scaled(x, y, k), Scaled(a, b, k)
  PROVE  Scaled(Subtract(x, a), Subtract(y, b), k)
<1>1. Scaled(<<-1, 1>>, <<-1, 1>>, 1)
  <2>1. <<-1, 1>> \in Fraction /\ <<-1, 1>>[1] = -1 /\ <<-1, 1>>[2] = 1
    BY PairIs
  <2> QED BY <2>1 DEF Scaled
<1>2. Scaled(Times(<<-1, 1>>, a), Times(<<-1, 1>>, b), 1 * k)
  BY <1>1, TimesIn
<1>3. 1 * k = k
  OBVIOUS
<1>4. Scaled(Times(<<-1, 1>>, a), Times(<<-1, 1>>, b), k)
  BY <1>2, <1>3, Zenon
<1> QED BY <1>4, PlusIn DEF Subtract

\* The unit does not change a sign.
LEMMA SignIn ==
  ASSUME NEW x, NEW y, NEW k \in Int, k > 0, Scaled(x, y, k)
  PROVE  (x[1] = 0 <=> y[1] = 0) /\ (x[1] > 0 <=> y[1] > 0) /\ (x[1] < 0 <=> y[1] < 0)
<1>1. PICK x1, x2, y1, y2 : x1 = x[1] /\ x2 = x[2] /\ y1 = y[1] /\ y2 = y[2]
  OBVIOUS
<1>2. x1 \in Int /\ x2 \in Int /\ y1 \in Int /\ y2 \in Int /\ x2 > 0 /\ y2 > 0
  BY <1>1, PartsAre
<1>3. y1 * x2 = k * (x1 * y2)
  BY <1>1 DEF Scaled
<1>4. (x1 > 0 => k * (x1 * y2) > 0) /\ (x1 = 0 => k * (x1 * y2) = 0) /\ (x1 < 0 => k * (x1 * y2) < 0)
  <2>1. (x1 > 0 => x1 * y2 > 0) /\ (x1 = 0 => x1 * y2 = 0) /\ (x1 < 0 => x1 * y2 < 0) /\ x1 * y2 \in Int
    BY <1>2, Z3
  <2>2. (x1 * y2 > 0 => k * (x1 * y2) > 0) /\ (x1 * y2 = 0 => k * (x1 * y2) = 0) /\ (x1 * y2 < 0 => k * (x1 * y2) < 0)
    BY <2>1, Z3
  <2> QED BY <2>1, <2>2
<1>5. (y1 > 0 => y1 * x2 > 0) /\ (y1 = 0 => y1 * x2 = 0) /\ (y1 < 0 => y1 * x2 < 0) /\ y1 * x2 \in Int
  BY <1>2, Z3
<1>6. (x1 > 0 \/ x1 = 0 \/ x1 < 0) /\ (y1 > 0 \/ y1 = 0 \/ y1 < 0)
  BY <1>2
<1> QED BY <1>1, <1>2, <1>3, <1>4, <1>5, <1>6

\* A quotient has no unit.
LEMMA DivIn ==
  ASSUME NEW x, NEW y, NEW a, NEW b, NEW k \in Int, k > 0, OptIn(x, y, k), OptIn(a, b, k)
  PROVE  OptIn(Div(x, a), Div(y, b), 1)
<1>1. CASE ~Scaled(x, y, k) \/ ~Scaled(a, b, k)
  BY <1>1 DEF OptIn, Div, Some
<1>2. CASE Scaled(x, y, k) /\ Scaled(a, b, k)
  <2>1. PICK x1, x2, y1, y2, a1, a2, b1, b2 :
          x1 = x[1] /\ x2 = x[2] /\ y1 = y[1] /\ y2 = y[2] /\ a1 = a[1] /\ a2 = a[2] /\ b1 = b[1] /\ b2 = b[2]
    OBVIOUS
  <2>0. /\ x1 \in Int /\ x2 \in Int /\ y1 \in Int /\ y2 \in Int /\ a1 \in Int /\ a2 \in Int
            /\ b1 \in Int /\ b2 \in Int
        /\ x2 > 0 /\ y2 > 0 /\ a2 > 0 /\ b2 > 0
    BY <1>2, <2>1, PartsAre
  <2>2. y1 * x2 = k * (x1 * y2) /\ b1 * a2 = k * (a1 * b2)
    BY <1>2, <2>1 DEF Scaled
  <2>3. (a1 = 0 <=> b1 = 0) /\ (a1 > 0 <=> b1 > 0)
    BY <1>2, <2>1, SignIn
  <2>4. Some(x) /\ Some(y) /\ Some(a) /\ Some(b)
    BY <1>2, NumberIs DEF Scaled
  <2>5. /\ Div(x, a) = IF a1 = 0 THEN Unknown ELSE IF a1 > 0 THEN <<x1 * a2, x2 * a1>> ELSE <<-x1 * a2, -x2 * a1>>
        /\ Div(y, b) = IF b1 = 0 THEN Unknown ELSE IF b1 > 0 THEN <<y1 * b2, y2 * b1>> ELSE <<-y1 * b2, -y2 * b1>>
    BY <2>1, <2>4 DEF Div
  <2>6. (y1 * b2) * (x2 * a1) = (x1 * a2) * (y2 * b1)
    <3>1. (y1 * b2) * (x2 * a1) = (y1 * x2) * (b2 * a1)
      BY <2>0, Z3
    <3>2. (y1 * x2) * (b2 * a1) = (k * (x1 * y2)) * (b2 * a1)
      BY <2>2
    <3>3. (k * (x1 * y2)) * (b2 * a1) = (x1 * y2) * (k * (a1 * b2))
      BY <2>0, Z3
    <3>4. (x1 * y2) * (k * (a1 * b2)) = (x1 * y2) * (b1 * a2)
      BY <2>2
    <3>5. (x1 * y2) * (b1 * a2) = (x1 * a2) * (y2 * b1)
      BY <2>0, Z3
    <3> QED BY <3>1, <3>2, <3>3, <3>4, <3>5
  <2>7. CASE a1 = 0
    BY <2>3, <2>5, <2>7 DEF OptIn
  <2>8. CASE a1 > 0
    <3>1. Div(x, a) = <<x1 * a2, x2 * a1>> /\ Div(y, b) = <<y1 * b2, y2 * b1>> /\ b1 > 0
      BY <2>0, <2>3, <2>5, <2>8
    <3>2. x1 * a2 \in Int /\ x2 * a1 \in Int /\ x2 * a1 > 0 /\ y1 * b2 \in Int /\ y2 * b1 \in Int /\ y2 * b1 > 0
      BY <2>0, <2>8, <3>1, Z3
    <3>3. (y1 * b2) * (x2 * a1) = 1 * ((x1 * a2) * (y2 * b1))
      BY <2>6, <3>2
    <3> QED BY <3>1, <3>2, <3>3, PairIs DEF Scaled, OptIn
  <2>9. CASE a1 < 0
    <3>1. Div(x, a) = <<-x1 * a2, -x2 * a1>> /\ Div(y, b) = <<-y1 * b2, -y2 * b1>> /\ b1 < 0
      BY <2>0, <2>3, <2>5, <2>9
    <3>2. -x1 * a2 \in Int /\ -x2 * a1 \in Int /\ -x2 * a1 > 0 /\ -y1 * b2 \in Int /\ -y2 * b1 \in Int /\ -y2 * b1 > 0
      BY <2>0, <2>9, <3>1, Z3
    <3>3. (-y1 * b2) * (-x2 * a1) = (y1 * b2) * (x2 * a1) /\ (-x1 * a2) * (-y2 * b1) = (x1 * a2) * (y2 * b1)
      BY <2>0, Z3
    <3>4. (-y1 * b2) * (-x2 * a1) = 1 * ((-x1 * a2) * (-y2 * b1))
      BY <2>6, <3>2, <3>3
    <3> QED BY <3>1, <3>2, <3>4, PairIs DEF Scaled, OptIn
  <2> QED BY <2>0, <2>7, <2>8, <2>9
<1> QED BY <1>1, <1>2

\* Of two numbers without a unit the same is the less.
LEMMA LeastIn ==
  ASSUME NEW x, NEW y, NEW a, NEW b, Scaled(x, y, 1), Scaled(a, b, 1)
  PROVE  Scaled(Least(x, a), Least(y, b), 1)
<1>1. PICK x1, x2, y1, y2, a1, a2, b1, b2 :
        x1 = x[1] /\ x2 = x[2] /\ y1 = y[1] /\ y2 = y[2] /\ a1 = a[1] /\ a2 = a[2] /\ b1 = b[1] /\ b2 = b[2]
  OBVIOUS
<1>0. /\ x1 \in Int /\ x2 \in Int /\ y1 \in Int /\ y2 \in Int /\ a1 \in Int /\ a2 \in Int /\ b1 \in Int /\ b2 \in Int
      /\ x2 > 0 /\ y2 > 0 /\ a2 > 0 /\ b2 > 0
  BY <1>1, PartsAre
<1>2. y1 * x2 = x1 * y2 /\ b1 * a2 = a1 * b2
  <2>1. y1 * x2 = 1 * (x1 * y2) /\ b1 * a2 = 1 * (a1 * b2)
    BY <1>1 DEF Scaled
  <2>2. x1 * y2 \in Int /\ a1 * b2 \in Int
    BY <1>0
  <2> QED BY <2>1, <2>2
<1>3. PICK p, q, P, Q, M, N \in Int : p = x1 * a2 /\ q = a1 * x2 /\ P = y1 * b2 /\ Q = b1 * y2
        /\ M = x2 * a2 /\ N = y2 * b2
  BY <1>0
<1>4. M > 0 /\ N > 0
  BY <1>0, <1>3, Z3
<1>5. P * M = p * N
  <2>1. P * M = (y1 * x2) * (b2 * a2)
    BY <1>0, <1>3, Z3
  <2>2. p * N = (x1 * y2) * (b2 * a2)
    BY <1>0, <1>3, Z3
  <2> QED BY <1>2, <2>1, <2>2
<1>6. Q * M = q * N
  <2>1. Q * M = (b1 * a2) * (x2 * y2)
    BY <1>0, <1>3, Z3
  <2>2. q * N = (a1 * b2) * (x2 * y2)
    BY <1>0, <1>3, Z3
  <2> QED BY <1>2, <2>1, <2>2
<1>7. P > Q <=> p > q
  <2>1. (P > Q => P * M > Q * M) /\ (P <= Q => P * M <= Q * M)
    BY <1>4, Z3
  <2>2. (p > q => p * N > q * N) /\ (p <= q => p * N <= q * N)
    BY <1>4, Z3
  <2>3. P * M \in Int /\ Q * M \in Int
    OBVIOUS
  <2>4. (p > q => P * M > Q * M) /\ (p <= q => P * M <= Q * M)
    BY <1>5, <1>6, <2>2
  <2> QED BY <2>1, <2>3, <2>4
<1>8. Above(x, a) <=> Above(y, b)
  BY <1>1, <1>3, <1>7 DEF Above
<1> QED BY <1>8 DEF Least

\* In the trading currency a number is the same, whichever currency it is reported in.
LEMMA TradingIn ==
  ASSUME NEW x, NEW y, NEW k \in Int, k > 0, OptIn(x, y, k), rate \in Figure
  PROVE  OptIn(ToTrading(x, FxOf(1)), ToTrading(y, FxOf(k)), 1)
<1>1. CASE rate = Unknown \/ x = Unknown
  BY <1>1, NumberIs DEF OptIn, Scaled, ToTrading, FxOf, Some
<1>2. CASE rate # Unknown /\ x # Unknown
  <2>1. Scaled(x, y, k) /\ rate \in Fraction
    BY <1>2 DEF OptIn, Figure
  <2>2. Scaled(rate, rate, 1)
    <3>1. rate[1] \in Int /\ rate[2] \in Int
      BY <2>1, NumberIs
    <3> QED BY <2>1, <3>1, Z3 DEF Scaled
  <2>3. PICK x1, x2, y1, y2, r1, r2 :
          x1 = x[1] /\ x2 = x[2] /\ y1 = y[1] /\ y2 = y[2] /\ r1 = rate[1] /\ r2 = rate[2]
    OBVIOUS
  <2>11. /\ x1 \in Int /\ x2 \in Int /\ y1 \in Int /\ y2 \in Int /\ r1 \in Int /\ r2 \in Int
         /\ x2 > 0 /\ y2 > 0 /\ r2 > 0
    BY <2>1, <2>2, <2>3, PartsAre
  <2>4. y1 * x2 = k * (x1 * y2)
    BY <2>1, <2>3 DEF Scaled
  <2>5. Some(x) /\ Some(y) /\ Some(rate)
    BY <2>1, NumberIs DEF Scaled
  <2>6. FxOf(1) = <<r1, r2>> /\ FxOf(k) = <<r1, r2 * k>> /\ r2 * k \in Int /\ r2 * k > 0
    <3>1. FxOf(1) = <<r1, r2 * 1>> /\ FxOf(k) = <<r1, r2 * k>>
      BY <2>3, <2>5 DEF FxOf
    <3>2. r2 * 1 = r2 /\ r2 * k \in Int /\ r2 * k > 0
      BY <2>11, Z3
    <3> QED BY <3>1, <3>2
  <2>7. Some(FxOf(1)) /\ Some(FxOf(k))
    BY <2>6, <2>11, PairIs, NumberIs
  <2>8. ToTrading(x, FxOf(1)) = <<x1 * r1, x2 * r2>> /\ ToTrading(y, FxOf(k)) = <<y1 * r1, y2 * (r2 * k)>>
    BY <2>3, <2>5, <2>6, <2>7 DEF ToTrading, Times
  <2>9. /\ x1 * r1 \in Int /\ x2 * r2 \in Int /\ x2 * r2 > 0
        /\ y1 * r1 \in Int /\ y2 * (r2 * k) \in Int /\ y2 * (r2 * k) > 0
    BY <2>11, <2>6, Z3
  <2>10. (y1 * r1) * (x2 * r2) = 1 * ((x1 * r1) * (y2 * (r2 * k)))
    <3>1. (y1 * r1) * (x2 * r2) = (y1 * x2) * (r1 * r2)
      BY <2>11, Z3
    <3>2. (y1 * x2) * (r1 * r2) = (k * (x1 * y2)) * (r1 * r2)
      BY <2>4
    <3>3. (k * (x1 * y2)) * (r1 * r2) = 1 * ((x1 * r1) * (y2 * (r2 * k)))
      BY <2>11, Z3
    <3> QED BY <3>1, <3>2, <3>3
  <2> QED BY <2>8, <2>9, <2>10, PairIs DEF Scaled, OptIn
<1> QED BY <1>1, <1>2

------------------------------------------------------------------------------
(* Series.                                                                   *)

\* The same years are known, of the one and of the other.
SeriesIn(s, t, k) ==
  /\ s \in Seq(Figure) /\ t \in Seq(Figure) /\ Len(s) = Len(t)
  /\ \A i \in 1..Len(s) : OptIn(s[i], t[i], k)
\* The same series, all numbers, in another unit.
NumbersIn(s, t, k) ==
  /\ s \in Seq(Fraction) /\ t \in Seq(Fraction) /\ Len(s) = Len(t)
  /\ \A i \in 1..Len(s) : Scaled(s[i], t[i], k)

\* What is known is known in any unit.
LEMMA KnownIn ==
  ASSUME NEW x, NEW y, NEW k, OptIn(x, y, k)
  PROVE  (Some(x) <=> Some(y)) /\ (Some(x) => Scaled(x, y, k))
BY NumberIs DEF OptIn, Scaled, Some

\* So the latest known is of the same year.
LEMMA LatestKnownIn ==
  ASSUME NEW s, NEW t, NEW k, SeriesIn(s, t, k)
  PROVE  OptIn(LatestKnown(s), LatestKnown(t), k)
<1>1. PICK known : known = {i \in DOMAIN s : Some(s[i])}
  OBVIOUS
<1>2. DOMAIN s = 1..Len(s) /\ DOMAIN t = 1..Len(s) /\ Len(s) \in Nat
  BY DEF SeriesIn
<1>3. known = {i \in DOMAIN t : Some(t[i])} /\ \A i \in known : Scaled(s[i], t[i], k)
  BY <1>1, <1>2, KnownIn DEF SeriesIn
<1>4. LatestKnown(s) = IF known = {} THEN Unknown ELSE s[CHOOSE i \in known : \A j \in known : i <= j]
  BY <1>1 DEF LatestKnown
<1>5. LatestKnown(t) = IF known = {} THEN Unknown ELSE t[CHOOSE i \in known : \A j \in known : i <= j]
  BY <1>3 DEF LatestKnown
<1>6. known # {} => (CHOOSE i \in known : \A j \in known : i <= j) \in known
  <2>1. known \in SUBSET Nat
    BY <1>1, <1>2
  <2>2. known # {} => \E i \in known : \A j \in known : i <= j
    BY <2>1, LeastNumber
  <2> QED BY <2>2
<1> QED BY <1>3, <1>4, <1>5, <1>6 DEF OptIn

\* Too few years, or the same ones.
LEMMA RecentIn ==
  ASSUME NEW s, NEW t, NEW k, SeriesIn(s, t, k)
  PROVE  \/ Recent(s) = <<>> /\ Recent(t) = <<>>
         \/ NumbersIn(Recent(s), Recent(t), k) /\ Len(Recent(s)) >= 4 /\ Recent(s) # <<>> /\ Recent(t) # <<>>
<1>1. PICK known : known = {i \in DOMAIN s : i <= HistoryYears /\ Some(s[i])}
  OBVIOUS
<1>2. DOMAIN s = 1..Len(s) /\ DOMAIN t = 1..Len(s) /\ Len(s) \in Nat /\ Len(t) = Len(s)
  BY DEF SeriesIn
<1>3. known = {i \in DOMAIN t : i <= HistoryYears /\ Some(t[i])} /\ \A i \in known : Scaled(s[i], t[i], k)
  BY <1>1, <1>2, KnownIn DEF SeriesIn
<1>4. PICK n : n = Cardinality(known)
  OBVIOUS
<1>5. /\ Recent(s) = IF n < 4 THEN <<>> ELSE AtPlaces(s, known)
      /\ Recent(t) = IF n < 4 THEN <<>> ELSE AtPlaces(t, known)
  BY <1>1, <1>3, <1>4 DEF Recent, MinHistory
<1>6. CASE n < 4
  BY <1>5, <1>6
<1>7. CASE ~(n < 4)
  <2>1. known \in SUBSET (1..Len(s)) /\ n \in Nat
    BY <1>1, <1>2, <1>4, CountedNumbers
  <2>2. PICK f : f = [j \in 1..n |-> CHOOSE i \in known : Cardinality({h \in known : h <= i}) = j]
    OBVIOUS
  <2>3. \A j \in 1..n : f[j] \in known
    <3>1. \A j \in 1..n : \E i \in known : Cardinality({h \in known : h <= i}) = j
      BY <1>2, <1>4, <2>1, PlaceOfCount
    <3> QED BY <2>2, <3>1
  <2>4. PICK p, q : p = AtPlaces(s, known) /\ q = AtPlaces(t, known)
    OBVIOUS
  <2>5. p = [j \in 1..n |-> s[f[j]]] /\ q = [j \in 1..n |-> t[f[j]]]
    BY <1>4, <2>2, <2>4 DEF AtPlaces
  <2>6. \A j \in 1..n : Scaled(s[f[j]], t[f[j]], k) /\ s[f[j]] \in Fraction /\ t[f[j]] \in Fraction
    BY <1>3, <2>3 DEF Scaled
  <2>7. p \in Seq(Fraction) /\ q \in Seq(Fraction) /\ Len(p) = n /\ Len(q) = n
    BY <2>1, <2>5, <2>6, SMTT(30)
  <2>8. NumbersIn(p, q, k)
    BY <2>5, <2>6, <2>7 DEF NumbersIn
  <2>9. n >= 4 /\ p # <<>> /\ q # <<>>
    BY <1>7, <2>1, <2>7
  <2> QED BY <1>5, <1>7, <2>4, <2>7, <2>8, <2>9
<1> QED BY <1>6, <1>7

\* A total is the last of the sums of the first numbers.
Sums2(f, seq) ==
  /\ f[0] = Zero
  /\ \A i \in 1..Len(seq) : f[i] = Plus(f[i - 1], seq[i])

\* A total is the last of the partial sums.
LEMMA TotalIs ==
  ASSUME NEW seq, Len(seq) \in Nat
  PROVE  \E f : Sums2(f, seq) /\ Total(seq) = f[Len(seq)]
<1>1. PICK n : n = Len(seq) /\ n \in Nat
  OBVIOUS
<1> DEFINE Step(f, i) == IF i = 0 THEN Zero ELSE Plus(f[i - 1], seq[i])
           Upto(q) == \E f : f = [i \in 0..q |-> Step(f, i)]
<1>2. \A q \in 0..n : Upto(q)
  <2> SUFFICES ASSUME {q \in 0..n : ~Upto(q)} # {} PROVE FALSE
    OBVIOUS
  <2>1. {q \in 0..n : ~Upto(q)} \in SUBSET Nat
    BY <1>1
  <2> HIDE DEF Upto
  <2>2. PICK q \in 0..n : ~Upto(q) /\ \A p \in 0..n : ~Upto(p) => q <= p
    <3>1. PICK S : S = {q \in 0..n : ~Upto(q)}
      OBVIOUS
    <3>2. \E p \in S : \A k \in S : p <= k
      BY <2>1, <3>1, LeastNumber
    <3> QED BY <3>1, <3>2
  <2>3. CASE q = 0
    <3>1. PICK g : g = [i \in 0..0 |-> Zero]
      OBVIOUS
    <3>2. \A i \in 0..0 : i = 0
      OBVIOUS
    <3>3. g = [i \in 0..0 |-> Step(g, i)]
      BY <3>1, <3>2
    <3> QED BY <2>2, <2>3, <3>3 DEF Upto
  <2>4. CASE q # 0
    <3>1. q - 1 \in 0..n /\ q - 1 < q /\ q \in Nat /\ ~(q <= q - 1)
      BY <1>1, <2>4
    <3>2. Upto(q - 1)
      BY <2>2, <3>1
    <3>3. PICK f : f = [i \in 0..(q - 1) |-> Step(f, i)]
      BY <3>2 DEF Upto
    <3>4. PICK g : g = [i \in 0..q |-> IF i = q THEN Plus(f[q - 1], seq[q]) ELSE f[i]]
      OBVIOUS
    <3>5. \A i \in 0..q : g[i] = Step(g, i)
      <4>1. SUFFICES ASSUME NEW i \in 0..q PROVE g[i] = Step(g, i)
        OBVIOUS
      <4>2. CASE i = q
        <5>1. q \in 0..q /\ q - 1 \in 0..q /\ q - 1 # q
          BY <1>1, <3>1
        <5>2. g[q] = Plus(f[q - 1], seq[q]) /\ g[q - 1] = f[q - 1]
          BY <3>4, <5>1
        <5> QED BY <2>4, <4>2, <5>2
      <4>3. CASE i # q
        <5>1. i \in 0..(q - 1)
          BY <1>1, <3>1, <4>3
        <5>2. g[i] = f[i] /\ f[i] = Step(f, i)
          BY <3>3, <3>4, <4>3, <5>1
        <5>3. i # 0 => i - 1 \in 0..q /\ i - 1 # q
          BY <1>1, <3>1, <5>1
        <5>4. i # 0 => g[i - 1] = f[i - 1]
          BY <3>4, <5>3
        <5> QED BY <5>2, <5>4
      <4> QED BY <4>2, <4>3
    <3>6. g = [i \in 0..q |-> Step(g, i)]
      BY <3>4, <3>5
    <3> QED BY <2>2, <3>6 DEF Upto
  <2> QED BY <2>3, <2>4
<1>3. Upto(n)
  BY <1>1, <1>2
<1>4. PICK f : f = CHOOSE h : h = [i \in 0..n |-> Step(h, i)]
  OBVIOUS
<1>5. f = [i \in 0..n |-> Step(f, i)]
  BY <1>3, <1>4
<1>6. Total(seq) = f[n]
  BY <1>1, <1>4 DEF Total
<1>7. f[0] = Zero /\ \A i \in 1..n : f[i] = Plus(f[i - 1], seq[i])
  <2>1. \A i \in 0..n : f[i] = Step(f, i)
    BY <1>5, Zenon
  <2> HIDE DEF Step
  <2>2. 0 \in 0..n /\ \A i \in 1..n : i \in 0..n /\ i # 0
    BY <1>1
  <2> QED BY <2>1, <2>2 DEF Step
<1> QED BY <1>1, <1>6, <1>7 DEF Sums2

\* A total in another unit; by induction over the years.
LEMMA TotalIn ==
  ASSUME NEW p, NEW q, NEW k \in Int, NumbersIn(p, q, k)
  PROVE  Scaled(Total(p), Total(q), k)
<1>1. PICK n : n = Len(p)
  OBVIOUS
<1>2. n \in Nat /\ Len(q) = n /\ \A i \in 1..n : Scaled(p[i], q[i], k)
  BY <1>1 DEF NumbersIn
<1>3. PICK f : Sums2(f, p) /\ Total(p) = f[n]
  BY <1>1, <1>2, TotalIs
<1>4. PICK g : Sums2(g, q) /\ Total(q) = g[n]
  BY <1>2, TotalIs
<1>5. Scaled(f[0], g[0], k)
  <2>1. Zero \in Fraction /\ Zero[1] = 0 /\ Zero[2] = 1
    BY PairIs DEF Zero
  <2> QED BY <1>3, <1>4, <2>1 DEF Sums2, Scaled
<1>6. PICK S : S = {i \in 0..n : ~Scaled(f[i], g[i], k)}
  OBVIOUS
<1>7. S = {}
  <2> SUFFICES ASSUME S # {} PROVE FALSE
    OBVIOUS
  <2>1. S \in SUBSET Nat
    BY <1>2, <1>6
  <2>2. PICK i \in S : \A j \in S : i <= j
    BY <2>1, LeastNumber
  <2>3. i \in 0..n /\ ~Scaled(f[i], g[i], k) /\ i # 0
    BY <1>5, <1>6, <2>2
  <2>4. i \in 1..n /\ i - 1 \in 0..n /\ ~(i <= i - 1)
    BY <1>2, <2>3
  <2>5. Scaled(f[i - 1], g[i - 1], k)
    BY <1>6, <2>2, <2>4
  <2>6. f[i] = Plus(f[i - 1], p[i]) /\ g[i] = Plus(g[i - 1], q[i])
    BY <1>1, <1>2, <1>3, <1>4, <2>4 DEF Sums2
  <2>7. Scaled(p[i], q[i], k)
    BY <1>2, <2>4
  <2> QED BY <2>3, <2>5, <2>6, <2>7, PlusIn
<1>8. n \in 0..n
  BY <1>2
<1> QED BY <1>3, <1>4, <1>6, <1>7, <1>8

\* So is a number without its sign,
LEMMA AbsIn ==
  ASSUME NEW x, NEW y, NEW k \in Int, k > 0, Scaled(x, y, k)
  PROVE  Scaled(Abs(x), Abs(y), k)
<1>1. PICK x1, x2, y1, y2 : x1 = x[1] /\ x2 = x[2] /\ y1 = y[1] /\ y2 = y[2]
  OBVIOUS
<1>2. x1 \in Int /\ x2 \in Int /\ y1 \in Int /\ y2 \in Int /\ x2 > 0 /\ y2 > 0
  BY <1>1, PartsAre
<1>3. y1 * x2 = k * (x1 * y2)
  BY <1>1 DEF Scaled
<1>4. y1 < 0 <=> x1 < 0
  BY <1>1, SignIn
<1>5. CASE x1 < 0
  <2>1. Abs(x) = <<-x1, x2>> /\ Abs(y) = <<-y1, y2>>
    BY <1>1, <1>4, <1>5 DEF Abs
  <2>2. (-y1) * x2 = -(y1 * x2) /\ k * ((-x1) * y2) = -(k * (x1 * y2))
    BY <1>2, Z3
  <2>3. (-y1) * x2 = k * ((-x1) * y2)
    BY <1>3, <2>2
  <2>4. -x1 \in Int /\ -y1 \in Int
    BY <1>2
  <2> QED BY <1>2, <2>1, <2>3, <2>4, PairIs DEF Scaled
<1>6. CASE ~(x1 < 0)
  BY <1>1, <1>4, <1>6 DEF Abs
<1> QED BY <1>5, <1>6

\* and a constant is a number without a unit.
LEMMA UnitsIn ==
  /\ Scaled(Unity, Unity, 1) /\ Scaled(MaxTaxRate, MaxTaxRate, 1) /\ \A k \in Int : Scaled(Zero, Zero, k)
  /\ \A x \in Fraction : Scaled(x, x, 1)
  /\ \A x \in Figure : OptIn(x, x, 1)
<1>1. \A x \in Fraction : Scaled(x, x, 1)
  <2> SUFFICES ASSUME NEW x \in Fraction PROVE Scaled(x, x, 1)
    OBVIOUS
  <2>1. x[1] * x[2] \in Int
    BY NumberIs
  <2>2. x[1] * x[2] = 1 * (x[1] * x[2])
    BY <2>1
  <2> QED BY <2>2 DEF Scaled
<1>2. Unity \in Fraction /\ MaxTaxRate \in Fraction /\ Zero \in Fraction
  BY PairIs DEF Unity, MaxTaxRate, Zero
<1>3. \A k \in Int : Scaled(Zero, Zero, k)
  BY <1>2 DEF Scaled, Zero
<1> QED BY <1>1, <1>2, <1>3 DEF Figure, OptIn

\* The stability of earnings is a share, of sums of the same unit.
LEMMA StabilityIn ==
  ASSUME NEW s, NEW t, NEW k \in Int, k > 0, SeriesIn(s, t, k)
  PROVE  OptIn(Stability(s), Stability(t), 1)
<1>1. PICK Y, W : Y = Recent(s) /\ W = Recent(t)
  OBVIOUS
<1>2. CASE Y = <<>> /\ W = <<>>
  BY <1>1, <1>2 DEF Stability, OptIn
<1>3. CASE NumbersIn(Y, W, k) /\ Len(Y) >= 4 /\ Y # <<>> /\ W # <<>>
  <2>1. PICK n : n = Len(Y) /\ n = Len(W) /\ n \in Nat /\ DOMAIN Y = 1..n /\ DOMAIN W = 1..n
    BY <1>3 DEF NumbersIn
  <2>2. \A i \in 1..n : Scaled(Y[i], W[i], k)
    BY <1>3, <2>1 DEF NumbersIn
  <2>3. PICK P, Q, A, B : /\ P = [i \in DOMAIN Y |-> Times(Y[i], Y[i])] /\ Q = [i \in DOMAIN W |-> Times(W[i], W[i])]
                          /\ A = [i \in DOMAIN Y |-> Abs(Y[i])] /\ B = [i \in DOMAIN W |-> Abs(W[i])]
    OBVIOUS
  <2>4. NumbersIn(P, Q, k * k)
    <3>1. \A i \in 1..n : Scaled(Times(Y[i], Y[i]), Times(W[i], W[i]), k * k)
      BY <2>2, TimesIn
    <3>2. \A i \in 1..n : P[i] \in Fraction /\ Q[i] \in Fraction /\ Scaled(P[i], Q[i], k * k)
      BY <2>1, <2>3, <3>1 DEF Scaled
    <3>3. P \in Seq(Fraction) /\ Q \in Seq(Fraction) /\ Len(P) = n /\ Len(Q) = n
      BY <2>1, <2>3, <3>2
    <3> QED BY <3>2, <3>3 DEF NumbersIn
  <2>5. NumbersIn(A, B, k)
    <3>1. \A i \in 1..n : Scaled(Abs(Y[i]), Abs(W[i]), k)
      BY <2>2, AbsIn
    <3>2. \A i \in 1..n : A[i] \in Fraction /\ B[i] \in Fraction /\ Scaled(A[i], B[i], k)
      BY <2>1, <2>3, <3>1 DEF Scaled
    <3>3. A \in Seq(Fraction) /\ B \in Seq(Fraction) /\ Len(A) = n /\ Len(B) = n
      BY <2>1, <2>3, <3>2
    <3> QED BY <3>2, <3>3 DEF NumbersIn
  <2>6. PICK u, v : u = Total(Y) /\ v = Total(W)
    OBVIOUS
  <2>7. PICK x, y : x = Subtract(Times(<<n, 1>>, Total(P)), Times(u, u))
          /\ y = Subtract(Times(<<n, 1>>, Total(Q)), Times(v, v))
    OBVIOUS
  <2>8. PICK a, b : a = Total(A) /\ b = Total(B)
    OBVIOUS
  <2>9. PICK m : m = k * k /\ m \in Int /\ m > 0
    <3>1. k * k \in Int /\ k * k > 0
      BY Z3
    <3> QED BY <3>1
  <2>10. Scaled(x, y, m)
    <3>1. Scaled(<<n, 1>>, <<n, 1>>, 1)
      <4>1. <<n, 1>> \in Fraction
        BY <2>1, PairIs
      <4> QED BY <4>1, UnitsIn
    <3>2. Scaled(Total(P), Total(Q), m)
      BY <2>4, <2>9, TotalIn
    <3>3. Scaled(Times(<<n, 1>>, Total(P)), Times(<<n, 1>>, Total(Q)), 1 * m)
      BY <2>9, <3>1, <3>2, TimesIn
    <3>4. 1 * m = m
      BY <2>9
    <3>5. Scaled(u, v, k)
      BY <1>3, <2>6, TotalIn
    <3>6. Scaled(Times(u, u), Times(v, v), m)
      BY <2>9, <3>5, TimesIn
    <3>7. Scaled(Times(<<n, 1>>, Total(P)), Times(<<n, 1>>, Total(Q)), m)
      BY <3>3, <3>4, Zenon
    <3> QED BY <2>7, <2>9, <3>6, <3>7, SubtractIn
  <2>11. Scaled(a, b, k)
    BY <2>5, <2>8, TotalIn
  <2>12. Scaled(Times(a, a), Times(b, b), m)
    BY <2>9, <2>11, TimesIn
  <2>13. /\ Stability(s) = IF a[1] = 0 THEN Unknown ELSE Least(Div(x, Times(a, a)), Unity)
         /\ Stability(t) = IF b[1] = 0 THEN Unknown ELSE Least(Div(y, Times(b, b)), Unity)
    <3>1. Stability(s) = IF a[1] = 0 THEN Unknown ELSE Least(Div(x, Times(a, a)), Unity)
      BY <1>1, <1>3, <2>1, <2>3, <2>6, <2>7, <2>8 DEF Stability
    <3>2. Stability(t) = IF b[1] = 0 THEN Unknown ELSE Least(Div(y, Times(b, b)), Unity)
      BY <1>1, <1>3, <2>1, <2>3, <2>6, <2>7, <2>8 DEF Stability
    <3> QED BY <3>1, <3>2
  <2>14. a[1] = 0 <=> b[1] = 0
    BY <2>11, SignIn
  <2>15. CASE a[1] = 0
    BY <2>13, <2>14, <2>15 DEF OptIn
  <2>16. CASE a[1] # 0
    <3>1. OptIn(Div(x, Times(a, a)), Div(y, Times(b, b)), 1)
      BY <2>9, <2>10, <2>12, DivIn DEF OptIn
    <3>2. Div(x, Times(a, a)) # Unknown
      <4>1. Times(a, a)[1] = a[1] * a[1]
        BY DEF Times
      <4>2. a[1] \in Int
        BY <2>11, PartsAre
      <4>3. a[1] * a[1] # 0
        BY <2>16, <4>2, Z3
      <4>4. Some(x) /\ Some(Times(a, a))
        BY <2>10, <2>12, NumberIs DEF Scaled
      <4> QED BY <4>1, <4>3, <4>4 DEF Div, Unknown
    <3>3. Scaled(Div(x, Times(a, a)), Div(y, Times(b, b)), 1)
      BY <3>1, <3>2 DEF OptIn
    <3>4. Scaled(Least(Div(x, Times(a, a)), Unity), Least(Div(y, Times(b, b)), Unity), 1)
      BY <3>3, LeastIn, UnitsIn
    <3> QED BY <2>13, <2>14, <2>16, <3>4 DEF OptIn
  <2> QED BY <2>15, <2>16
<1> QED BY <1>1, <1>2, <1>3, RecentIn

\* What has no unit is equal.
LEMMA EqualIs ==
  ASSUME NEW x, NEW y, OptIn(x, y, 1)
  PROVE  Equal(y, x)
<1>1. CASE x = Unknown /\ y = Unknown
  BY <1>1 DEF Equal
<1>2. CASE Scaled(x, y, 1)
  <2>1. y[1] * x[2] = 1 * (x[1] * y[2]) /\ x # Unknown /\ y # Unknown /\ Len(x) = 2 /\ Len(y) = 2
    BY <1>2, NumberIs DEF Scaled, Some
  <2>2. x[1] * y[2] \in Int
    BY <1>2, PartsAre
  <2> QED BY <2>1, <2>2 DEF Equal
<1> QED BY <1>1, <1>2 DEF OptIn

\* Growth is a ratio, over the same number of years.
LEMMA GrowthIn ==
  ASSUME NEW s, NEW t, NEW k \in Int, k > 0, SeriesIn(s, t, k)
  PROVE  Equal(Growth(t), Growth(s))
<1>1. PICK Y, W : Y = Recent(s) /\ W = Recent(t)
  OBVIOUS
<1>2. CASE Y = <<>> /\ W = <<>>
  <2>1. Growth(s) = Unknown /\ Growth(t) = Unknown
    BY <1>1, <1>2 DEF Growth, Some, Unknown
  <2> QED BY <2>1 DEF Equal
<1>3. CASE NumbersIn(Y, W, k) /\ Len(Y) >= 4 /\ Y # <<>> /\ W # <<>>
  <2>1. PICK n : n = Len(Y) /\ n = Len(W) /\ n \in Nat
    BY <1>3 DEF NumbersIn
  <2>2. Scaled(Y[1], W[1], k) /\ Scaled(Y[n], W[n], k)
    BY <1>3, <2>1 DEF NumbersIn
  <2>3. PICK x, y : x = Div(Y[1], Y[n]) /\ y = Div(W[1], W[n])
    OBVIOUS
  <2>4. OptIn(x, y, 1)
    BY <2>2, <2>3, DivIn DEF OptIn
  <2>5. /\ Growth(s) = IF Some(x) /\ x[1] > 0 THEN <<x[1], x[2], n - 1>> ELSE Unknown
        /\ Growth(t) = IF Some(y) /\ y[1] > 0 THEN <<y[1], y[2], n - 1>> ELSE Unknown
    BY <1>1, <1>3, <2>1, <2>3 DEF Growth
  <2>6. CASE Scaled(x, y, 1) /\ x[1] > 0
    <3>1. Some(x) /\ Some(y) /\ y[1] > 0
      BY <2>6, NumberIs, SignIn DEF Scaled
    <3>2. Growth(s) = <<x[1], x[2], n - 1>> /\ Growth(t) = <<y[1], y[2], n - 1>>
      BY <2>5, <2>6, <3>1
    <3>3. y[1] * x[2] = x[1] * y[2]
      <4>1. y[1] * x[2] = 1 * (x[1] * y[2])
        BY <2>6 DEF Scaled
      <4>2. x[1] * y[2] \in Int
        BY <2>6, PartsAre
      <4> QED BY <4>1, <4>2
    <3> QED BY <3>2, <3>3 DEF Equal, Unknown
  <2>7. CASE ~(Scaled(x, y, 1) /\ x[1] > 0)
    <3>1. ~(Some(x) /\ x[1] > 0) /\ ~(Some(y) /\ y[1] > 0)
      BY <2>4, <2>7, SignIn DEF OptIn, Some
    <3>2. Growth(s) = Unknown /\ Growth(t) = Unknown
      BY <2>5, <3>1
    <3> QED BY <3>2 DEF Equal
  <2> QED BY <2>6, <2>7
<1> QED BY <1>1, <1>2, <1>3, RecentIn

------------------------------------------------------------------------------
(* Metrics.                                                                  *)

\* The same accounts, in another currency.
StatementIn(s, t, k) ==
  /\ \A field \in Balances : OptIn(s[field], t[field], k)
  /\ \A field \in Histories : SeriesIn(s[field], t[field], k)

\* The fields of a statement one by one.
LEMMA FieldsIn ==
  ASSUME NEW s, NEW t, NEW k, StatementIn(s, t, k)
  PROVE  /\ OptIn(s.ebit, t.ebit, k) /\ OptIn(s.ebitda, t.ebitda, k) /\ OptIn(s.operating, t.operating, k)
         /\ OptIn(s.gross, t.gross, k) /\ OptIn(s.pretax, t.pretax, k) /\ OptIn(s.tax, t.tax, k)
         /\ OptIn(s.assets, t.assets, k) /\ OptIn(s.equity, t.equity, k) /\ OptIn(s.debt, t.debt, k)
         /\ OptIn(s.cash, t.cash, k) /\ OptIn(s.fcf, t.fcf, k) /\ OptIn(s.cashflow, t.cashflow, k)
         /\ OptIn(s.capex, t.capex, k) /\ OptIn(s.buybacks, t.buybacks, k)
         /\ SeriesIn(s.revenue, t.revenue, k) /\ SeriesIn(s.income, t.income, k) /\ SeriesIn(s.eps, t.eps, k)
BY DEF StatementIn, Balances, Histories

\* A margin, the free cash flow, the tax rate and the return on capital.
LEMMA MarginIn ==
  ASSUME NEW x, NEW y, NEW a, NEW b, NEW k \in Int, OptIn(x, y, k), OptIn(a, b, k)
  PROVE  OptIn(Margin(x, a), Margin(y, b), k)
<1>1. CASE Scaled(x, y, k) /\ Scaled(a, b, k)
  <2>1. Some(x) /\ Some(y) /\ Some(a) /\ Some(b)
    BY <1>1, NumberIs DEF Scaled
  <2> QED BY <1>1, <2>1, SubtractIn DEF Margin, OptIn
<1>2. CASE ~Scaled(x, y, k) \/ ~Scaled(a, b, k)
  BY <1>2 DEF OptIn, Margin, Some
<1> QED BY <1>1, <1>2

LEMMA FcfIn ==
  ASSUME NEW s, NEW t, NEW k \in Int, StatementIn(s, t, k)
  PROVE  OptIn(Fcf(s), Fcf(t), k)
<1>1. OptIn(s.fcf, t.fcf, k) /\ OptIn(s.cashflow, t.cashflow, k) /\ OptIn(s.capex, t.capex, k)
  BY FieldsIn
<1>2. /\ (Some(s.fcf) <=> Some(t.fcf)) /\ (Some(s.cashflow) <=> Some(t.cashflow)) /\ (Some(s.capex) <=> Some(t.capex))
      /\ (Some(s.cashflow) => Scaled(s.cashflow, t.cashflow, k)) /\ (Some(s.capex) => Scaled(s.capex, t.capex, k))
  BY <1>1, KnownIn
<1>3. CASE Some(s.fcf)
  BY <1>1, <1>2, <1>3 DEF Fcf
<1>4. CASE ~Some(s.fcf) /\ Some(s.cashflow) /\ Some(s.capex)
  <2>1. Fcf(s) = Plus(s.cashflow, s.capex) /\ Fcf(t) = Plus(t.cashflow, t.capex)
    BY <1>2, <1>4 DEF Fcf
  <2> QED BY <1>2, <1>4, <2>1, PlusIn DEF OptIn
<1>5. CASE ~Some(s.fcf) /\ ~(Some(s.cashflow) /\ Some(s.capex))
  BY <1>2, <1>5 DEF Fcf, OptIn
<1> QED BY <1>3, <1>4, <1>5

LEMMA TaxRateIn ==
  ASSUME NEW s, NEW t, NEW k \in Int, k > 0, StatementIn(s, t, k)
  PROVE  Scaled(TaxRate(s), TaxRate(t), 1)
<1>1. OptIn(s.pretax, t.pretax, k) /\ OptIn(s.tax, t.tax, k)
  BY FieldsIn
<1>2. DefaultTaxRate \in Fraction
  BY FiguresAssumption
<1>3. CASE Scaled(s.pretax, t.pretax, k) /\ Scaled(s.tax, t.tax, k) /\ s.pretax[1] > 0 /\ s.tax[1] >= 0
  <2>1. Some(s.pretax) /\ Some(t.pretax) /\ Some(s.tax) /\ Some(t.tax)
    BY <1>3, NumberIs DEF Scaled
  <2>2. s.tax[1] \in Int /\ t.tax[1] \in Int /\ s.pretax[1] \in Int /\ t.pretax[1] \in Int
    BY <1>3, PartsAre
  <2>3. (s.tax[1] < 0 <=> t.tax[1] < 0) /\ t.pretax[1] > 0
    BY <1>3, SignIn
  <2>4. t.tax[1] >= 0
    BY <1>3, <2>2, <2>3
  <2>5. TaxRate(s) = Least(MaxTaxRate, Div(s.tax, s.pretax)) /\ TaxRate(t) = Least(MaxTaxRate, Div(t.tax, t.pretax))
    BY <1>3, <2>1, <2>3, <2>4 DEF TaxRate
  <2>6. Div(s.tax, s.pretax) # Unknown
    BY <1>3, <2>1 DEF Div, Unknown
  <2>7. Scaled(Div(s.tax, s.pretax), Div(t.tax, t.pretax), 1)
    BY <1>3, <2>6, DivIn DEF OptIn
  <2> QED BY <2>5, <2>7, LeastIn, UnitsIn
<1>4. CASE ~(Scaled(s.pretax, t.pretax, k) /\ Scaled(s.tax, t.tax, k) /\ s.pretax[1] > 0 /\ s.tax[1] >= 0)
  <2>1. /\ ~(Some(s.pretax) /\ s.pretax[1] > 0 /\ Some(s.tax) /\ s.tax[1] >= 0)
        /\ ~(Some(t.pretax) /\ t.pretax[1] > 0 /\ Some(t.tax) /\ t.tax[1] >= 0)
    <3>1. CASE Scaled(s.pretax, t.pretax, k) /\ Scaled(s.tax, t.tax, k)
      <4>1. (s.tax[1] < 0 <=> t.tax[1] < 0) /\ (s.pretax[1] > 0 <=> t.pretax[1] > 0)
        BY <3>1, SignIn
      <4>2. s.tax[1] \in Int /\ t.tax[1] \in Int
        BY <3>1, PartsAre
      <4>3. s.tax[1] >= 0 <=> t.tax[1] >= 0
        BY <4>1, <4>2
      <4> QED BY <1>4, <3>1, <4>1, <4>3
    <3>2. CASE ~(Scaled(s.pretax, t.pretax, k) /\ Scaled(s.tax, t.tax, k))
      BY <1>1, <3>2 DEF OptIn, Some
    <3> QED BY <3>1, <3>2
  <2>2. TaxRate(s) = DefaultTaxRate /\ TaxRate(t) = DefaultTaxRate
    BY <2>1 DEF TaxRate
  <2> QED BY <1>2, <2>2, UnitsIn
<1> QED BY <1>3, <1>4

LEMMA RoicIn ==
  ASSUME NEW s, NEW t, NEW k \in Int, k > 0, StatementIn(s, t, k)
  PROVE  OptIn(Roic(s), Roic(t), 1)
<1>1. OptIn(s.ebit, t.ebit, k) /\ OptIn(s.equity, t.equity, k) /\ OptIn(s.debt, t.debt, k)
  BY FieldsIn
<1>2. CASE ~Some(s.ebit) \/ ~Some(s.equity)
  <2>1. ~Some(t.ebit) \/ ~Some(t.equity)
    BY <1>1, <1>2, KnownIn
  <2> QED BY <1>2, <2>1 DEF Roic, OptIn
<1>3. CASE Some(s.ebit) /\ Some(s.equity)
  <2>1. Scaled(s.ebit, t.ebit, k) /\ Scaled(s.equity, t.equity, k) /\ Some(t.ebit) /\ Some(t.equity)
    BY <1>1, <1>3, KnownIn
  <2>2. PICK d, e : d = (IF Some(s.debt) THEN s.debt ELSE Zero) /\ e = (IF Some(t.debt) THEN t.debt ELSE Zero)
    OBVIOUS
  <2>3. Scaled(d, e, k)
    BY <1>1, <2>2, KnownIn, UnitsIn
  <2>4. Scaled(Subtract(Unity, TaxRate(s)), Subtract(Unity, TaxRate(t)), 1)
    BY TaxRateIn, UnitsIn, SubtractIn
  <2>5. Scaled(Times(s.ebit, Subtract(Unity, TaxRate(s))), Times(t.ebit, Subtract(Unity, TaxRate(t))), k * 1)
    BY <2>1, <2>4, TimesIn
  <2>6. k * 1 = k
    OBVIOUS
  <2>7. Scaled(Times(s.ebit, Subtract(Unity, TaxRate(s))), Times(t.ebit, Subtract(Unity, TaxRate(t))), k)
    BY <2>5, <2>6, Zenon
  <2>8. Scaled(Plus(s.equity, d), Plus(t.equity, e), k)
    BY <2>1, <2>3, PlusIn
  <2>9. /\ Roic(s) = Div(Times(s.ebit, Subtract(Unity, TaxRate(s))), Plus(s.equity, d))
        /\ Roic(t) = Div(Times(t.ebit, Subtract(Unity, TaxRate(t))), Plus(t.equity, e))
    BY <1>3, <2>1, <2>2 DEF Roic
  <2> QED BY <2>7, <2>8, <2>9, DivIn DEF OptIn
<1> QED BY <1>2, <1>3

\* The figures that take a statement against market data, in another currency than the trading one.
Foreign(k) == rate \in Figure /\ ~SameCurrency(FxOf(1)) /\ ~SameCurrency(FxOf(k))
\* What Yahoo says of the market: numbers, or unknown.
MarketOK == \A f \in {"cap", "value", "pe", "pb", "dividend"} : market[f] \in Figure

\* It is in the trading currency.
LEMMA MarketIn == MarketOK => OptIn(market.cap, market.cap, 1) /\ OptIn(market.dividend, market.dividend, 1)
BY UnitsIn DEF MarketOK

\* The multiples: market data against a statement in the trading currency.
LEMMA EnterpriseValueIn ==
  ASSUME NEW s, NEW t, NEW k \in Int, k > 0, StatementIn(s, t, k), Foreign(k), MarketOK
  PROVE  OptIn(EnterpriseValue(s, FxOf(1)), EnterpriseValue(t, FxOf(k)), 1)
<1>1. PICK d, e, c, h, m : /\ d = ToTrading(s.debt, FxOf(1)) /\ e = ToTrading(t.debt, FxOf(k))
                           /\ c = ToTrading(s.cash, FxOf(1)) /\ h = ToTrading(t.cash, FxOf(k))
                           /\ m = market.cap
  OBVIOUS
<1>2. OptIn(d, e, 1) /\ OptIn(c, h, 1) /\ OptIn(m, m, 1)
  BY <1>1, FieldsIn, TradingIn, MarketIn DEF Foreign
<1>3. /\ EnterpriseValue(s, FxOf(1)) = IF Some(m) /\ Some(d) /\ Some(c) THEN Subtract(Plus(m, d), c) ELSE Unknown
      /\ EnterpriseValue(t, FxOf(k)) = IF Some(m) /\ Some(e) /\ Some(h) THEN Subtract(Plus(m, e), h) ELSE Unknown
  BY <1>1 DEF EnterpriseValue, Foreign
<1>4. (Some(d) <=> Some(e)) /\ (Some(c) <=> Some(h))
  BY <1>2, KnownIn
<1>5. CASE Some(m) /\ Some(d) /\ Some(c)
  <2>1. Scaled(d, e, 1) /\ Scaled(c, h, 1) /\ Scaled(m, m, 1)
    BY <1>2, <1>5, KnownIn
  <2>2. Scaled(Subtract(Plus(m, d), c), Subtract(Plus(m, e), h), 1)
    BY <2>1, PlusIn, SubtractIn
  <2> QED BY <1>3, <1>4, <1>5, <2>2 DEF OptIn
<1>6. CASE ~(Some(m) /\ Some(d) /\ Some(c))
  BY <1>3, <1>4, <1>6 DEF OptIn
<1> QED BY <1>5, <1>6

LEMMA PeRatioIn ==
  ASSUME NEW s, NEW t, NEW k \in Int, k > 0, StatementIn(s, t, k), Foreign(k), MarketOK
  PROVE  OptIn(PeRatio(s, FxOf(1)), PeRatio(t, FxOf(k)), 1)
<1>1. PICK c, h, m : /\ c = ToTrading(LatestKnown(s.income), FxOf(1)) /\ h = ToTrading(LatestKnown(t.income), FxOf(k))
                     /\ m = market.cap
  OBVIOUS
<1>2. OptIn(c, h, 1) /\ OptIn(m, m, 1)
  <2>1. OptIn(LatestKnown(s.income), LatestKnown(t.income), k)
    BY FieldsIn, LatestKnownIn
  <2> QED BY <1>1, <2>1, TradingIn, MarketIn DEF Foreign
<1>3. /\ PeRatio(s, FxOf(1)) = IF Some(c) /\ c[1] > 0 THEN Div(m, c) ELSE Unknown
      /\ PeRatio(t, FxOf(k)) = IF Some(h) /\ h[1] > 0 THEN Div(m, h) ELSE Unknown
  BY <1>1 DEF PeRatio, Foreign
<1>4. (Some(c) /\ c[1] > 0) <=> (Some(h) /\ h[1] > 0)
  <2>1. CASE Scaled(c, h, 1)
    BY <2>1, SignIn, NumberIs DEF Scaled
  <2>2. CASE ~Scaled(c, h, 1)
    BY <1>2, <2>2 DEF OptIn, Some
  <2> QED BY <2>1, <2>2
<1>5. OptIn(Div(m, c), Div(m, h), 1)
  BY <1>2, DivIn
<1> QED BY <1>3, <1>4, <1>5 DEF OptIn

LEMMA BuybackYieldIn ==
  ASSUME NEW s, NEW t, NEW k \in Int, k > 0, StatementIn(s, t, k), Foreign(k), MarketOK
  PROVE  OptIn(BuybackYield(s, FxOf(1)), BuybackYield(t, FxOf(k)), 1)
<1>1. PICK c, h, m : c = ToTrading(s.buybacks, FxOf(1)) /\ h = ToTrading(t.buybacks, FxOf(k)) /\ m = market.cap
  OBVIOUS
<1>2. OptIn(c, h, 1) /\ OptIn(m, m, 1)
  BY <1>1, FieldsIn, TradingIn, MarketIn DEF Foreign
<1>3. /\ BuybackYield(s, FxOf(1)) = IF Some(c) THEN Div(Abs(c), m) ELSE Unknown
      /\ BuybackYield(t, FxOf(k)) = IF Some(h) THEN Div(Abs(h), m) ELSE Unknown
  BY <1>1 DEF BuybackYield
<1>4. CASE Scaled(c, h, 1)
  <2>1. Scaled(Abs(c), Abs(h), 1) /\ Some(c) /\ Some(h)
    <3>1. Scaled(Abs(c), Abs(h), 1)
      BY <1>4, AbsIn
    <3>2. Some(c) /\ Some(h)
      BY <1>4, NumberIs DEF Scaled
    <3> QED BY <3>1, <3>2
  <2>2. OptIn(Div(Abs(c), m), Div(Abs(h), m), 1)
    BY <1>2, <2>1, DivIn DEF OptIn
  <2> QED BY <1>3, <2>1, <2>2
<1>5. CASE ~Scaled(c, h, 1)
  BY <1>2, <1>3, <1>5 DEF OptIn, Some
<1> QED BY <1>4, <1>5

LEMMA ShareholderYieldIn ==
  ASSUME NEW s, NEW t, NEW k \in Int, k > 0, StatementIn(s, t, k), Foreign(k), MarketOK
  PROVE  OptIn(ShareholderYield(s, FxOf(1)), ShareholderYield(t, FxOf(k)), 1)
<1>1. PICK c, h, m : c = BuybackYield(s, FxOf(1)) /\ h = BuybackYield(t, FxOf(k)) /\ m = market.dividend
  OBVIOUS
<1>2. OptIn(c, h, 1) /\ OptIn(m, m, 1)
  BY <1>1, BuybackYieldIn, MarketIn
<1>3. /\ ShareholderYield(s, FxOf(1)) = IF ~Some(m) THEN c ELSE IF Some(c) THEN Plus(m, c) ELSE m
      /\ ShareholderYield(t, FxOf(k)) = IF ~Some(m) THEN h ELSE IF Some(h) THEN Plus(m, h) ELSE m
  BY <1>1 DEF ShareholderYield
<1>4. Some(c) <=> Some(h)
  BY <1>2, KnownIn
<1>5. CASE Some(m) /\ Some(c)
  <2>1. Scaled(m, m, 1) /\ Scaled(c, h, 1)
    BY <1>2, <1>5, KnownIn
  <2>2. OptIn(Plus(m, c), Plus(m, h), 1)
    BY <2>1, PlusIn DEF OptIn
  <2> QED BY <1>3, <1>4, <1>5, <2>2
<1>6. CASE ~(Some(m) /\ Some(c))
  BY <1>2, <1>3, <1>4, <1>6
<1> QED BY <1>5, <1>6

LEMMA MultiplesIn ==
  ASSUME NEW s, NEW t, NEW k \in Int, k > 0, StatementIn(s, t, k), Foreign(k), MarketOK
  PROVE  /\ OptIn(Div(EnterpriseValue(s, FxOf(1)), ToTrading(s.ebit, FxOf(1))),
                  Div(EnterpriseValue(t, FxOf(k)), ToTrading(t.ebit, FxOf(k))), 1)
         /\ OptIn(PbRatio(s, FxOf(1)), PbRatio(t, FxOf(k)), 1)
         /\ OptIn(Div(market.cap, ToTrading(Fcf(s), FxOf(1))), Div(market.cap, ToTrading(Fcf(t), FxOf(k))), 1)
<1>1. /\ OptIn(ToTrading(s.ebit, FxOf(1)), ToTrading(t.ebit, FxOf(k)), 1)
      /\ OptIn(ToTrading(s.equity, FxOf(1)), ToTrading(t.equity, FxOf(k)), 1)
      /\ OptIn(ToTrading(Fcf(s), FxOf(1)), ToTrading(Fcf(t), FxOf(k)), 1)
  BY FieldsIn, FcfIn, TradingIn DEF Foreign
<1>2. /\ PbRatio(s, FxOf(1)) = Div(market.cap, ToTrading(s.equity, FxOf(1)))
      /\ PbRatio(t, FxOf(k)) = Div(market.cap, ToTrading(t.equity, FxOf(k)))
  BY DEF PbRatio, Foreign
<1> QED BY <1>1, <1>2, EnterpriseValueIn, MarketIn, DivIn

\* No figure depends on the currency the statement is reported in.
LEMMA MetricsIn ==
  ASSUME NEW s, NEW t, NEW k \in Int, k > 0, StatementIn(s, t, k), Foreign(k), MarketOK
  PROVE  \A f \in DOMAIN Metrics(t, FxOf(k)) : Equal(Metrics(t, FxOf(k))[f], Metrics(s, FxOf(1))[f])
<1>1. PICK r, c, x, y : r = LatestKnown(s.revenue) /\ c = LatestKnown(s.income)
        /\ x = LatestKnown(t.revenue) /\ y = LatestKnown(t.income)
  OBVIOUS
<1>2. OptIn(r, x, k) /\ OptIn(c, y, k)
  BY <1>1, FieldsIn, LatestKnownIn
<1>3. /\ OptIn(Div(c, s.assets), Div(y, t.assets), 1)
      /\ OptIn(Div(Fcf(s), r), Div(Fcf(t), x), 1)
      /\ OptIn(Div(s.gross, r), Div(t.gross, x), 1)
      /\ OptIn(Div(s.operating, r), Div(t.operating, x), 1)
      /\ OptIn(Div(s.debt, s.equity), Div(t.debt, t.equity), 1)
  BY <1>2, FieldsIn, FcfIn, DivIn
<1>4. OptIn(Div(Margin(s.debt, s.cash), s.ebitda), Div(Margin(t.debt, t.cash), t.ebitda), 1)
  BY FieldsIn, MarginIn, DivIn
<1>5. OptIn(Stability(s.income), Stability(t.income), 1)
  BY FieldsIn, StabilityIn
<1>6. Equal(Growth(t.revenue), Growth(s.revenue)) /\ Equal(Growth(t.eps), Growth(s.eps))
  BY FieldsIn, GrowthIn
<1>7. OptIn(market.dividend, market.dividend, 1)
  BY MarketIn
<1>8. PICK now, first : now = Metrics(t, FxOf(k)) /\ first = Metrics(s, FxOf(1))
  OBVIOUS
<1>9. /\ Equal(now.enterprise_value, first.enterprise_value) /\ Equal(now.ev_ebit, first.ev_ebit)
      /\ Equal(now.pe_ratio, first.pe_ratio) /\ Equal(now.pb_ratio, first.pb_ratio) /\ Equal(now.p_fcf, first.p_fcf)
  BY <1>8, EnterpriseValueIn, MultiplesIn, PeRatioIn, EqualIs DEF Metrics
<1>10. /\ Equal(now.dividend_yield, first.dividend_yield) /\ Equal(now.buyback_yield, first.buyback_yield)
       /\ Equal(now.shareholder_yield, first.shareholder_yield) /\ Equal(now.roic, first.roic)
  BY <1>7, <1>8, BuybackYieldIn, ShareholderYieldIn, RoicIn, EqualIs DEF Metrics
<1>11. /\ Equal(now.roa, first.roa) /\ Equal(now.fcf_margin, first.fcf_margin)
           /\ Equal(now.gross_margin, first.gross_margin)
       /\ Equal(now.operating_margin, first.operating_margin) /\ Equal(now.net_debt_ebitda, first.net_debt_ebitda)
       /\ Equal(now.debt_to_equity, first.debt_to_equity)
  BY <1>1, <1>3, <1>4, <1>8, EqualIs DEF Metrics
<1>12. /\ Equal(now.earnings_stability, first.earnings_stability)
       /\ Equal(now.revenue_growth_5y, first.revenue_growth_5y) /\ Equal(now.eps_growth_5y, first.eps_growth_5y)
  BY <1>5, <1>6, <1>8, EqualIs DEF Metrics
<1>13. DOMAIN now = {"enterprise_value", "ev_ebit", "pe_ratio", "pb_ratio", "p_fcf",
         "dividend_yield", "buyback_yield",
                     "shareholder_yield", "roic", "roa", "fcf_margin", "gross_margin", "operating_margin",
                     "net_debt_ebitda", "debt_to_equity", "earnings_stability", "revenue_growth_5y", "eps_growth_5y"}
  BY <1>8 DEF Metrics
<1>14. \A f \in DOMAIN now : Equal(now[f], first[f])
  BY <1>9, <1>10, <1>11, <1>12, <1>13
<1> QED BY <1>8, <1>14

------------------------------------------------------------------------------
(* The title as it is fetched.                                               *)

\* The type of the state; out of the first currency neither is the trading currency.
LEMMA FiguresTypeIsInductive ==
  (FiguresInit => FiguresTypeOK) /\ (FiguresTypeOK /\ [FiguresNext]_figuresVars => FiguresTypeOK')
<1>1. FiguresInit => FiguresTypeOK
  BY DEF FiguresInit, FiguresTypeOK
<1>2. ASSUME FiguresTypeOK, NEW k \in Units, ReportIn(k) PROVE FiguresTypeOK'
  <2>1. /\ statement' = statement /\ market' = market /\ rate' = rate /\ unit' = k
        /\ ~SameCurrency(rate) /\ ~SameCurrency(FxOf(k))
    BY <1>2 DEF ReportIn
  <2>2. (FxOf(unit))' = FxOf(k)
    BY <2>1 DEF FxOf
  <2>3. SameCurrency(rate)' = SameCurrency(rate) /\ SameCurrency(FxOf(unit))' = SameCurrency(FxOf(k))
    BY <2>1, <2>2 DEF SameCurrency
  <2> QED BY <1>2, <2>1, <2>3 DEF FiguresTypeOK
<1>3. ASSUME FiguresTypeOK, UNCHANGED figuresVars PROVE FiguresTypeOK'
  BY <1>3 DEF FiguresTypeOK, figuresVars, SameCurrency, FxOf
<1> QED BY <1>1, <1>2, <1>3 DEF FiguresNext

\* What is reported in another currency is so many times as much,
LEMMA InUnitIn ==
  ASSUME NEW x \in Figure, NEW k \in Int, k > 0
  PROVE  /\ InUnit(x, 1) \in Figure /\ InUnit(x, k) \in Figure
         /\ OptIn(InUnit(x, 1), InUnit(x, k), k)
<1>1. CASE x = Unknown
  BY <1>1 DEF InUnit, Some, OptIn, Figure
<1>2. CASE x \in Fraction
  <2>1. PICK x1, x2 : x1 = x[1] /\ x2 = x[2]
    OBVIOUS
  <2>2. x1 \in Int /\ x2 \in Int /\ x2 > 0 /\ Some(x)
    BY <1>2, <2>1, NumberIs
  <2>3. InUnit(x, 1) = <<x1 * 1, x2 * 1>> /\ InUnit(x, k) = <<x1 * k, x2 * 1>>
    BY <2>1, <2>2 DEF InUnit, Times
  <2>4. x1 * 1 = x1 /\ x2 * 1 = x2 /\ x1 * k \in Int
    BY <2>2, Z3
  <2>5. (x1 * k) * x2 = k * (x1 * x2)
    BY <2>2, Z3
  <2>6. /\ <<x1, x2>> \in Fraction /\ <<x1 * k, x2>> \in Fraction
        /\ <<x1, x2>>[1] = x1 /\ <<x1, x2>>[2] = x2 /\ <<x1 * k, x2>>[1] = x1 * k /\ <<x1 * k, x2>>[2] = x2
    BY <2>2, <2>4, PairIs
  <2>7. InUnit(x, 1) = <<x1, x2>> /\ InUnit(x, k) = <<x1 * k, x2>>
    BY <2>3, <2>4
  <2> QED BY <2>5, <2>6, <2>7 DEF Scaled, OptIn, Figure
<1> QED BY <1>1, <1>2 DEF Figure

\* each field of it, each year.
LEMMA ReportedIn ==
  ASSUME FiguresTypeOK, NEW k \in Int, k > 0
  PROVE  StatementIn(Reported(1), Reported(k), k)
<1>1. /\ DOMAIN statement = Histories \cup Balances
      /\ \A field \in Histories : statement[field] \in Seq(Figure)
      /\ \A field \in Balances : statement[field] \in Figure
  BY FiguresAssumption DEF FiguresTypeOK
<1>2. Histories \cap Balances = {}
  BY DEF Histories, Balances
<1>3. ASSUME NEW field \in Balances PROVE OptIn(Reported(1)[field], Reported(k)[field], k)
  <2>1. Reported(1)[field] = InUnit(statement[field], 1) /\ Reported(k)[field] = InUnit(statement[field], k)
    BY <1>1, <1>2 DEF Reported
  <2> QED BY <1>1, <2>1, InUnitIn
<1>4. ASSUME NEW field \in Histories PROVE SeriesIn(Reported(1)[field], Reported(k)[field], k)
  <2>1. PICK s : s = statement[field]
    OBVIOUS
  <2>2. PICK n : n = Len(s) /\ n \in Nat /\ DOMAIN s = 1..n
    BY <1>1, <2>1
  <2>3. /\ Reported(1)[field] = [i \in 1..n |-> InUnit(s[i], 1)]
        /\ Reported(k)[field] = [i \in 1..n |-> InUnit(s[i], k)]
    BY <1>1, <2>1, <2>2 DEF Reported
  <2>4. \A i \in 1..n : /\ InUnit(s[i], 1) \in Figure /\ InUnit(s[i], k) \in Figure
                        /\ OptIn(InUnit(s[i], 1), InUnit(s[i], k), k)
    <3>1. \A i \in 1..n : s[i] \in Figure
      BY <1>1, <2>1, <2>2
    <3> QED BY <3>1, InUnitIn
  <2>5. PICK x, y : x = Reported(1)[field] /\ y = Reported(k)[field]
    OBVIOUS
  <2>6. x \in Seq(Figure) /\ y \in Seq(Figure) /\ Len(x) = n /\ Len(y) = n
    BY <2>2, <2>3, <2>4, <2>5
  <2>7. \A i \in 1..n : OptIn(x[i], y[i], k)
    BY <2>3, <2>4, <2>5
  <2> QED BY <2>5, <2>6, <2>7 DEF SeriesIn
<1> QED BY <1>3, <1>4 DEF StatementIn

\* In another currency that is not the trading currency: the figures are the first ones.
LEMMA UnitsDoNotMatterHolds == FiguresTypeOK => UnitsDoNotMatter
<1> SUFFICES ASSUME FiguresTypeOK, unit # 1
             PROVE  \A f \in DOMAIN Metrics(Reported(unit), FxOf(unit)) :
                      Equal(Metrics(Reported(unit), FxOf(unit))[f], Metrics(Reported(1), FxOf(1))[f])
  BY DEF UnitsDoNotMatter
<1>1. unit \in Int /\ unit > 0
  BY FiguresAssumption DEF FiguresTypeOK
<1>2. StatementIn(Reported(1), Reported(unit), unit)
  BY <1>1, ReportedIn
<1>3. rate \in Figure /\ MarketOK
  BY FiguresAssumption DEF FiguresTypeOK, MarketOK
<1>4. SameCurrency(FxOf(1)) => SameCurrency(rate)
  <2>1. CASE rate = Unknown
    BY <2>1 DEF FxOf, SameCurrency, Some
  <2>2. CASE rate \in Fraction
    <3>1. Some(rate) /\ rate[1] \in Int /\ rate[2] \in Int
      BY <2>2, NumberIs
    <3>2. FxOf(1) = <<rate[1], rate[2]>>
      BY <3>1 DEF FxOf
    <3> QED BY <3>1, <3>2 DEF SameCurrency
  <2> QED BY <1>3, <2>1, <2>2 DEF Figure
<1>5. Foreign(unit)
  BY <1>3, <1>4 DEF Foreign, FiguresTypeOK
<1> QED BY <1>1, <1>2, <1>3, <1>5, MetricsIn

\* metrics.py: a company that goes over to another reporting currency keeps all its figures,
\* whichever of its data are missing, with a rate or without.
THEOREM TheUnitsDoNotMatter == FiguresSpec => []UnitsDoNotMatter
<1>1. FiguresInit => FiguresTypeOK
  BY FiguresTypeIsInductive
<1>2. FiguresTypeOK /\ [FiguresNext]_figuresVars => FiguresTypeOK'
  BY FiguresTypeIsInductive
<1> QED BY <1>1, <1>2, UnitsDoNotMatterHolds, PTL DEF FiguresSpec

------------------------------------------------------------------------------
(* Rules.                                                                    *)

\* A table of titles: the figures are numbers or missing.
TableOK(df) ==
  /\ df.large \in SUBSET Stock
  /\ \A t \in Stock, f \in Factor : df.figure[t][f] \in Int \cup {Missing}

\* The titles that are ranked in a figure are finitely many and have a number for it.
LEMMA RankedAre ==
  ASSUME NEW df, TableOK(df), NEW f \in Factor
  PROVE  /\ Ranked(df, f) \in SUBSET Stock /\ Ranked(df, f) \subseteq df.large
         /\ \A t \in Ranked(df, f) : df.figure[t][f] \in Int
         /\ IsFiniteSet(Ranked(df, f))
         /\ Ranked(df, f) # {} => Cardinality(Ranked(df, f)) \in Stock
<1> DEFINE R == Ranked(df, f)
<1>1. R \in SUBSET Stock /\ R \subseteq df.large /\ \A t \in R : df.figure[t][f] \in Int
  BY DEF TableOK, Ranked
<1> HIDE DEF R
<1>2. NumStocks \in Nat
  BY RulesAssumption
<1>3. IsFiniteSet(Stock) /\ Cardinality(Stock) = NumStocks
  <2>1. 1 \in Int /\ NumStocks \in Int
    BY <1>2
  <2>2. IsFiniteSet(1..NumStocks) /\ Cardinality(1..NumStocks) = IF 1 > NumStocks THEN 0 ELSE NumStocks - 1 + 1
    BY <2>1, FS_Interval
  <2> QED BY <1>2, <2>2 DEF Stock
<1>4. IsFiniteSet(R) /\ Cardinality(R) <= NumStocks
  BY <1>1, <1>3, FS_Subset
<1>5. Cardinality(R) \in Nat
  BY <1>4, FS_CardinalityType
<1>6. R # {} => Cardinality(R) # 0
  BY <1>4, FS_EmptySet
<1>7. R # {} => Cardinality(R) \in Stock
  BY <1>2, <1>4, <1>5, <1>6 DEF Stock
<1> QED BY <1>1, <1>4, <1>7 DEF R

\* Those below a figure, and those not above it.
Below(df, t, f) == {u \in Ranked(df, f) : df.figure[u][f] < df.figure[t][f]}
\* The titles whose figure is not above this one's.
NotAbove(df, t, f) == {u \in Ranked(df, f) : df.figure[u][f] <= df.figure[t][f]}
\* Twice the average place among equal figures.
Places2(df, t, f) == Cardinality(Below(df, t, f)) + Cardinality(NotAbove(df, t, f)) + 1
\* Half a place, as a share of n titles.
Unit(n) == Whole \div (2 * n)

\* The share of a figure: the number of those below and of those not above, in units.
LEMMA PercentileIs ==
  ASSUME NEW df, TableOK(df), NEW f \in Factor, NEW t \in Ranked(df, f)
  PROVE  /\ Cardinality(Below(df, t, f)) \in Nat /\ Cardinality(NotAbove(df, t, f)) \in Nat
         /\ Percentile(df, t, f) = IF f \in Low THEN Whole - Places2(df, t, f) * Unit(Cardinality(Ranked(df, f)))
                                   ELSE Places2(df, t, f) * Unit(Cardinality(Ranked(df, f)))
<1>1. PICK R, less, equal, upto :
        /\ R = Ranked(df, f)
        /\ less = {u \in R : df.figure[u][f] < df.figure[t][f]}
        /\ equal = {u \in R : df.figure[u][f] = df.figure[t][f]}
        /\ upto = {u \in R : df.figure[u][f] <= df.figure[t][f]}
  OBVIOUS
<1>2. IsFiniteSet(R) /\ t \in R /\ \A u \in R : df.figure[u][f] \in Int
  BY <1>1, RankedAre
<1>3. IsFiniteSet(less) /\ IsFiniteSet(equal)
  BY <1>1, <1>2, FS_Subset
<1>4. upto = less \cup equal /\ less \cap equal = {}
  BY <1>1, <1>2
<1>5. Cardinality(less \cup equal) = Cardinality(less) + Cardinality(equal) - Cardinality(less \cap equal)
  BY <1>3, FS_Union
<1>6. Cardinality({}) = 0
  BY FS_EmptySet
<1>7. Cardinality(less) \in Nat /\ Cardinality(equal) \in Nat
  BY <1>3, FS_CardinalityType
<1>8. Cardinality(upto) = Cardinality(less) + Cardinality(equal)
  <2>1. Cardinality(upto) = Cardinality(less) + Cardinality(equal) - 0
    BY <1>4, <1>5, <1>6, Zenon
  <2> QED BY <1>7, <2>1
<1>9. Places2(df, t, f) = 2 * Cardinality(less) + Cardinality(equal) + 1
  BY <1>1, <1>7, <1>8 DEF Places2, Below, NotAbove
<1>10. Percentile(df, t, f) =
         IF f \in Low THEN Whole - (2 * Cardinality(less) + Cardinality(equal) + 1) * (Whole \div (2 * Cardinality(R)))
         ELSE (2 * Cardinality(less) + Cardinality(equal) + 1) * (Whole \div (2 * Cardinality(R)))
  BY <1>1 DEF Percentile
<1>11. Cardinality(Below(df, t, f)) \in Nat /\ Cardinality(NotAbove(df, t, f)) \in Nat
  BY <1>1, <1>7, <1>8 DEF Below, NotAbove
<1> QED BY <1>1, <1>9, <1>10, <1>11 DEF Unit

\* The whole goes into the units of so many titles, and each of them into so many factors.
LEMMA WholeDivides ==
  ASSUME NEW n \in Stock, NEW k \in 1..Cardinality(Factor)
  PROVE  \E c \in Nat \ {0} : Unit(n) = k * c /\ Whole = (2 * n) * (k * c)
<1>1. n \in Nat \ {0} /\ k \in Nat \ {0}
  BY RulesAssumption DEF Stock
<1>2. Whole \in Nat \ {0} /\ Whole % (2 * n * k) = 0
  BY RulesAssumption
<1>3. PICK d : d = 2 * n * k
  OBVIOUS
<1>4. d \in Nat \ {0}
  BY <1>1, <1>3, Z3
<1>5. PICK c : c = Whole \div d
  OBVIOUS
<1>6. c \in Int /\ Whole = d * c
  BY <1>2, <1>3, <1>4, <1>5, Z3
<1>7. c > 0
  BY <1>2, <1>4, <1>6, Z3
<1>8. c \in Nat \ {0}
  BY <1>6, <1>7
<1>9. Whole = (2 * n) * (k * c)
  BY <1>1, <1>3, <1>6, <1>8, Z3
<1>10. 2 * n \in Nat \ {0} /\ k * c \in Int
  BY <1>1, <1>8
<1>11. Unit(n) = k * c
  BY <1>9, <1>10, DivExact DEF Unit
<1> QED BY <1>8, <1>9, <1>11

\* So a percentile is a whole number, and as many factors as there are go into it.
LEMMA PercentileDivides ==
  ASSUME NEW df, TableOK(df), NEW f \in Factor, NEW t \in Ranked(df, f), NEW k \in 1..Cardinality(Factor)
  PROVE  \E c \in Int : Percentile(df, t, f) = k * c
<1>1. PICK n, p : n = Cardinality(Ranked(df, f)) /\ p = Places2(df, t, f)
  OBVIOUS
<1>2. n \in Stock /\ n \in Nat
  <2>1. Ranked(df, f) # {}
    OBVIOUS
  <2>2. n \in Stock
    BY <1>1, <2>1, RankedAre, Zenon
  <2>3. Stock \subseteq Nat
    BY RulesAssumption DEF Stock
  <2> QED BY <2>2, <2>3
<1>3. PICK c \in Nat \ {0} : Unit(n) = k * c /\ Whole = (2 * n) * (k * c)
  BY <1>2, WholeDivides
<1>4. p \in Nat
  BY <1>1, PercentileIs DEF Places2
<1>5. Percentile(df, t, f) = IF f \in Low THEN Whole - p * Unit(n) ELSE p * Unit(n)
  BY <1>1, PercentileIs
<1>6. k \in Nat /\ c \in Nat
  BY RulesAssumption, FS_CardinalityType
<1>7. p * (k * c) = k * (p * c) /\ (2 * n) * (k * c) - p * (k * c) = k * ((2 * n) * c - p * c)
  BY <1>2, <1>4, <1>6, Z3
<1>8. p * c \in Int /\ (2 * n) * c - p * c \in Int
  BY <1>2, <1>4, <1>6
<1> QED BY <1>3, <1>5, <1>7, <1>8

\* More below and more not above is a higher place.
LEMMA SharesCompare ==
  ASSUME NEW d, NEW e, TableOK(d), TableOK(e), NEW f \in Factor, Ranked(d, f) = Ranked(e, f),
         NEW t \in Ranked(d, f), NEW u \in Ranked(e, f),
         Below(d, t, f) \subseteq Below(e, u, f), NotAbove(d, t, f) \subseteq NotAbove(e, u, f)
  PROVE  /\ Percentile(d, t, f) \in Int /\ Percentile(e, u, f) \in Int
         /\ f \notin Low => Percentile(d, t, f) <= Percentile(e, u, f)
         /\ f \in Low => Percentile(e, u, f) <= Percentile(d, t, f)
         /\ Below(d, t, f) # Below(e, u, f) => Percentile(d, t, f) # Percentile(e, u, f)
<1>1. PICK n, p, q, w : /\ n = Cardinality(Ranked(d, f)) /\ w = Unit(n)
                        /\ p = Places2(d, t, f) /\ q = Places2(e, u, f)
  OBVIOUS
<1>2. /\ Percentile(d, t, f) = IF f \in Low THEN Whole - p * w ELSE p * w
      /\ Percentile(e, u, f) = IF f \in Low THEN Whole - q * w ELSE q * w
  BY <1>1, PercentileIs
<1>3. IsFiniteSet(Below(e, u, f)) /\ IsFiniteSet(NotAbove(e, u, f))
  <2>1. IsFiniteSet(Ranked(e, f))
    BY RankedAre
  <2> QED BY <2>1, FS_Subset DEF Below, NotAbove
<1>4. /\ Cardinality(Below(d, t, f)) <= Cardinality(Below(e, u, f))
      /\ Cardinality(NotAbove(d, t, f)) <= Cardinality(NotAbove(e, u, f))
      /\ Below(d, t, f) # Below(e, u, f) => Cardinality(Below(d, t, f)) # Cardinality(Below(e, u, f))
  BY <1>3, FS_Subset
<1>5. /\ Cardinality(Below(d, t, f)) \in Nat /\ Cardinality(NotAbove(d, t, f)) \in Nat
      /\ Cardinality(Below(e, u, f)) \in Nat /\ Cardinality(NotAbove(e, u, f)) \in Nat
  BY PercentileIs
<1>6. /\ p \in Nat /\ q \in Nat /\ p <= q
      /\ Below(d, t, f) # Below(e, u, f) => p < q
  BY <1>1, <1>4, <1>5 DEF Places2
<1>7. w \in Nat \ {0} /\ Whole \in Nat
  <2>1. n \in Stock
    BY <1>1, RankedAre
  <2>2. 1 \in 1..Cardinality(Factor)
    <3>1. IsFiniteSet(Factor) /\ Factor # {}
      BY RulesAssumption
    <3>2. Cardinality(Factor) \in Nat /\ Cardinality(Factor) # 0
      BY <3>1, FS_CardinalityType, FS_EmptySet
    <3> QED BY <3>2
  <2>3. PICK c \in Nat \ {0} : w = 1 * c
    BY <1>1, <2>1, <2>2, WholeDivides
  <2> QED BY <2>3, RulesAssumption
<1>8. /\ p * w \in Int /\ q * w \in Int /\ p * w <= q * w
      /\ p < q => p * w < q * w
  BY <1>6, <1>7, Z3
<1> QED BY <1>2, <1>6, <1>7, <1>8

------------------------------------------------------------------------------
(* Composites.                                                               *)

\* Of a title in one table and one in another: the second is nowhere worse; or less.
NotWorse(d, t, e, u, f) ==
  /\ t \in Ranked(d, f) <=> u \in Ranked(e, f)
  /\ t \in Ranked(d, f) => Percentile(d, t, f) <= Percentile(e, u, f)
\* In this figure the title is ranked in d, and its percentile is higher in e.
IsBetter(d, t, e, u, f) == t \in Ranked(d, f) /\ Percentile(d, t, f) < Percentile(e, u, f)

\* The one number of x is not more than that of y; less if strictly is true.
UpOrSame(x, y, strictly) ==
  \/ x = {} /\ y = {}
  \/ \E a, b \in Int : x = {a} /\ y = {b} /\ a <= b /\ (strictly => a < b)

\* The two groups of factors.
Group == {ValueFactor, QualityFactor}

\* Each is a finite set of factors, as is what is there of it.
LEMMA GroupsAre ==
  ASSUME NEW group \in Group
  PROVE  /\ group \subseteq Factor /\ IsFiniteSet(group)
         /\ \A S \in SUBSET group : IsFiniteSet(S) /\ Cardinality(S) <= Cardinality(Factor)
<1>1. group \subseteq Factor /\ IsFiniteSet(Factor)
  BY RulesAssumption DEF Group, Factor
<1> QED BY <1>1, FS_Subset

\* The factors of a group a title is ranked in, with their percentiles, and how many a mean needs.
There(d, t, group) == {f \in group : t \in Ranked(d, f)}
Shares(d, t, group) == [f \in There(d, t, group) |-> Percentile(d, t, f)]
Required(group) == Larger(MinCount, (Cardinality(group) + 1) \div 2)

\* The mean of a group is one of whole numbers, and is a whole number itself.
LEMMA MeanIs ==
  ASSUME NEW d, TableOK(d), NEW t \in d.large, NEW group \in Group
  PROVE  /\ MeanOf(d, t, group) = IF Cardinality(There(d, t, group)) < Required(group) THEN {}
                                  ELSE {SumAt(Shares(d, t, group), There(d, t, group))
                                          \div Cardinality(There(d, t, group))}
         /\ \A f \in There(d, t, group) : Shares(d, t, group)[f] = Percentile(d, t, f) /\ Percentile(d, t, f) \in Int
         /\ ~(Cardinality(There(d, t, group)) < Required(group)) =>
              /\ Cardinality(There(d, t, group)) \in 1..Cardinality(Factor)
              /\ \E c \in Int : SumAt(Shares(d, t, group), There(d, t, group)) = Cardinality(There(d, t, group)) * c
<1>0. PICK there, shares : there = There(d, t, group) /\ shares = Shares(d, t, group)
  OBVIOUS
<1>1. /\ group \subseteq Factor /\ there \in SUBSET group /\ IsFiniteSet(there)
      /\ Cardinality(there) <= Cardinality(Factor) /\ IsFiniteSet(Factor) /\ IsFiniteSet(group)
  BY <1>0, GroupsAre, RulesAssumption DEF There
<1>2. MeanOf(d, t, group) = IF Cardinality(there) < Required(group) THEN {}
                            ELSE {SumAt(shares, there) \div Cardinality(there)}
  BY <1>0 DEF MeanOf, Required, There, Shares
<1>3. \A f \in there : shares[f] = Percentile(d, t, f) /\ f \in Factor /\ t \in Ranked(d, f)
  BY <1>0, <1>1 DEF There, Shares
<1>4. 1 \in 1..Cardinality(Factor) \/ there = {}
  <2>1. Cardinality(Factor) \in Nat
    BY <1>1, FS_CardinalityType
  <2>2. there # {} => Cardinality(Factor) # 0
    BY <1>1, FS_EmptySet
  <2> QED BY <2>1, <2>2
<1>5. \A f \in there : Percentile(d, t, f) \in Int
  <2> SUFFICES ASSUME NEW f \in there PROVE Percentile(d, t, f) \in Int
    OBVIOUS
  <2>1. PICK c \in Int : Percentile(d, t, f) = 1 * c
    BY <1>3, <1>4, PercentileDivides
  <2> QED BY <2>1
<1>6. ASSUME ~(Cardinality(there) < Required(group))
      PROVE  /\ Cardinality(there) \in 1..Cardinality(Factor)
             /\ \E c \in Int : SumAt(shares, there) = Cardinality(there) * c
  <2>1. PICK k, g : k = Cardinality(there) /\ g = Cardinality(group)
    OBVIOUS
  <2>2. k \in Nat /\ g \in Nat /\ Cardinality(Factor) \in Nat /\ MinCount \in Nat \ {0}
    BY <1>1, <2>1, FS_CardinalityType, RulesAssumption
  <2>3. ~(k < Larger(MinCount, (g + 1) \div 2))
    BY <1>6, <2>1 DEF Required
  <2>4. Larger(MinCount, (g + 1) \div 2) >= MinCount
    BY <2>2, Z3 DEF Larger
  <2>5. Larger(MinCount, (g + 1) \div 2) \in Int
    BY <2>2, Z3 DEF Larger
  <2>6. k \in 1..Cardinality(Factor)
    BY <1>1, <2>1, <2>2, <2>3, <2>4, <2>5
  <2>7. AllMultiples(shares, there, k)
    BY <1>3, <2>6, PercentileDivides DEF AllMultiples
  <2>9. k \in Int /\ IsFiniteSet(there)
    BY <1>1, <2>2
  <2>8. \E c \in Int : SumAt(shares, there) = k * c
    BY <2>7, <2>9, SumDivides
  <2> QED BY <2>1, <2>6, <2>8
<1> QED BY <1>0, <1>2, <1>3, <1>5, <1>6

\* A mean of nowhere worse percentiles is not less.
LEMMA MeansCompare ==
  ASSUME NEW d, NEW e, TableOK(d), TableOK(e), NEW t \in d.large, NEW u \in e.large, NEW group \in Group,
         \A f \in group : NotWorse(d, t, e, u, f)
  PROVE  UpOrSame(MeanOf(d, t, group), MeanOf(e, u, group), \E f \in group : IsBetter(d, t, e, u, f))
<1>1. PICK there, x, y : there = There(d, t, group) /\ x = Shares(d, t, group) /\ y = Shares(e, u, group)
  OBVIOUS
<1>2. there = There(e, u, group)
  BY <1>1 DEF NotWorse, There
<1>3. PICK k, r : k = Cardinality(there) /\ r = Required(group)
  OBVIOUS
<1>4. /\ MeanOf(d, t, group) = IF k < r THEN {} ELSE {SumAt(x, there) \div k}
      /\ \A f \in there : x[f] = Percentile(d, t, f) /\ x[f] \in Int
      /\ ~(k < r) => k \in 1..Cardinality(Factor) /\ \E c \in Int : SumAt(x, there) = k * c
  BY <1>1, <1>3, MeanIs
<1>5. /\ MeanOf(e, u, group) = IF k < r THEN {} ELSE {SumAt(y, there) \div k}
      /\ \A f \in there : y[f] = Percentile(e, u, f) /\ y[f] \in Int
      /\ ~(k < r) => \E c \in Int : SumAt(y, there) = k * c
  BY <1>1, <1>2, <1>3, MeanIs
<1>6. CASE k < r
  BY <1>4, <1>5, <1>6 DEF UpOrSame
<1>7. CASE ~(k < r)
  <2>1. PICK a \in Int : SumAt(x, there) = k * a
    BY <1>4, <1>7
  <2>2. PICK b \in Int : SumAt(y, there) = k * b
    BY <1>5, <1>7
  <2>3. k \in Nat \ {0}
    BY <1>4, <1>7, RulesAssumption, FS_CardinalityType
  <2>4. MeanOf(d, t, group) = {a} /\ MeanOf(e, u, group) = {b}
    BY <1>4, <1>5, <1>7, <2>1, <2>2, <2>3, DivExact
  <2>5. IsFiniteSet(there)
    BY <1>1, GroupsAre DEF There
  <2>6. \A f \in there : x[f] \in Int /\ y[f] \in Int /\ x[f] <= y[f]
    BY <1>1, <1>4, <1>5 DEF NotWorse, There
  <2>7. k * a <= k * b
    BY <2>1, <2>2, <2>5, <2>6, SumsCompare
  <2>8. a <= b
    BY <2>3, <2>7, Z3
  <2>9. (\E f \in group : IsBetter(d, t, e, u, f)) => a < b
    <3> SUFFICES ASSUME NEW f \in group, IsBetter(d, t, e, u, f) PROVE a < b
      OBVIOUS
    <3>1. f \in there
      BY <1>1 DEF IsBetter, There
    <3>2. x[f] < y[f]
      BY <1>4, <1>5, <3>1 DEF IsBetter
    <3>3. k * a < k * b
      BY <2>1, <2>2, <2>5, <2>6, <3>1, <3>2, SumsCompare
    <3> QED BY <2>3, <3>3, Z3
  <2> QED BY <2>4, <2>8, <2>9 DEF UpOrSame
<1> QED BY <1>6, <1>7

\* And so is the composite, strictly if one is better that counts.
LEMMA LinesCompare ==
  ASSUME NEW d, NEW e, TableOK(d), TableOK(e), NEW t \in d.large, NEW u \in e.large,
         \A f \in Factor : NotWorse(d, t, e, u, f)
  PROVE  UpOrSame(Line(d, t).composite, Line(e, u).composite, \E f \in Factor : IsBetter(d, t, e, u, f) /\ Counts(f))
<1>1. PICK v, q, w, s : /\ v = MeanOf(d, t, ValueFactor) /\ q = MeanOf(d, t, QualityFactor)
                        /\ w = MeanOf(e, u, ValueFactor) /\ s = MeanOf(e, u, QualityFactor)
  OBVIOUS
<1>2. Factor = ValueFactor \cup QualityFactor
  BY DEF Factor
<1>3. /\ UpOrSame(v, w, \E f \in ValueFactor : IsBetter(d, t, e, u, f))
      /\ UpOrSame(q, s, \E f \in QualityFactor : IsBetter(d, t, e, u, f))
  BY <1>1, <1>2, MeansCompare DEF Group
<1>4. /\ Line(d, t).composite = {ValueWeight * a + QualityWeight * b : a \in v, b \in q}
      /\ Line(e, u).composite = {ValueWeight * a + QualityWeight * b : a \in w, b \in s}
  BY <1>1 DEF Line
<1>5. CASE (v = {} /\ w = {}) \/ (q = {} /\ s = {})
  BY <1>4, <1>5 DEF UpOrSame
<1>6. CASE ~((v = {} /\ w = {}) \/ (q = {} /\ s = {}))
  <2>1. PICK a, b \in Int : v = {a} /\ w = {b} /\ a <= b
          /\ ((\E f \in ValueFactor : IsBetter(d, t, e, u, f)) => a < b)
    BY <1>3, <1>6 DEF UpOrSame
  <2>2. PICK m, n \in Int : q = {m} /\ s = {n} /\ m <= n
          /\ ((\E f \in QualityFactor : IsBetter(d, t, e, u, f)) => m < n)
    BY <1>3, <1>6 DEF UpOrSame
  <2>3. PICK x, y : x = ValueWeight * a + QualityWeight * m /\ y = ValueWeight * b + QualityWeight * n
    OBVIOUS
  <2>4. Line(d, t).composite = {x} /\ Line(e, u).composite = {y}
    BY <1>4, <2>1, <2>2, <2>3
  <2>5. ValueWeight \in Nat /\ QualityWeight \in Nat
    BY RulesAssumption
  <2>6. /\ ValueWeight * a \in Int /\ ValueWeight * b \in Int /\ ValueWeight * a <= ValueWeight * b
        /\ ValueWeight > 0 /\ a < b => ValueWeight * a < ValueWeight * b
    BY <2>1, <2>5, Z3
  <2>7. /\ QualityWeight * m \in Int /\ QualityWeight * n \in Int /\ QualityWeight * m <= QualityWeight * n
        /\ QualityWeight > 0 /\ m < n => QualityWeight * m < QualityWeight * n
    BY <2>2, <2>5, Z3
  <2>8. x \in Int /\ y \in Int /\ x <= y
    BY <2>3, <2>6, <2>7
  <2>9. (ValueWeight > 0 /\ a < b) \/ (QualityWeight > 0 /\ m < n) => x < y
    BY <2>3, <2>6, <2>7
  <2>10. (\E f \in Factor : IsBetter(d, t, e, u, f) /\ Counts(f)) => x < y
    <3> SUFFICES ASSUME NEW f \in Factor, IsBetter(d, t, e, u, f), Counts(f) PROVE x < y
      OBVIOUS
    <3>1. CASE f \in ValueFactor
      BY <2>1, <2>9, <3>1 DEF Counts
    <3>2. CASE f \notin ValueFactor
      BY <1>2, <2>2, <2>9, <3>2 DEF Counts
    <3> QED BY <3>1, <3>2
  <2> QED BY <2>4, <2>8, <2>10 DEF UpOrSame
<1> QED BY <1>5, <1>6

------------------------------------------------------------------------------
(* The order.                                                                *)

\* What the ranking is by: no number or one.
Composite(df, t) == Line(df, t).composite

\* The line of a title has its composite.
LEMMA CompositeIs ==
  ASSUME NEW df, TableOK(df), NEW t \in df.large
  PROVE  /\ Line(df, t).title = t
         /\ Composite(df, t) = {} \/ \E a \in Int : Composite(df, t) = {a} /\ Only(Composite(df, t)) = a
<1>1. \A f \in Factor : t \in Ranked(df, f) => Percentile(df, t, f) \in Int
  BY SharesCompare
<1>2. \A f \in Factor : NotWorse(df, t, df, t, f)
  BY <1>1 DEF NotWorse
<1>3. UpOrSame(Line(df, t).composite, Line(df, t).composite, \E f \in Factor : IsBetter(df, t, df, t, f) /\ Counts(f))
  BY <1>2, LinesCompare
<1>4. Line(df, t).title = t
  BY DEF Line
<1> QED BY <1>3, <1>4, OneOfOne DEF UpOrSame, Composite

\* Who is ahead of whom, in terms of the composites.
LEMMA AheadIs ==
  ASSUME NEW df, TableOK(df), NEW t \in df.large, NEW u \in df.large
  PROVE  Ahead(Line(df, t), Line(df, u)) <=>
           \/ Composite(df, u) = {} /\ Composite(df, t) # {}
           \/ Composite(df, t) # {} /\ Composite(df, u) # {} /\ Only(Composite(df, t)) > Only(Composite(df, u))
           \/ Composite(df, t) = Composite(df, u) /\ t < u
BY CompositeIs DEF Ahead, Higher, Composite

\* It is an order in which no two are at one place.
LEMMA AheadOrders ==
  ASSUME NEW df, TableOK(df), NEW t \in df.large, NEW u \in df.large
  PROVE  /\ ~Ahead(Line(df, t), Line(df, t))
         /\ t # u => Ahead(Line(df, t), Line(df, u)) \/ Ahead(Line(df, u), Line(df, t))
         /\ \A w \in df.large :
              Ahead(Line(df, w), Line(df, t)) /\ Ahead(Line(df, t), Line(df, u)) => Ahead(Line(df, w), Line(df, u))
<1>1. \A x \in df.large : x \in Int
  BY RulesAssumption DEF TableOK, Stock
<1>2. PICK c, v : \A x \in df.large : c[x] = Composite(df, x) /\ v[x] = Only(Composite(df, x))
  <2>1. PICK c : c = [x \in df.large |-> Composite(df, x)]
    OBVIOUS
  <2>2. PICK v : v = [x \in df.large |-> Only(Composite(df, x))]
    OBVIOUS
  <2> QED BY <2>1, <2>2
<1>3. \A x \in df.large : c[x] = {} \/ (c[x] = {v[x]} /\ v[x] \in Int)
  <2> SUFFICES ASSUME NEW x \in df.large PROVE c[x] = {} \/ (c[x] = {v[x]} /\ v[x] \in Int)
    OBVIOUS
  <2>1. Composite(df, x) = {} \/ \E a \in Int : Composite(df, x) = {a} /\ Only(Composite(df, x)) = a
    BY CompositeIs
  <2> QED BY <1>2, <2>1
<1>4. \A x, y \in df.large : Ahead(Line(df, x), Line(df, y)) <=>
           \/ c[y] = {} /\ c[x] # {}
           \/ c[x] # {} /\ c[y] # {} /\ v[x] > v[y]
           \/ c[x] = c[y] /\ x < y
  BY <1>2, AheadIs
<1>5. \A x, y \in df.large : c[x] # {} /\ c[x] = c[y] => v[x] = v[y]
  BY <1>3
<1>6. \A x, y \in df.large : c[x] # {} /\ c[y] # {} /\ v[x] = v[y] => c[x] = c[y]
  BY <1>3
<1>7. \A x \in df.large : c[x] # {} => v[x] \in Int
  BY <1>3
<1>8. ~Ahead(Line(df, t), Line(df, t))
  <2>1. ~(t < t) /\ (c[t] # {} => ~(v[t] > v[t]))
    BY <1>1, <1>7
  <2> QED BY <1>4, <2>1
<1>9. ASSUME t # u PROVE Ahead(Line(df, t), Line(df, u)) \/ Ahead(Line(df, u), Line(df, t))
  <2>1. t < u \/ u < t
    BY <1>1, <1>9
  <2>2. CASE c[t] = {} \/ c[u] = {}
    BY <1>4, <2>1, <2>2
  <2>3. CASE c[t] # {} /\ c[u] # {}
    <3>1. v[t] > v[u] \/ v[u] > v[t] \/ v[t] = v[u]
      BY <1>7, <2>3
    <3> QED BY <1>4, <1>6, <2>1, <2>3, <3>1
  <2> QED BY <2>2, <2>3
<1>10. ASSUME NEW w \in df.large, Ahead(Line(df, w), Line(df, t)), Ahead(Line(df, t), Line(df, u))
       PROVE  Ahead(Line(df, w), Line(df, u))
  <2>1. \/ c[t] = {} /\ c[w] # {}
        \/ c[w] # {} /\ c[t] # {} /\ v[w] > v[t]
        \/ c[w] = c[t] /\ w < t
    BY <1>4, <1>10
  <2>2. \/ c[u] = {} /\ c[t] # {}
        \/ c[t] # {} /\ c[u] # {} /\ v[t] > v[u]
        \/ c[t] = c[u] /\ t < u
    BY <1>4, <1>10
  <2>3. CASE c[u] = {} /\ c[w] # {}
    BY <1>4, <2>3
  <2>4. CASE c[u] = {} /\ c[w] = {}
    <3>1. c[t] = {} /\ w < t /\ t < u
      BY <2>1, <2>2, <2>4
    <3>2. w < u
      BY <1>1, <3>1
    <3> QED BY <1>4, <2>4, <3>2
  <2>5. CASE c[u] # {}
    <3>1. c[t] # {} /\ c[w] # {}
      BY <2>1, <2>2, <2>5
    <3>2. v[w] \in Int /\ v[t] \in Int /\ v[u] \in Int
      BY <1>7, <2>5, <3>1
    <3>3. (v[w] > v[t] \/ (v[w] = v[t] /\ c[w] = c[t] /\ w < t))
            /\ (v[t] > v[u] \/ (v[t] = v[u] /\ c[t] = c[u] /\ t < u))
      BY <1>5, <2>1, <2>2, <2>5, <3>1
    <3>4. v[w] > v[u] \/ (c[w] = c[u] /\ w < t /\ t < u)
      BY <3>2, <3>3
    <3>5. w < t /\ t < u => w < u
      BY <1>1
    <3> QED BY <1>4, <2>5, <3>1, <3>4, <3>5
  <2> QED BY <2>3, <2>4, <2>5
<1> QED BY <1>8, <1>9, <1>10

\* The titles ahead of one, and so its place.
AheadOf(df, t) == {u \in df.large : Ahead(Line(df, u), Line(df, t))}
PlaceIn(df, t) == Cardinality(AheadOf(df, t)) + 1

\* The places are the numbers up to that of the titles, one for each.
LEMMA PlacesOfRanks ==
  ASSUME NEW df, TableOK(df)
  PROVE  /\ IsFiniteSet(df.large) /\ Cardinality(df.large) \in Nat
         /\ \A t \in df.large : Cardinality(AheadOf(df, t)) \in Nat /\ PlaceIn(df, t) \in 1..Cardinality(df.large)
         /\ \A t, u \in df.large : Ahead(Line(df, t), Line(df, u)) => PlaceIn(df, t) < PlaceIn(df, u)
         /\ \A t, u \in df.large : PlaceIn(df, t) = PlaceIn(df, u) => t = u
         /\ \A i \in 1..Cardinality(df.large) : \E t \in df.large : PlaceIn(df, t) = i
<1>1. PICK L, n : L = df.large /\ n = Cardinality(L)
  OBVIOUS
<1>2. IsFiniteSet(L) /\ n \in Nat
  <2>1. L \in SUBSET Stock
    BY <1>1 DEF TableOK
  <2>2. 1 \in Int /\ NumStocks \in Int
    BY RulesAssumption
  <2>3. IsFiniteSet(Stock)
    BY <2>2, FS_Interval DEF Stock
  <2> QED BY <1>1, <2>1, <2>3, FS_Subset, FS_CardinalityType
<1>3. ASSUME NEW t \in L PROVE Cardinality(AheadOf(df, t)) \in Nat /\ Cardinality(AheadOf(df, t)) < n
        /\ IsFiniteSet(AheadOf(df, t))
  <2>1. AheadOf(df, t) \in SUBSET L /\ t \notin AheadOf(df, t)
    BY <1>1, <1>3, AheadOrders DEF AheadOf
  <2>2. IsFiniteSet(AheadOf(df, t)) /\ Cardinality(AheadOf(df, t)) <= n /\ Cardinality(AheadOf(df, t)) # n
    BY <1>1, <1>2, <1>3, <2>1, FS_Subset
  <2>3. Cardinality(AheadOf(df, t)) \in Nat
    BY <2>2, FS_CardinalityType
  <2> QED BY <1>2, <2>2, <2>3
<1>4. ASSUME NEW t \in L, NEW u \in L, Ahead(Line(df, t), Line(df, u)) PROVE PlaceIn(df, t) < PlaceIn(df, u)
  <2>1. AheadOf(df, t) \in SUBSET AheadOf(df, u) /\ t \in AheadOf(df, u) /\ t \notin AheadOf(df, t)
    BY <1>1, <1>4, AheadOrders DEF AheadOf
  <2>2. Cardinality(AheadOf(df, t)) <= Cardinality(AheadOf(df, u))
          /\ Cardinality(AheadOf(df, t)) # Cardinality(AheadOf(df, u))
    BY <1>3, <2>1, FS_Subset
  <2>3. Cardinality(AheadOf(df, t)) \in Nat /\ Cardinality(AheadOf(df, u)) \in Nat
    BY <1>3
  <2> QED BY <2>2, <2>3 DEF PlaceIn
<1>5. \A t \in L : PlaceIn(df, t) \in 1..n
  <2> SUFFICES ASSUME NEW t \in L PROVE PlaceIn(df, t) \in 1..n
    OBVIOUS
  <2>1. Cardinality(AheadOf(df, t)) \in Nat /\ Cardinality(AheadOf(df, t)) < n
    BY <1>3
  <2> QED BY <1>2, <2>1 DEF PlaceIn
<1>6. ASSUME NEW t \in L, NEW u \in L, t # u PROVE PlaceIn(df, t) # PlaceIn(df, u)
  <2>1. PlaceIn(df, t) < PlaceIn(df, u) \/ PlaceIn(df, u) < PlaceIn(df, t)
    BY <1>1, <1>4, <1>6, AheadOrders
  <2>2. PlaceIn(df, t) \in Nat /\ PlaceIn(df, u) \in Nat
    BY <1>2, <1>5
  <2> QED BY <2>1, <2>2
<1>7. PICK p : p = [t \in L |-> PlaceIn(df, t)]
  OBVIOUS
<1>8. p \in [L -> 1..n] /\ \A t, u \in L : p[t] = p[u] => t = u
  BY <1>5, <1>6, <1>7
<1>9. p \in Injection(L, 1..n)
  BY <1>8 DEF Injection, IsInjective
<1>10. IsFiniteSet(1..n) /\ Cardinality(1..n) = n
  <2>1. 1 \in Int /\ n \in Int
    BY <1>2
  <2>2. IsFiniteSet(1..n) /\ Cardinality(1..n) = IF 1 > n THEN 0 ELSE n - 1 + 1
    BY <2>1, FS_Interval
  <2> QED BY <1>2, <2>2
<1>11. p \in Surjection(L, 1..n)
  BY <1>1, <1>9, <1>10, FS_Injection
<1>12. \A i \in 1..n : \E t \in L : p[t] = i
  BY <1>11 DEF Surjection
<1> QED BY <1>1, <1>2, <1>3, <1>4, <1>5, <1>6, <1>7, <1>12

\* The ranking has each title at its place.
LEMMA ScoreIs ==
  ASSUME NEW df, TableOK(df)
  PROVE  /\ DOMAIN Score(df) = 1..Cardinality(df.large)
         /\ \A t \in df.large : Score(df)[PlaceIn(df, t)] = Line(df, t) /\ PlaceOf(Score(df), t) = PlaceIn(df, t)
<1>1. PICK r, n, line : r = Score(df) /\ n = Cardinality(df.large) /\ line = [t \in df.large |-> Line(df, t)]
  OBVIOUS
<1>2. /\ DOMAIN r = 1..n
      /\ \A i \in 1..n : r[i] = line[CHOOSE t \in df.large : Cardinality(AheadOf(df, t)) = i - 1]
  <2>1. r = [i \in 1..n |-> line[CHOOSE t \in df.large : Cardinality({u \in df.large : Ahead(line[u], line[t])}) = i - 1]]
    BY <1>1 DEF Score
  <2>2. \A t \in df.large : {u \in df.large : Ahead(line[u], line[t])} = AheadOf(df, t)
    BY <1>1 DEF AheadOf
  <2>3. \A i \in 1..n : (CHOOSE t \in df.large : Cardinality({u \in df.large : Ahead(line[u], line[t])}) = i - 1) =
                        (CHOOSE t \in df.large : Cardinality(AheadOf(df, t)) = i - 1)
    BY <2>2
  <2>4. \A i \in 1..n : r[i] = line[CHOOSE t \in df.large : Cardinality({u \in df.large : Ahead(line[u], line[t])}) = i - 1]
    BY <2>1
  <2>5. DOMAIN r = 1..n
    BY <2>1
  <2>6. SUFFICES ASSUME NEW i \in 1..n
                 PROVE  r[i] = line[CHOOSE t \in df.large : Cardinality(AheadOf(df, t)) = i - 1]
    BY <2>5
  <2>7. r[i] = line[CHOOSE t \in df.large : Cardinality({u \in df.large : Ahead(line[u], line[t])}) = i - 1]
    BY <2>4
  <2>8. (CHOOSE t \in df.large : Cardinality({u \in df.large : Ahead(line[u], line[t])}) = i - 1) =
        (CHOOSE t \in df.large : Cardinality(AheadOf(df, t)) = i - 1)
    BY <2>3
  <2> QED BY <2>7, <2>8, Zenon
<1>3. \A i \in 1..n : \E t \in df.large :
        t = (CHOOSE u \in df.large : Cardinality(AheadOf(df, u)) = i - 1) /\ PlaceIn(df, t) = i
  <2> SUFFICES ASSUME NEW i \in 1..n
               PROVE  \E t \in df.large :
                   t = (CHOOSE u \in df.large : Cardinality(AheadOf(df, u)) = i - 1) /\ PlaceIn(df, t) = i
    OBVIOUS
  <2>1. PICK u \in df.large : PlaceIn(df, u) = i
    BY <1>1, PlacesOfRanks
  <2>2. \A t \in df.large : Cardinality(AheadOf(df, t)) \in Nat
    BY PlacesOfRanks
  <2>3. \A t \in df.large : Cardinality(AheadOf(df, t)) = i - 1 <=> PlaceIn(df, t) = i
    <3> SUFFICES ASSUME NEW t \in df.large PROVE Cardinality(AheadOf(df, t)) = i - 1 <=> PlaceIn(df, t) = i
      OBVIOUS
    <3>1. Cardinality(AheadOf(df, t)) \in Nat
      BY <2>2
    <3> QED BY <3>1 DEF PlaceIn
  <2>4. PICK w : w = CHOOSE t \in df.large : Cardinality(AheadOf(df, t)) = i - 1
    OBVIOUS
  <2>5. w \in df.large /\ Cardinality(AheadOf(df, w)) = i - 1
    BY <2>1, <2>3, <2>4
  <2> QED BY <2>3, <2>4, <2>5
<1>4. \A i \in 1..n : \E t \in df.large : r[i] = Line(df, t) /\ PlaceIn(df, t) = i
  BY <1>1, <1>2, <1>3
<1>5. DOMAIN r = 1..n
  BY <1>2
<1>6. ASSUME NEW t \in df.large PROVE r[PlaceIn(df, t)] = Line(df, t) /\ PlaceOf(r, t) = PlaceIn(df, t)
  <2>1. PlaceIn(df, t) \in 1..n
    BY <1>1, PlacesOfRanks
  <2>2. r[PlaceIn(df, t)] = Line(df, t)
    BY <1>4, <2>1, PlacesOfRanks
  <2>3. \A u \in df.large : Line(df, u).title = u
    BY CompositeIs
  <2>4. \A i \in 1..n : r[i].title = t <=> i = PlaceIn(df, t)
    BY <1>4, <2>1, <2>2, <2>3
  <2>5. PlaceOf(r, t) = PlaceIn(df, t)
    BY <1>5, <2>1, <2>4 DEF PlaceOf
  <2> QED BY <2>2, <2>5
<1> QED BY <1>1, <1>5, <1>6

------------------------------------------------------------------------------
(* Of two titles in one table.                                               *)

\* A better figure is a higher percentile.
LEMMA FiguresOrder ==
  ASSUME NEW df, TableOK(df), NEW f \in Factor, NEW t \in Ranked(df, f), NEW u \in Ranked(df, f),
         IF f \in Low THEN df.figure[t][f] <= df.figure[u][f] ELSE df.figure[t][f] >= df.figure[u][f]
  PROVE  /\ Percentile(df, u, f) \in Int /\ Percentile(df, t, f) \in Int
         /\ Percentile(df, u, f) <= Percentile(df, t, f)
         /\ df.figure[t][f] # df.figure[u][f] => Percentile(df, u, f) < Percentile(df, t, f)
<1>1. \A x \in Ranked(df, f) : df.figure[x][f] \in Int
  BY RankedAre
<1>2. CASE f \in Low
  <2>1. Below(df, t, f) \subseteq Below(df, u, f) /\ NotAbove(df, t, f) \subseteq NotAbove(df, u, f)
    BY <1>1, <1>2 DEF Below, NotAbove
  <2>2. df.figure[t][f] # df.figure[u][f] => t \in Below(df, u, f) /\ t \notin Below(df, t, f)
    BY <1>1, <1>2 DEF Below
  <2>3. /\ Percentile(df, t, f) \in Int /\ Percentile(df, u, f) \in Int
        /\ Percentile(df, u, f) <= Percentile(df, t, f)
        /\ Below(df, t, f) # Below(df, u, f) => Percentile(df, t, f) # Percentile(df, u, f)
    BY <1>2, <2>1, SharesCompare
  <2>4. df.figure[t][f] # df.figure[u][f] => Percentile(df, t, f) # Percentile(df, u, f)
    BY <2>2, <2>3
  <2> QED BY <2>3, <2>4
<1>3. CASE f \notin Low
  <2>1. Below(df, u, f) \subseteq Below(df, t, f) /\ NotAbove(df, u, f) \subseteq NotAbove(df, t, f)
    BY <1>1, <1>3 DEF Below, NotAbove
  <2>2. df.figure[t][f] # df.figure[u][f] => u \in Below(df, t, f) /\ u \notin Below(df, u, f)
    BY <1>1, <1>3 DEF Below
  <2>3. /\ Percentile(df, t, f) \in Int /\ Percentile(df, u, f) \in Int
        /\ Percentile(df, u, f) <= Percentile(df, t, f)
        /\ Below(df, u, f) # Below(df, t, f) => Percentile(df, u, f) # Percentile(df, t, f)
    BY <1>3, <2>1, SharesCompare
  <2>4. df.figure[t][f] # df.figure[u][f] => Percentile(df, t, f) # Percentile(df, u, f)
    BY <2>2, <2>3
  <2> QED BY <2>3, <2>4
<1> QED BY <1>2, <1>3

\* Of two titles with the same figures there, the one nowhere worse has no lower composite,
\* and a higher one if it is better where it counts.
LEMMA BetterIsHigher ==
  ASSUME NEW df, TableOK(df), NEW t \in df.large, NEW u \in df.large,
         \A f \in Factor : t \in Ranked(df, f) <=> u \in Ranked(df, f),
         \A f \in Factor : t \in Ranked(df, f) =>
           IF f \in Low THEN df.figure[t][f] <= df.figure[u][f] ELSE df.figure[t][f] >= df.figure[u][f],
         NEW g \in Factor, t \in Ranked(df, g), df.figure[t][g] # df.figure[u][g], Counts(g),
         Composite(df, t) # {}
  PROVE  Ahead(Line(df, t), Line(df, u))
<1>1. \A f \in Factor : NotWorse(df, u, df, t, f)
  <2> SUFFICES ASSUME NEW f \in Factor PROVE NotWorse(df, u, df, t, f)
    OBVIOUS
  <2>1. t \in Ranked(df, f) => Percentile(df, u, f) <= Percentile(df, t, f)
    BY FiguresOrder
  <2> QED BY <2>1 DEF NotWorse
<1>2. IsBetter(df, u, df, t, g)
  BY FiguresOrder DEF IsBetter
<1>3. UpOrSame(Line(df, u).composite, Line(df, t).composite, \E f \in Factor : IsBetter(df, u, df, t, f) /\ Counts(f))
  BY <1>1, LinesCompare
<1>4. \E f \in Factor : IsBetter(df, u, df, t, f) /\ Counts(f)
  BY <1>2
<1>5. PICK a, b \in Int : Composite(df, u) = {a} /\ Composite(df, t) = {b} /\ a < b
  BY <1>3, <1>4 DEF UpOrSame, Composite
<1>6. Only(Composite(df, u)) = a /\ Only(Composite(df, t)) = b
  BY <1>5, OneOfOne
<1>7. Only(Composite(df, t)) > Only(Composite(df, u))
  BY <1>5, <1>6
<1> QED BY <1>5, <1>7, AheadIs

------------------------------------------------------------------------------
(* From one table to the next.                                               *)

\* The ranking depends on the figures of the titles that are large enough, on nothing else.
LEMMA ScoreReads ==
  ASSUME NEW d, NEW e, d.large = e.large,
         \A t \in d.large, f \in Factor : d.figure[t][f] = e.figure[t][f]
  PROVE  Score(d) = Score(e)
<1>1. PICK L : L = d.large
  OBVIOUS
<1>2. \A f \in Factor : Ranked(d, f) = Ranked(e, f) /\ Ranked(d, f) \subseteq L
  BY <1>1 DEF Ranked
<1>3. ASSUME NEW t \in L, NEW f \in Factor PROVE Percentile(d, t, f) = Percentile(e, t, f)
  <2>1. PICK R : R = Ranked(d, f)
    OBVIOUS
  <2>2. /\ {u \in R : d.figure[u][f] < d.figure[t][f]} = {u \in R : e.figure[u][f] < e.figure[t][f]}
        /\ {u \in R : d.figure[u][f] = d.figure[t][f]} = {u \in R : e.figure[u][f] = e.figure[t][f]}
    BY <1>1, <1>2, <1>3, <2>1
  <2>3. PICK less, equal : /\ less = {u \in R : d.figure[u][f] < d.figure[t][f]}
                           /\ equal = {u \in R : d.figure[u][f] = d.figure[t][f]}
    OBVIOUS
  <2>4. PICK share : share = (2 * Cardinality(less) + Cardinality(equal) + 1) * (Whole \div (2 * Cardinality(R)))
    OBVIOUS
  <2>5. Percentile(d, t, f) = IF f \in Low THEN Whole - share ELSE share
    BY <2>1, <2>3, <2>4 DEF Percentile
  <2>6. R = Ranked(e, f) /\ less = {u \in R : e.figure[u][f] < e.figure[t][f]}
          /\ equal = {u \in R : e.figure[u][f] = e.figure[t][f]}
    BY <1>2, <1>3, <2>1, <2>2, <2>3
  <2>7. Percentile(e, t, f) = IF f \in Low THEN Whole - share ELSE share
    BY <2>4, <2>6 DEF Percentile
  <2> QED BY <2>5, <2>7
<1>4. ASSUME NEW t \in L, NEW group \in Group PROVE MeanOf(d, t, group) = MeanOf(e, t, group)
  <2>1. group \subseteq Factor
    BY <1>4, GroupsAre
  <2>2. PICK there : there = {f \in group : t \in Ranked(d, f)}
    OBVIOUS
  <2>3. there = {f \in group : t \in Ranked(e, f)}
    BY <1>2, <2>1, <2>2
  <2>4. [f \in there |-> Percentile(d, t, f)] = [f \in there |-> Percentile(e, t, f)]
    BY <1>3, <1>4, <2>1, <2>2
  <2>5. PICK shares : shares = [f \in there |-> Percentile(d, t, f)]
    OBVIOUS
  <2>6. MeanOf(d, t, group) = IF Cardinality(there) < Required(group) THEN {}
          ELSE {SumAt(shares, there) \div Cardinality(there)}
    BY <2>2, <2>5 DEF MeanOf, Required
  <2>7. shares = [f \in there |-> Percentile(e, t, f)]
    BY <2>4, <2>5
  <2>8. MeanOf(e, t, group) = IF Cardinality(there) < Required(group) THEN {}
          ELSE {SumAt(shares, there) \div Cardinality(there)}
    BY <2>3, <2>7 DEF MeanOf, Required
  <2> QED BY <2>6, <2>8
<1>5. ASSUME NEW t \in L PROVE Line(d, t) = Line(e, t)
  <2>1. PICK v, q : v = MeanOf(d, t, ValueFactor) /\ q = MeanOf(d, t, QualityFactor)
    OBVIOUS
  <2>2. v = MeanOf(e, t, ValueFactor) /\ q = MeanOf(e, t, QualityFactor)
    BY <1>4, <1>5, <2>1 DEF Group
  <2> QED BY <2>1, <2>2 DEF Line
<1>6. [t \in L |-> Line(d, t)] = [t \in L |-> Line(e, t)]
  BY <1>5
<1>7. PICK ln : ln = [t \in L |-> Line(d, t)]
  OBVIOUS
<1>8. Score(d) = [i \in 1..Cardinality(L) |-> ln[CHOOSE t \in L : Cardinality({u \in L : Ahead(ln[u], ln[t])}) = i - 1]]
  BY <1>1, <1>7 DEF Score
<1>9. e.large = L /\ ln = [t \in L |-> Line(e, t)]
  BY <1>1, <1>6, <1>7
<1>10. Score(e) = [i \in 1..Cardinality(L) |-> ln[CHOOSE t \in L : Cardinality({u \in L : Ahead(ln[u], ln[t])}) = i - 1]]
  BY <1>9 DEF Score
<1> QED BY <1>8, <1>10

\* Two tables that differ in one figure of one title: it got better, and it is ranked in both.
GotBetter(d, e, t, f) ==
  /\ e.large = d.large /\ t \in d.large /\ f \in Factor
  /\ \A u \in d.large, g \in Factor : u # t \/ g # f => e.figure[u][g] = d.figure[u][g]
  /\ Improved(t, f, d.figure, e.figure)

\* The same titles are ranked; of the one the percentiles are not lower, of the others not higher.
LEMMA PercentilesMove ==
  ASSUME NEW d, NEW e, TableOK(d), TableOK(e), NEW t, NEW f, GotBetter(d, e, t, f)
  PROVE  /\ \A g \in Factor : NotWorse(d, t, e, t, g)
         /\ \A u \in d.large, g \in Factor : u # t => NotWorse(e, u, d, u, g)
<1>1. t \in d.large /\ e.large = d.large /\ f \in Factor
  BY DEF GotBetter
<1>2. \A u \in d.large, g \in Factor : u # t \/ g # f => e.figure[u][g] = d.figure[u][g]
  BY DEF GotBetter
<1>3. /\ \A x \in {d.figure[t][f], e.figure[t][f]} : x # Missing /\ (f \in Low \cap ValueFactor => x > 0)
      /\ IF f \in Low THEN e.figure[t][f] < d.figure[t][f] ELSE e.figure[t][f] > d.figure[t][f]
  BY DEF GotBetter, Improved
<1>4. t \in Ranked(d, f) /\ t \in Ranked(e, f)
  BY <1>1, <1>3 DEF Ranked
<1>5. ASSUME NEW g \in Factor PROVE Ranked(d, g) = Ranked(e, g)
  <2>1. \A u \in d.large : (g # f \/ u # t) => (u \in Ranked(d, g) <=> u \in Ranked(e, g))
    BY <1>1, <1>2 DEF Ranked
  <2>2. Ranked(d, g) \subseteq d.large /\ Ranked(e, g) \subseteq d.large
    BY <1>1 DEF Ranked
  <2> QED BY <1>4, <2>1, <2>2
<1>6. \A g \in Factor : \A u \in Ranked(d, g) : d.figure[u][g] \in Int /\ e.figure[u][g] \in Int /\ u \in d.large
  BY <1>5, RankedAre
<1>7. ASSUME NEW g \in Factor, g # f, NEW u \in Ranked(d, g)
      PROVE  Percentile(d, u, g) = Percentile(e, u, g) /\ Percentile(d, u, g) \in Int
  <2>1. Below(d, u, g) = Below(e, u, g) /\ NotAbove(d, u, g) = NotAbove(e, u, g)
    BY <1>2, <1>5, <1>6, <1>7 DEF Below, NotAbove
  <2>2. Ranked(d, g) = Ranked(e, g)
    BY <1>5
  <2>3. /\ Percentile(d, u, g) \in Int /\ Percentile(e, u, g) \in Int
        /\ g \notin Low => Percentile(d, u, g) <= Percentile(e, u, g)
        /\ g \in Low => Percentile(e, u, g) <= Percentile(d, u, g)
    BY <1>7, <2>1, <2>2, SharesCompare
  <2>4. /\ g \notin Low => Percentile(e, u, g) <= Percentile(d, u, g)
        /\ g \in Low => Percentile(d, u, g) <= Percentile(e, u, g)
    BY <1>7, <2>1, <2>2, SharesCompare
  <2> QED BY <2>3, <2>4
<1>8. Percentile(d, t, f) <= Percentile(e, t, f)
  <2>1. CASE f \in Low
    <3>1. Below(e, t, f) \subseteq Below(d, t, f) /\ NotAbove(e, t, f) \subseteq NotAbove(d, t, f)
      BY <1>1, <1>2, <1>3, <1>4, <1>5, <1>6, <2>1 DEF Below, NotAbove
    <3> QED BY <1>1, <1>4, <1>5, <2>1, <3>1, SharesCompare
  <2>2. CASE f \notin Low
    <3>1. Below(d, t, f) \subseteq Below(e, t, f) /\ NotAbove(d, t, f) \subseteq NotAbove(e, t, f)
      BY <1>1, <1>2, <1>3, <1>4, <1>5, <1>6, <2>2 DEF Below, NotAbove
    <3> QED BY <1>1, <1>4, <1>5, <2>2, <3>1, SharesCompare
  <2> QED BY <2>1, <2>2
<1>9. ASSUME NEW u \in Ranked(d, f), u # t PROVE Percentile(e, u, f) <= Percentile(d, u, f)
  <2>0. d.figure[u][f] = e.figure[u][f]
    BY <1>1, <1>2, <1>6, <1>9
  <2>1. CASE f \in Low
    <3>1. Below(d, u, f) \subseteq Below(e, u, f) /\ NotAbove(d, u, f) \subseteq NotAbove(e, u, f)
      BY <1>1, <1>2, <1>3, <1>4, <1>5, <1>6, <1>9, <2>0, <2>1 DEF Below, NotAbove
    <3> QED BY <1>1, <1>5, <1>9, <2>1, <3>1, SharesCompare
  <2>2. CASE f \notin Low
    <3>1. Below(e, u, f) \subseteq Below(d, u, f) /\ NotAbove(e, u, f) \subseteq NotAbove(d, u, f)
      BY <1>1, <1>2, <1>3, <1>4, <1>5, <1>6, <1>9, <2>0, <2>2 DEF Below, NotAbove
    <3> QED BY <1>1, <1>5, <1>9, <2>2, <3>1, SharesCompare
  <2> QED BY <2>1, <2>2
<1>10. ASSUME NEW g \in Factor PROVE NotWorse(d, t, e, t, g)
  <2>1. t \in Ranked(d, g) => Percentile(d, t, g) <= Percentile(e, t, g)
    BY <1>7, <1>8
  <2> QED BY <1>5, <2>1 DEF NotWorse
<1>11. ASSUME NEW u \in d.large, NEW g \in Factor, u # t PROVE NotWorse(e, u, d, u, g)
  <2>1. u \in Ranked(d, g) => Percentile(e, u, g) <= Percentile(d, u, g)
    BY <1>7, <1>9, <1>11
  <2> QED BY <1>5, <2>1 DEF NotWorse
<1> QED BY <1>10, <1>11

\* So nobody passes it.
LEMMA PlaceMoves ==
  ASSUME NEW d, NEW e, TableOK(d), TableOK(e), NEW t, NEW f, GotBetter(d, e, t, f)
  PROVE  PlaceIn(e, t) <= PlaceIn(d, t)
<1>1. t \in d.large /\ e.large = d.large
  BY DEF GotBetter
<1>2. UpOrSame(Composite(d, t), Composite(e, t), \E g \in Factor : IsBetter(d, t, e, t, g) /\ Counts(g))
  BY <1>1, PercentilesMove, LinesCompare DEF Composite
<1>3. ASSUME NEW u \in AheadOf(e, t) PROVE u \in AheadOf(d, t)
  <2>1. u \in d.large /\ u # t /\ Ahead(Line(e, u), Line(e, t))
    BY <1>1, AheadOrders DEF AheadOf
  <2>2. UpOrSame(Composite(e, u), Composite(d, u), \E g \in Factor : IsBetter(e, u, d, u, g) /\ Counts(g))
    <3>1. \A g \in Factor : NotWorse(e, u, d, u, g)
      BY <2>1, PercentilesMove
    <3>2. u \in e.large
      BY <1>1, <2>1
    <3> QED BY <2>1, <3>1, <3>2, LinesCompare DEF Composite
  <2>3. \/ Composite(e, t) = {} /\ Composite(e, u) # {}
        \/ Composite(e, u) # {} /\ Composite(e, t) # {} /\ Only(Composite(e, u)) > Only(Composite(e, t))
        \/ Composite(e, u) = Composite(e, t) /\ u < t
    BY <1>1, <2>1, AheadIs
  <2>4. CASE Composite(e, t) = {}
    <3>1. Composite(d, t) = {} /\ (Composite(d, u) = {} <=> Composite(e, u) = {})
      BY <1>2, <2>2, <2>4 DEF UpOrSame
    <3>2. Ahead(Line(d, u), Line(d, t))
      BY <1>1, <2>1, <2>3, <2>4, <3>1, AheadIs
    <3> QED BY <2>1, <3>2 DEF AheadOf
  <2>5. CASE Composite(e, t) # {}
    <3>1. PICK a, b \in Int : Composite(d, t) = {a} /\ Composite(e, t) = {b} /\ a <= b
      BY <1>2, <2>5 DEF UpOrSame
    <3>2. Composite(e, u) # {}
      BY <2>3, <2>5
    <3>3. PICK x, y \in Int : Composite(e, u) = {x} /\ Composite(d, u) = {y} /\ x <= y
      BY <2>2, <3>2 DEF UpOrSame
    <3>4. Only(Composite(d, t)) = a /\ Only(Composite(e, t)) = b /\ Only(Composite(e, u)) = x
            /\ Only(Composite(d, u)) = y
      BY <3>1, <3>3, OneOfOne
    <3>5. x > b \/ (x = b /\ u < t)
      BY <2>3, <3>1, <3>3, <3>4
    <3>6. y > a \/ (y = a /\ u < t)
      BY <3>1, <3>3, <3>5
    <3>7. Ahead(Line(d, u), Line(d, t))
      BY <1>1, <2>1, <3>1, <3>3, <3>4, <3>6, AheadIs
    <3> QED BY <2>1, <3>7 DEF AheadOf
  <2> QED BY <2>4, <2>5
<1>4. PICK x, y : x = AheadOf(e, t) /\ y = AheadOf(d, t)
  OBVIOUS
<1>5. x \in SUBSET y /\ IsFiniteSet(y)
  <2>1. IsFiniteSet(d.large)
    BY PlacesOfRanks
  <2>2. y \in SUBSET d.large
    BY <1>4 DEF AheadOf
  <2> QED BY <1>3, <1>4, <2>1, <2>2, FS_Subset
<1>6. Cardinality(x) <= Cardinality(y)
  BY <1>5, FS_Subset
<1>7. Cardinality(x) \in Nat /\ Cardinality(y) \in Nat
  BY <1>1, <1>4, PlacesOfRanks
<1> QED BY <1>4, <1>6, <1>7 DEF PlaceIn

------------------------------------------------------------------------------
(* The ranking of a run, and of the next.                                    *)

\* The ranking is the score of the table as it is: every run scores it anew.
RulesInv ==
  /\ figure \in [Stock -> Lines]
  /\ large \in SUBSET Stock
  /\ order \in Orders
  /\ ranking = Score(Table)

\* The table that is scored is one of numbers or missing ones.
LEMMA TableIsOK ==
  ASSUME RulesInv
  PROVE  /\ TableOK(Table) /\ Table.figure = figure /\ Table.large = large
         /\ \A t \in Stock : figure[t] \in Lines
<1>1. Table.figure = figure /\ Table.large = large
  BY DEF Table
<1>2. \A t \in Stock : figure[t] \in Lines
  BY DEF RulesInv
<1>3. \A t \in Stock, f \in Factor : figure[t][f] \in Int \cup {Missing}
  BY <1>2, RulesAssumption
<1> QED BY <1>1, <1>2, <1>3 DEF TableOK, RulesInv

\* The steps keep the invariant.
LEMMA RulesInvIsInductive == (RulesInit => RulesInv) /\ (RulesInv /\ [RulesNext]_rulesVars => RulesInv')
<1>1. RulesInit => RulesInv
  BY DEF RulesInit, RulesInv
<1>2. ASSUME RulesInv, RulesNext PROVE RulesInv'
  <2>1. ASSUME NEW t \in Stock, NewSize(t) PROVE RulesInv'
    <3>1. large' \in SUBSET Stock /\ figure' = figure /\ order' = order
      BY <1>2, <2>1 DEF NewSize, RulesInv
    <3>2. ranking' = Score(Table')
      BY <2>1 DEF NewSize
    <3> QED BY <1>2, <3>1, <3>2 DEF RulesInv
  <2>2. ASSUME NEW t \in Stock, NEW f \in Factor, NewFigure(t, f) PROVE RulesInv'
    <3>1. figure' \in [Stock -> Lines] /\ large' = large /\ order' = order
      BY <1>2, <2>2 DEF NewFigure, RulesInv
    <3>2. ranking' = Score(Table')
      BY <2>2 DEF NewFigure
    <3> QED BY <1>2, <3>1, <3>2 DEF RulesInv
  <2>3. ASSUME ScoreAgain PROVE RulesInv'
    <3>1. order' \in Orders /\ figure' = figure /\ large' = large
      BY <2>3 DEF ScoreAgain
    <3>2. ranking' = Score(Table')
      BY <2>3 DEF ScoreAgain
    <3> QED BY <1>2, <3>1, <3>2 DEF RulesInv
  <2> QED BY <1>2, <2>1, <2>2, <2>3 DEF RulesNext
<1>3. ASSUME RulesInv, UNCHANGED rulesVars PROVE RulesInv'
  BY <1>3 DEF RulesInv, rulesVars, Table
<1> QED BY <1>1, <1>2, <1>3

\* Of two titles with the same figures the better one is ahead.
LEMMA BetterIsAheadHolds == RulesInv => BetterIsAhead
<1> SUFFICES ASSUME RulesInv PROVE BetterIsAhead
  OBVIOUS
<1>1. PICK df : df = Table
  OBVIOUS
<1>2. TableOK(df) /\ df.figure = figure /\ df.large = large /\ ranking = Score(df)
  BY <1>1, TableIsOK DEF RulesInv
<1> SUFFICES ASSUME NEW t \in large, NEW u \in large,
                    {f \in Factor : t \in Ranked(df, f)} = {f \in Factor : u \in Ranked(df, f)},
                    \A f \in {f \in Factor : t \in Ranked(df, f)} :
                      IF f \in Low THEN figure[t][f] <= figure[u][f] ELSE figure[t][f] >= figure[u][f],
                    ranking[PlaceOf(ranking, t)].composite # {},
                    \E f \in {f \in Factor : t \in Ranked(df, f)} : figure[t][f] # figure[u][f] /\ Counts(f)
             PROVE  PlaceOf(ranking, t) < PlaceOf(ranking, u)
  BY <1>1 DEF BetterIsAhead
<1>3. PICK g \in Factor : t \in Ranked(df, g) /\ figure[t][g] # figure[u][g] /\ Counts(g)
  OBVIOUS
<1>4. /\ Score(df)[PlaceIn(df, t)] = Line(df, t) /\ PlaceOf(Score(df), t) = PlaceIn(df, t)
      /\ PlaceOf(Score(df), u) = PlaceIn(df, u)
  BY <1>2, ScoreIs
<1>5. Composite(df, t) # {}
  BY <1>2, <1>4 DEF Composite
<1>6. /\ \A f \in Factor : t \in Ranked(df, f) <=> u \in Ranked(df, f)
      /\ \A f \in Factor : t \in Ranked(df, f) =>
           IF f \in Low THEN df.figure[t][f] <= df.figure[u][f] ELSE df.figure[t][f] >= df.figure[u][f]
  BY <1>2
<1>7. Ahead(Line(df, t), Line(df, u))
  BY <1>2, <1>3, <1>5, <1>6, BetterIsHigher
<1>8. PlaceIn(df, t) < PlaceIn(df, u)
  BY <1>2, <1>7, PlacesOfRanks
<1> QED BY <1>2, <1>4, <1>8

\* What a step may do to the ranking.
FairStep ==
  /\ figure' = figure /\ large' = large => ranking' = ranking
  /\ \A t \in Stock, f \in Factor : figure'[t][f] # figure[t][f] =>
       /\ t \notin large => ranking' = ranking
       /\ t \in large /\ Improved(t, f, figure, figure') => PlaceOf(ranking', t) <= PlaceOf(ranking, t)

\* A step that changes no figure or size, or those of a title too small, keeps the ranking;
\* one that betters a figure does not move the title back.
LEMMA FairStepHolds == RulesInv /\ RulesNext => FairStep
<1> SUFFICES ASSUME RulesInv, RulesNext PROVE FairStep
  OBVIOUS
<1>1. PICK d, e : d = Table /\ e = Table'
  OBVIOUS
<1>2. TableOK(d) /\ d.figure = figure /\ d.large = large /\ ranking = Score(d)
  BY <1>1, TableIsOK DEF RulesInv
<1>3. e.figure = figure' /\ e.large = large' /\ ranking' = Score(e)
  BY <1>1 DEF Table, RulesNext, NewFigure, NewSize, ScoreAgain
<1>4. TableOK(e)
  <2>1. figure' \in [Stock -> Lines] /\ large' \in SUBSET Stock
    BY RulesInvIsInductive DEF RulesInv
  <2>2. \A t \in Stock, f \in Factor : figure'[t][f] \in Int \cup {Missing}
    BY <2>1, RulesAssumption
  <2> QED BY <1>3, <2>1, <2>2 DEF TableOK
<1>5. figure' = figure /\ large' = large => ranking' = ranking
  BY <1>2, <1>3, ScoreReads
<1>6. ASSUME NEW t \in Stock, NEW f \in Factor, figure'[t][f] # figure[t][f]
      PROVE  /\ t \notin large => ranking' = ranking
             /\ t \in large /\ Improved(t, f, figure, figure') => PlaceOf(ranking', t) <= PlaceOf(ranking, t)
  <2>1. PICK s \in Stock, h \in Factor : NewFigure(s, h)
    BY <1>6 DEF RulesNext, NewSize, ScoreAgain
  <2>2. PICK l \in Lines : (\A g \in Factor : l[g] # figure[s][g] <=> g = h) /\ figure' = [figure EXCEPT ![s] = l]
    BY <2>1 DEF NewFigure
  <2>3. figure \in [Stock -> Lines]
    BY DEF RulesInv
  <2>4. figure'[s] = l /\ \A u \in Stock : u # s => figure'[u] = figure[u]
    BY <2>1, <2>2, <2>3
  <2>5. t = s /\ f = h
    BY <1>6, <2>2, <2>4
  <2>6. \A u \in Stock, g \in Factor : u # t \/ g # f => figure'[u][g] = figure[u][g]
    BY <2>2, <2>4, <2>5
  <2>7. large' = large /\ large \in SUBSET Stock
    BY <2>1 DEF NewFigure, RulesInv
  <2>8. ASSUME t \notin large PROVE ranking' = ranking
    BY <1>2, <1>3, <2>6, <2>7, <2>8, ScoreReads
  <2>9. ASSUME t \in large, Improved(t, f, figure, figure') PROVE PlaceOf(ranking', t) <= PlaceOf(ranking, t)
    <3>1. GotBetter(d, e, t, f)
      BY <1>2, <1>3, <1>6, <2>6, <2>7, <2>9 DEF GotBetter
    <3>2. PlaceIn(e, t) <= PlaceIn(d, t)
      BY <1>2, <1>4, <3>1, PlaceMoves
    <3>3. PlaceOf(Score(d), t) = PlaceIn(d, t) /\ PlaceOf(Score(e), t) = PlaceIn(e, t)
      BY <1>2, <1>3, <1>4, <2>7, <2>9, ScoreIs
    <3> QED BY <1>2, <1>3, <3>2, <3>3
  <2> QED BY <2>8, <2>9
<1> QED BY <1>5, <1>6 DEF FairStep

\* The titles of the ranking are those that are large enough, each once, and the trap is
\* only set for one that has a composite: no title is flagged for what is not known of it.
LEMMA RulesTypeIsOK == RulesInv => RulesTypeOK
<1> SUFFICES ASSUME RulesInv PROVE RulesTypeOK
  OBVIOUS
<1>1. PICK df, n : df = Table /\ n = Cardinality(large)
  OBVIOUS
<1>2. TableOK(df) /\ df.large = large /\ ranking = Score(df)
  BY <1>1, TableIsOK DEF RulesInv
<1>3. DOMAIN ranking = 1..n /\ n \in Nat
  BY <1>1, <1>2, ScoreIs, PlacesOfRanks
<1>4. \A i \in 1..n : \E t \in large : ranking[i] = Line(df, t)
  BY <1>1, <1>2, ScoreIs, PlacesOfRanks
<1>5. \A t \in large : Line(df, t).title = t
  BY <1>2, CompositeIs
<1>6. \A t \in large : \E i \in 1..n : ranking[i] = Line(df, t)
  BY <1>1, <1>2, ScoreIs, PlacesOfRanks
<1>7. {ranking[i].title : i \in DOMAIN ranking} = large
  <2>1. \A i \in 1..n : ranking[i].title \in large
    BY <1>4, <1>5
  <2>2. \A t \in large : \E i \in 1..n : ranking[i].title = t
    BY <1>5, <1>6
  <2> QED BY <1>3, <2>1, <2>2
<1>8. Len(ranking) = n
  <2>1. ranking = [i \in 1..n |-> ranking[i]]
    <3>1. PICK line : line = [t \in df.large |-> Line(df, t)]
      OBVIOUS
    <3>2. ranking = [i \in 1..n |-> line[CHOOSE t \in df.large : Cardinality({u \in df.large : Ahead(line[u], line[t])}) = i - 1]]
      BY <1>1, <1>2, <3>1 DEF Score
    <3> QED BY <3>2
  <2>2. \A i \in 1..n : ranking[i] \in {ranking[k] : k \in 1..n}
    OBVIOUS
  <2>3. ranking \in Seq({ranking[k] : k \in 1..n})
    BY <1>3, <2>1, <2>2
  <2> QED BY <1>3, <2>3
<1>9. ASSUME 0 < ValueTrap, QualityTrap < Whole, NEW t \in large, Line(df, t).trap PROVE Line(df, t).composite # {}
  <2>1. PICK v, q : v = MeanOf(df, t, ValueFactor) /\ q = MeanOf(df, t, QualityFactor)
    OBVIOUS
  <2>2. Line(df, t).composite = {ValueWeight * a + QualityWeight * b : a \in v, b \in q}
    BY <2>1 DEF Line
  <2>3. Line(df, t).trap = (/\ (IF v = {} THEN 0 ELSE Only(v)) >= ValueTrap
                            /\ (IF q = {} THEN Whole ELSE Only(q)) <= QualityTrap)
    BY <2>1 DEF Line
  <2>4. (IF v = {} THEN 0 ELSE Only(v)) >= ValueTrap /\ (IF q = {} THEN Whole ELSE Only(q)) <= QualityTrap
    BY <1>9, <2>3
  <2>5. ~(0 >= ValueTrap) /\ ~(Whole <= QualityTrap)
    BY <1>9, RulesAssumption
  <2>6. v # {} /\ q # {}
    BY <2>4, <2>5
  <2>7. PICK a \in v, b \in q : TRUE
    BY <2>6
  <2>8. ValueWeight * a + QualityWeight * b \in {ValueWeight * x + QualityWeight * y : x \in v, y \in q}
    OBVIOUS
  <2> QED BY <2>2, <2>8
<1>10. 0 < ValueTrap /\ QualityTrap < Whole => \A i \in DOMAIN ranking : ranking[i].trap => ranking[i].composite # {}
  BY <1>3, <1>4, <1>9
<1> QED BY <1>1, <1>3, <1>7, <1>8, <1>10 DEF RulesTypeOK, RulesInv

\* scoring.py: the ranking does not depend on the order of the table, nor on titles that are
\* too small; who is nowhere worse and somewhere better is ahead; and a better figure never
\* costs a place.
THEOREM TheRankingIsFair == RulesSpec => RankingIsFair
<1>1. RulesInv /\ [RulesNext]_rulesVars => [FairStep]_rulesVars
  BY FairStepHolds
<1>2. RulesInv => BetterIsAhead
  BY BetterIsAheadHolds
<1>3. RulesInit => RulesInv
  BY RulesInvIsInductive
<1>4. RulesInv /\ [RulesNext]_rulesVars => RulesInv'
  BY RulesInvIsInductive
<1>5. RulesSpec => []BetterIsAhead /\ [][FairStep]_rulesVars
  BY <1>1, <1>2, <1>3, <1>4, PTL DEF RulesSpec
<1> QED BY <1>5 DEF RankingIsFair, FairStep

\* The ranking has each title that is large enough once, and flags none as a value trap
\* that has no composite, but for thresholds that say so of every title.
THEOREM TheRankingIsOfTheTable == RulesSpec => []RulesTypeOK
<1>1. RulesInit => RulesInv
  BY RulesInvIsInductive
<1>2. RulesInv /\ [RulesNext]_rulesVars => RulesInv'
  BY RulesInvIsInductive
<1> QED BY <1>1, <1>2, RulesTypeIsOK, PTL DEF RulesSpec
==============================================================================
