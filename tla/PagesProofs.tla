----------------------------- MODULE PagesProofs ------------------------------
(***************************************************************************)
(* Proofs about what pages show, of the three components behind them.      *)
(*                                                                         *)
(* Profiles, for any tabs, parameters and number of requests: what a tab   *)
(* was told of its request is stored, and the form of a tab belongs to the *)
(* version it names when it saves.                                         *)
(*                                                                         *)
(* ReadModel, for any titles, fetches, scorings, starts and tries: the     *)
(* pages answer as the tables they are filled from.                        *)
(*                                                                         *)
(* Realtime, for any number of events, length of a queue and limit of a    *)
(* replay: between replay and live the tab misses nothing, and what comes  *)
(* is in order and comes once.                                             *)
(***************************************************************************)
EXTENDS Profiles, ReadModel, Realtime, NumberLemmas, SequenceTheorems

------------------------------------------------------------------------------
(* The editor of the profiles.                                               *)

\* Every version but the first is of a save that was answered ok, every time of
\* its own activation: numbers and times stay as small as the requests are few.
Saved == {c \in 1..Len(calls) : calls[c].op = "save" /\ calls[c].result = "ok"}
Timed == {c \in 1..Len(calls) : calls[c].at # 0}
NumbersInv ==
  /\ Len(calls) <= MaxCalls
  /\ Len(versions) <= 1 + Cardinality(Saved)
  /\ \A a \in activations : a.at <= 1 + Cardinality(Timed)
  /\ \A c \in 1..Len(calls) : calls[c].at <= 1 + Cardinality(Timed)

\* The first version comes with its activation, before any request; what is
\* activated is a version.
ActivationsInv ==
  /\ IF Len(versions) = 0 THEN activations = {} /\ Len(calls) = 0 ELSE activations # {}
  /\ \A a \in activations : a.version \in 1..Len(versions)

\* A request that is not done has no result; an activation that was checked names a version.
CallInv(c) ==
  /\ calls[c].step # "done" => calls[c].result = "none"
  /\ calls[c].step = "sent" => calls[c].at = 0
  /\ calls[c].op = "activate" /\ calls[c].step = "checked" => calls[c].based \in 1..Len(versions)
  /\ calls[c].result = "ok" =>
       IF calls[c].op = "save"
         THEN calls[c].number \in 1..Len(versions) /\ versions[calls[c].number] = NewVersion(c)
         ELSE \E a \in activations : a = [at |-> calls[c].at, version |-> calls[c].number]

\* A page, its version and the version in the answer it has not looked at yet.
PageInv(p) ==
  /\ p.based # 0 => p.based \in 1..Len(versions) /\ p.base = versions[p.based].params
  /\ p.load = "answered" => p.got \in 1..Len(versions)
  /\ p.waits <= Len(calls)

\* The inductive invariant.
ProfilesInv ==
  /\ ProfilesTypeOK /\ NumbersInv /\ ActivationsInv
  /\ \A c \in 1..Len(calls) : CallInv(c)
  /\ \A t \in Tab : PageInv(page[t])
------------------------------------------------------------------------------
(* Tables and numbers.                                                      *)

\* The lengths are numbers, the entries have their types.
LEMMA ProfilesEntries ==
  ASSUME ProfilesTypeOK
  PROVE  /\ Len(versions) \in Nat /\ DOMAIN versions = 1..Len(versions)
         /\ Len(calls) \in Nat /\ DOMAIN calls = 1..Len(calls)
         /\ \A n \in 1..Len(versions) : versions[n] \in Version
         /\ \A c \in 1..Len(calls) : calls[c] \in Call
         /\ \A t \in Tab : page[t] \in Page
BY DEF ProfilesTypeOK

LEMMA ProfilesBounds ==
  /\ MaxCalls \in Nat /\ 0 \in Number /\ Number \subseteq Nat /\ Start \in Param
  /\ \A n \in Nat : n <= MaxCalls + 1 <=> n \in Number
BY ProfilesAssumption DEF Number

\* The versions and times that have been given out leave room for one more.
LEMMA CallCounts ==
  ASSUME ProfilesInv
  PROVE  /\ Cardinality(Saved) \in Nat /\ Cardinality(Saved) <= Len(calls)
         /\ Cardinality(Timed) \in Nat /\ Cardinality(Timed) <= Len(calls)
         /\ \A c \in (1..Len(calls)) \ Saved :
              Cardinality(Saved \cup {c}) = Cardinality(Saved) + 1 /\ Cardinality(Saved) + 1 <= Len(calls)
         /\ \A c \in (1..Len(calls)) \ Timed :
              Cardinality(Timed \cup {c}) = Cardinality(Timed) + 1 /\ Cardinality(Timed) + 1 <= Len(calls)
<1>1. Len(calls) \in Nat /\ Saved \in SUBSET (1..Len(calls)) /\ Timed \in SUBSET (1..Len(calls))
  BY ProfilesEntries DEF ProfilesInv, Saved, Timed
<1>2. ASSUME NEW n \in Nat, NEW S \in SUBSET (1..n)
      PROVE  /\ Cardinality(S) \in Nat /\ Cardinality(S) <= n
             /\ \A c \in (1..n) \ S : Cardinality(S \cup {c}) = Cardinality(S) + 1 /\ Cardinality(S) + 1 <= n
  <2>1. ASSUME NEW c \in (1..n) \ S PROVE Cardinality(S \cup {c}) = Cardinality(S) + 1 /\ Cardinality(S) + 1 <= n
    <3>1. S \cup {c} \in SUBSET (1..n)
      OBVIOUS
    <3>2. Cardinality(S \cup {c}) <= n
      BY <3>1, CountedNumbers
    <3> QED BY <3>2, CountedNumbers
  <2> QED BY <2>1, CountedNumbers
<1> QED BY <1>1, <1>2

\* A transaction that begins takes a time after all others, and no more than one after
\* as many as there are.
LEMMA NowIsNext ==
  ASSUME ProfilesInv
  PROVE  /\ Now \in Nat \ {0} /\ Now <= 2 + Cardinality(Timed)
         /\ Len(versions) = 0 => Now = 1
<1> DEFINE S == {0} \cup {a.at : a \in activations} \cup {calls[c].at : c \in DOMAIN calls}
<1>1. S \in SUBSET Nat /\ S # {}
  <2>1. \A a \in activations : a.at \in Nat
    BY ProfilesBounds DEF ProfilesInv, ProfilesTypeOK, Activation
  <2>2. \A c \in DOMAIN calls : calls[c].at \in Nat
    BY ProfilesEntries, ProfilesBounds DEF ProfilesInv, Call
  <2> QED BY <2>1, <2>2
<1>2. 1 + Cardinality(Timed) \in Nat /\ \A k \in S : k <= 1 + Cardinality(Timed)
  BY CallCounts, ProfilesEntries DEF ProfilesInv, NumbersInv
<1>3. Len(versions) = 0 => S = {0}
  BY ProfilesEntries DEF ProfilesInv, ActivationsInv
<1>4. Now = 1 + Latest(S)
  BY DEF Now
<1> HIDE DEF S
<1>5. \E m \in S : \A k \in S : k <= m
  BY <1>1, <1>2, GreatestNumber
<1>6. Latest(S) \in S
  BY <1>5 DEF Latest
<1>7. PICK m \in S : m = Latest(S)
  BY <1>6
<1>8. m \in Nat /\ m <= 1 + Cardinality(Timed) /\ Cardinality(Timed) \in Nat
  BY <1>1, <1>2, CallCounts
<1>9. Len(versions) = 0 => m = 0
  BY <1>3, <1>7
<1> QED BY <1>4, <1>7, <1>8, <1>9

\* The version that is active is one of an activation.
LEMMA ActiveIsVersion ==
  ASSUME ProfilesInv, versions # <<>>
  PROVE  Active \in DOMAIN versions
<1> DEFINE S == {a.at : a \in activations}
<1>1. activations # {} /\ Len(versions) # 0
  BY ProfilesEntries DEF ProfilesInv, ActivationsInv, ProfilesTypeOK
<1>2. S \in SUBSET Nat /\ S # {}
  BY <1>1, ProfilesBounds DEF ProfilesInv, ProfilesTypeOK, Activation
<1>3. 1 + Cardinality(Timed) \in Nat /\ \A k \in S : k <= 1 + Cardinality(Timed)
  BY CallCounts DEF ProfilesInv, NumbersInv
<1>4. PICK m \in S : \A k \in S : k <= m
  BY <1>2, <1>3, GreatestNumber
<1>5. \E a \in activations : \A b \in activations : b.at <= a.at
  BY <1>4
<1>6. (CHOOSE a \in activations : \A b \in activations : b.at <= a.at) \in activations
  BY <1>5
<1> QED BY <1>6, ProfilesEntries DEF Active, ProfilesInv, ActivationsInv

------------------------------------------------------------------------------
(* What stays.                                                              *)

\* Versions, activations and requests are only added, and an answered request does not
\* change any more.
ProfilesKept ==
  /\ Len(versions) <= Len(versions') /\ \A n \in 1..Len(versions) : versions'[n] = versions[n]
  /\ activations \subseteq activations'
  /\ Len(calls) <= Len(calls')

\* A request that does not change keeps what is known of it.
LEMMA CallStays ==
  ASSUME ProfilesInv, ProfilesTypeOK', ProfilesKept, NEW c \in 1..Len(calls), calls'[c] = calls[c]
  PROVE  CallInv(c)'
<1>1. CallInv(c) /\ Len(versions) \in Nat /\ Len(versions') \in Nat
  BY ProfilesEntries DEF ProfilesInv
<1>2. \A n \in 1..Len(versions) : n \in 1..Len(versions') /\ versions'[n] = versions[n]
  BY <1>1 DEF ProfilesKept
<1>3. NewVersion(c)' = NewVersion(c)
  BY DEF NewVersion
<1>4. calls'[c].based \in 1..Len(versions')
        \/ ~(calls'[c].op = "activate" /\ calls'[c].step = "checked")
  BY <1>1, <1>2 DEF CallInv
<1>5. ASSUME calls'[c].result = "ok", calls'[c].op = "save"
      PROVE  calls'[c].number \in 1..Len(versions') /\ versions'[calls'[c].number] = NewVersion(c)'
  BY <1>1, <1>2, <1>3, <1>5 DEF CallInv
<1>6. ASSUME calls'[c].result = "ok", calls'[c].op # "save"
      PROVE  \E a \in activations' : a = [at |-> calls'[c].at, version |-> calls'[c].number]
  BY <1>1, <1>6 DEF CallInv, ProfilesKept
<1> QED BY <1>1, <1>4, <1>5, <1>6 DEF CallInv

\* A page that does not change keeps what is known of it.
LEMMA PageStays ==
  ASSUME ProfilesInv, ProfilesTypeOK', ProfilesKept, NEW p \in Page, PageInv(p)
  PROVE  PageInv(p)'
<1>1. Len(versions) \in Nat /\ Len(versions') \in Nat /\ Len(calls) \in Nat /\ Len(calls') \in Nat
  BY ProfilesEntries DEF ProfilesInv
<1>2. \A n \in 1..Len(versions) : n \in 1..Len(versions') /\ versions'[n] = versions[n]
  BY <1>1 DEF ProfilesKept
<1>3. p.waits \in Nat
  BY ProfilesBounds DEF Page
<1> QED BY <1>1, <1>2, <1>3 DEF PageInv, ProfilesKept

\* One request changes.
LEMMA OneCall ==
  ASSUME ProfilesInv, NEW c \in 1..Len(calls), NEW new \in Call, calls' = [calls EXCEPT ![c] = new]
  PROVE  /\ calls' \in Seq(Call) /\ Len(calls') = Len(calls) /\ calls'[c] = new
         /\ \A d \in 1..Len(calls) : d # c => calls'[d] = calls[d]
<1>1. calls \in Seq(Call)
  BY DEF ProfilesInv, ProfilesTypeOK
<1> QED BY <1>1

\* What is left to show of a step.
LEMMA StepDone ==
  ASSUME ProfilesInv, ProfilesTypeOK', ProfilesKept, NumbersInv', ActivationsInv',
         \A c \in 1..Len(calls') : (c \in 1..Len(calls) /\ calls'[c] = calls[c]) \/ CallInv(c)',
         \A t \in Tab : page'[t] = page[t] \/ \E p \in Page : p = page'[t] /\ PageInv(p)'
  PROVE  ProfilesInv'
<1>1. \A c \in 1..Len(calls') : CallInv(c)'
  BY CallStays
<1>2. ASSUME NEW t \in Tab PROVE PageInv(page[t])'
  <2>1. CASE page'[t] = page[t]
    <3>1. PICK p \in Page : p = page[t]
      BY ProfilesEntries DEF ProfilesInv
    <3>2. PageInv(p)'
      BY <3>1, PageStays DEF ProfilesInv
    <3> QED BY <2>1, <3>1, <3>2 DEF PageInv
  <2>2. CASE \E p \in Page : p = page'[t] /\ PageInv(p)'
    BY <2>2 DEF PageInv
  <2> QED BY <2>1, <2>2
<1> QED BY <1>1, <1>2 DEF ProfilesInv

------------------------------------------------------------------------------
(* scoring.                                                                 *)

LEMMA EnsureProfileKeeps ==
  ASSUME ProfilesInv, EnsureProfile
  PROVE  ProfilesInv'
<1> DEFINE first == [params |-> Start, parent |-> 0, comment |-> 0]
           act == [at |-> Now, version |-> 1]
<1>1. versions = <<>> /\ versions' = <<first>> /\ activations' = {act} /\ UNCHANGED <<calls, page>>
  BY DEF EnsureProfile
<1>2. ProfilesTypeOK /\ Len(versions) = 0 /\ activations = {} /\ Len(calls) = 0
  BY <1>1 DEF ProfilesInv, ActivationsInv
<1>3. Now = 1
  BY <1>2, NowIsNext
<1>4. first \in Version /\ act \in Activation /\ act.at = 1 /\ act.version = 1
  BY <1>3, ProfilesBounds, ProfilesAssumption DEF Version, Activation
<1> HIDE DEF first, act
<1>5. versions' \in Seq(Version) /\ Len(versions') = 1
  BY <1>1, <1>4
<1>6. ProfilesTypeOK'
  BY <1>1, <1>2, <1>4, <1>5 DEF ProfilesTypeOK
<1>7. ProfilesKept
  BY <1>1, <1>2, <1>5 DEF ProfilesKept
<1>8. NumbersInv'
  <2>1. Saved' = Saved /\ Timed' = Timed
    BY <1>1 DEF Saved, Timed
  <2>2. Cardinality(Saved) \in Nat /\ Cardinality(Timed) \in Nat
    BY CallCounts
  <2> QED BY <1>1, <1>2, <1>4, <1>5, <2>1, <2>2 DEF ProfilesInv, NumbersInv
<1>9. ActivationsInv'
  BY <1>1, <1>4, <1>5 DEF ActivationsInv
<1> QED BY <1>1, <1>2, <1>6, <1>7, <1>8, <1>9, StepDone

\* One request changes: its own and the counts are left to show.
LEMMA CallDone ==
  ASSUME ProfilesInv, NEW c \in 1..Len(calls), NEW new \in Call, calls' = [calls EXCEPT ![c] = new], page' = page,
         versions' \in Seq(Version), activations' \subseteq Activation,
         Len(versions) <= Len(versions'), \A n \in 1..Len(versions) : versions'[n] = versions[n],
         activations \subseteq activations', NumbersInv', ActivationsInv', CallInv(c)'
  PROVE  ProfilesInv'
<1>1. /\ calls' \in Seq(Call) /\ Len(calls') = Len(calls)
      /\ \A d \in 1..Len(calls) : d # c => calls'[d] = calls[d]
  BY OneCall
<1>2. ProfilesTypeOK' /\ ProfilesKept
  BY <1>1, ProfilesEntries DEF ProfilesInv, ProfilesTypeOK, ProfilesKept
<1>3. \A d \in 1..Len(calls') : (d \in 1..Len(calls) /\ calls'[d] = calls[d]) \/ CallInv(d)'
  BY <1>1
<1> QED BY <1>2, <1>3, StepDone

\* A request that neither saves nor takes a time leaves the counts as they are.
LEMMA CountsStay ==
  ASSUME ProfilesInv, NEW c \in 1..Len(calls), NEW new \in Call, calls' = [calls EXCEPT ![c] = new],
         new.op = calls[c].op, new.at = calls[c].at,
         new.op = "save" => (new.result = "ok" <=> calls[c].result = "ok"),
         UNCHANGED versions
  PROVE  /\ Saved' = Saved /\ Timed' = Timed
         /\ UNCHANGED activations => NumbersInv' /\ ActivationsInv'
<1>1. /\ calls' \in Seq(Call) /\ Len(calls') = Len(calls) /\ calls'[c] = new
      /\ \A d \in 1..Len(calls) : d # c => calls'[d] = calls[d]
  BY OneCall
<1>2. Saved' = Saved /\ Timed' = Timed
  BY <1>1 DEF Saved, Timed
<1>3. \A d \in 1..Len(calls) : calls'[d].at = calls[d].at
  BY <1>1
<1> QED BY <1>1, <1>2, <1>3 DEF ProfilesInv, NumbersInv, ActivationsInv

LEMMA SaveCheckKeeps ==
  ASSUME ProfilesInv, NEW c \in 1..Len(calls), SaveCheck(c)
  PROVE  ProfilesInv'
<1>1. PICK k \in Call : k = calls[c] /\ k.op = "save" /\ k.step = "sent"
  BY ProfilesEntries DEF ProfilesInv, SaveCheck
<1>2. k.result = "none" /\ k.at = 0
  BY <1>1 DEF ProfilesInv, CallInv
<1>3. Len(versions) \in Number
  BY ProfilesBounds, ProfilesEntries, CallCounts DEF ProfilesInv, NumbersInv
<1>4. PICK new \in Call : /\ calls' = [calls EXCEPT ![c] = new] /\ new.op = "save" /\ new.at = 0
                          /\ new.step # "sent" /\ new.result # "ok" /\ (new.step # "done" => new.result = "none")
  <2>1. CASE Newest = calls[c].based
    <3> DEFINE new == [k EXCEPT !.step = "checked"]
    <3>1. calls' = [calls EXCEPT ![c] = new]
      BY <1>1, <2>1 DEF SaveCheck
    <3>2. new \in Call /\ new.op = "save" /\ new.at = 0 /\ new.step = "checked" /\ new.result = "none"
      BY <1>1, <1>2 DEF Call
    <3> QED BY <3>1, <3>2
  <2>2. CASE Newest # calls[c].based
    <3> DEFINE new == [k EXCEPT !.step = "done", !.result = "conflict", !.number = Newest]
    <3>1. calls' = [calls EXCEPT ![c] = new]
      BY <1>1, <2>2 DEF SaveCheck, Reply
    <3>2. new \in Call /\ new.op = "save" /\ new.at = 0 /\ new.step = "done" /\ new.result = "conflict"
      BY <1>1, <1>2, <1>3 DEF Call, Newest
    <3> QED BY <3>1, <3>2
  <2> QED BY <2>1, <2>2
<1>5. UNCHANGED <<versions, activations, page>>
  BY DEF SaveCheck
<1>6. calls'[c] = new
  BY <1>4, OneCall
<1>7. NumbersInv' /\ ActivationsInv'
  BY <1>1, <1>2, <1>4, <1>5, CountsStay
<1>8. CallInv(c)'
  BY <1>4, <1>6 DEF CallInv
<1>9. /\ versions' \in Seq(Version) /\ activations' \subseteq Activation /\ page' = page
      /\ Len(versions) <= Len(versions') /\ \A n \in 1..Len(versions) : versions'[n] = versions[n]
      /\ activations \subseteq activations'
  BY <1>5, ProfilesEntries DEF ProfilesInv, ProfilesTypeOK
<1> QED BY <1>4, <1>7, <1>8, <1>9, CallDone

\* A save is answered with a conflict, its number was taken.
LEMMA SaveConflictKeeps ==
  ASSUME ProfilesInv, NEW c \in 1..Len(calls), calls[c].op = "save", calls[c].step = "checked",
         Newest > calls[c].based, Reply(c, "conflict", calls[c].based + 1), UNCHANGED <<versions, activations, page>>
  PROVE  ProfilesInv'
<1>1. PICK k \in Call : k = calls[c] /\ k.op = "save" /\ k.step = "checked"
  BY ProfilesEntries DEF ProfilesInv
<1>2. k.result = "none"
  BY <1>1 DEF ProfilesInv, CallInv
<1>3. k.based + 1 \in Number
  <2>1. k.based \in Nat /\ k.based < Len(versions)
    BY <1>1, ProfilesBounds, ProfilesEntries DEF ProfilesInv, Newest, Call
  <2>2. Len(versions) \in Nat /\ Len(versions) <= MaxCalls + 1
    BY ProfilesBounds, ProfilesEntries, CallCounts DEF ProfilesInv, NumbersInv
  <2> QED BY <2>1, <2>2, ProfilesBounds DEF Number
<1> DEFINE new == [k EXCEPT !.step = "done", !.result = "conflict", !.number = k.based + 1]
<1>4. calls' = [calls EXCEPT ![c] = new]
  BY <1>1 DEF Reply
<1>5. new \in Call /\ new.op = k.op /\ new.at = k.at /\ new.step = "done" /\ new.result = "conflict"
  BY <1>1, <1>2, <1>3 DEF Call
<1> HIDE DEF new
<1>6. calls'[c] = new
  BY <1>4, <1>5, OneCall
<1>7. NumbersInv' /\ ActivationsInv'
  BY <1>1, <1>2, <1>4, <1>5, CountsStay
<1>8. CallInv(c)'
  BY <1>5, <1>6 DEF CallInv
<1>9. /\ versions' \in Seq(Version) /\ activations' \subseteq Activation /\ page' = page
      /\ Len(versions) <= Len(versions') /\ \A n \in 1..Len(versions) : versions'[n] = versions[n]
      /\ activations \subseteq activations'
  BY ProfilesEntries DEF ProfilesInv, ProfilesTypeOK
<1> QED BY <1>4, <1>5, <1>7, <1>8, <1>9, CallDone

\* A save is written.
LEMMA SaveWriteKeeps ==
  ASSUME ProfilesInv, NEW c \in 1..Len(calls), calls[c].op = "save", calls[c].step = "checked",
         versions' = Append(versions, NewVersion(c)), Reply(c, "ok", Newest + 1), UNCHANGED <<activations, page>>
  PROVE  ProfilesInv'
<1>1. PICK k \in Call : k = calls[c] /\ k.op = "save" /\ k.step = "checked"
  BY ProfilesEntries DEF ProfilesInv
<1>2. k.result = "none" /\ c \notin Saved
  BY <1>1 DEF ProfilesInv, CallInv, Saved
<1>3. /\ Cardinality(Saved \cup {c}) = Cardinality(Saved) + 1 /\ Cardinality(Saved) \in Nat
      /\ Cardinality(Saved) + 1 <= Len(calls) /\ Len(calls) <= MaxCalls
      /\ Len(versions) <= 1 + Cardinality(Saved) /\ Len(versions) \in Nat /\ Len(calls) \in Nat
  BY <1>2, CallCounts, ProfilesEntries DEF ProfilesInv, NumbersInv
<1>4. Len(versions) + 1 \in Number /\ c \in Number
  BY <1>3, ProfilesAssumption DEF Number
<1>5. PICK v \in Version : v = NewVersion(c)
  BY <1>1, <1>4 DEF NewVersion, Version, Call
<1>6. /\ versions' \in Seq(Version) /\ Len(versions') = Len(versions) + 1 /\ versions'[Len(versions) + 1] = v
      /\ \A n \in 1..Len(versions) : versions'[n] = versions[n]
  BY <1>5 DEF ProfilesInv, ProfilesTypeOK
<1> DEFINE new == [k EXCEPT !.step = "done", !.result = "ok", !.number = Newest + 1]
<1>7. calls' = [calls EXCEPT ![c] = new]
  BY <1>1 DEF Reply
<1>8. /\ new \in Call /\ new.op = "save" /\ new.at = k.at /\ new.step = "done" /\ new.result = "ok"
      /\ new.number = Len(versions) + 1 /\ new.params = k.params /\ new.based = k.based
  BY <1>1, <1>4 DEF Call, Newest
<1> HIDE DEF new
<1>9. /\ Len(calls') = Len(calls) /\ calls'[c] = new
      /\ \A d \in 1..Len(calls) : d # c => calls'[d] = calls[d]
  BY <1>7, <1>8, OneCall
<1>10. Saved' = Saved \cup {c} /\ Timed' = Timed
  BY <1>1, <1>8, <1>9 DEF Saved, Timed
<1>11. NumbersInv'
  <2>1. \A d \in 1..Len(calls) : calls'[d].at = calls[d].at
    BY <1>1, <1>8, <1>9
  <2> QED BY <1>3, <1>6, <1>9, <1>10, <2>1 DEF ProfilesInv, NumbersInv
<1>12. ActivationsInv'
  <2>1. Len(versions) # 0
    BY <1>3 DEF ProfilesInv, ActivationsInv
  <2> QED BY <1>3, <1>6, <2>1 DEF ProfilesInv, ActivationsInv
<1>13. CallInv(c)'
  <2>1. NewVersion(c)' = v
    BY <1>1, <1>5, <1>8, <1>9 DEF NewVersion
  <2> QED BY <1>3, <1>6, <1>8, <1>9, <2>1 DEF CallInv
<1>14. /\ activations' \subseteq Activation /\ page' = page /\ activations \subseteq activations'
       /\ Len(versions) <= Len(versions')
  BY <1>3, <1>6 DEF ProfilesInv, ProfilesTypeOK
<1> QED BY <1>6, <1>7, <1>8, <1>11, <1>12, <1>13, <1>14, CallDone

\* An activation takes its time.
LEMMA ActivateCheckKeeps ==
  ASSUME ProfilesInv, NEW c \in 1..Len(calls), ActivateCheck(c)
  PROVE  ProfilesInv'
<1>1. PICK k \in Call : k = calls[c] /\ k.op = "activate" /\ k.step = "sent"
  BY ProfilesEntries DEF ProfilesInv, ActivateCheck
<1>2. k.result = "none" /\ k.at = 0 /\ k.based \in 1..Len(versions) /\ c \notin Timed
  BY <1>1, ProfilesEntries DEF ProfilesInv, CallInv, ActivateCheck, Timed
<1>3. /\ Cardinality(Timed \cup {c}) = Cardinality(Timed) + 1 /\ Cardinality(Timed) \in Nat
      /\ Cardinality(Timed) + 1 <= Len(calls) /\ Len(calls) <= MaxCalls /\ Len(calls) \in Nat
  BY <1>2, CallCounts, ProfilesEntries DEF ProfilesInv, NumbersInv
<1>4. PICK now \in Number : now = Now /\ now # 0 /\ now <= 2 + Cardinality(Timed)
  BY <1>3, NowIsNext, ProfilesAssumption DEF Number
<1> DEFINE new == [k EXCEPT !.step = "checked", !.at = now]
<1>5. calls' = [calls EXCEPT ![c] = new] /\ UNCHANGED <<versions, activations, page>>
  BY <1>1, <1>4 DEF ActivateCheck
<1>6. /\ new \in Call /\ new.op = "activate" /\ new.at = now /\ new.step = "checked" /\ new.result = "none"
      /\ new.based = k.based
  BY <1>1, <1>2, <1>4 DEF Call
<1> HIDE DEF new
<1>7. /\ Len(calls') = Len(calls) /\ calls'[c] = new
      /\ \A d \in 1..Len(calls) : d # c => calls'[d] = calls[d]
  BY <1>5, <1>6, OneCall
<1>8. Saved' = Saved /\ Timed' = Timed \cup {c}
  BY <1>1, <1>4, <1>6, <1>7 DEF Saved, Timed
<1>9. NumbersInv'
  <2>1. \A a \in activations : a.at \in Nat /\ a.at <= 1 + Cardinality(Timed)
    BY ProfilesBounds DEF ProfilesInv, NumbersInv, ProfilesTypeOK, Activation
  <2>2. \A d \in 1..Len(calls) : calls[d].at \in Nat /\ calls[d].at <= 1 + Cardinality(Timed)
    BY ProfilesBounds, ProfilesEntries DEF ProfilesInv, NumbersInv, Call
  <2>3. now \in Nat /\ Cardinality(Timed') = Cardinality(Timed) + 1
    BY <1>3, <1>8, ProfilesBounds
  <2>4. \A a \in activations' : a.at <= 1 + Cardinality(Timed')
    BY <1>3, <1>5, <2>1, <2>3
  <2>5. \A d \in 1..Len(calls') : calls'[d].at <= 1 + Cardinality(Timed')
    BY <1>3, <1>4, <1>6, <1>7, <2>2, <2>3
  <2> QED BY <1>3, <1>5, <1>7, <1>8, <2>4, <2>5 DEF ProfilesInv, NumbersInv
<1>10. ActivationsInv'
  BY <1>5, <1>7 DEF ProfilesInv, ActivationsInv
<1>11. CallInv(c)'
  BY <1>2, <1>5, <1>6, <1>7 DEF CallInv
<1>12. /\ versions' \in Seq(Version) /\ activations' \subseteq Activation /\ page' = page
       /\ Len(versions) <= Len(versions') /\ \A n \in 1..Len(versions) : versions'[n] = versions[n]
       /\ activations \subseteq activations'
  BY <1>5, ProfilesEntries DEF ProfilesInv, ProfilesTypeOK
<1> QED BY <1>5, <1>6, <1>9, <1>10, <1>11, <1>12, CallDone

LEMMA ActivateWriteKeeps ==
  ASSUME ProfilesInv, NEW c \in 1..Len(calls), ActivateWrite(c)
  PROVE  ProfilesInv'
<1>1. PICK k \in Call : k = calls[c] /\ k.op = "activate" /\ k.step = "checked"
  BY ProfilesEntries DEF ProfilesInv, ActivateWrite
<1>2. k.result = "none" /\ k.based \in 1..Len(versions)
  BY <1>1 DEF ProfilesInv, CallInv
<1> DEFINE act == [at |-> k.at, version |-> k.based]
           new == [k EXCEPT !.step = "done", !.result = "ok", !.number = k.based]
<1>3. /\ activations' = activations \cup {act} /\ UNCHANGED <<versions, page>>
      /\ calls' = [calls EXCEPT ![c] = new]
  BY <1>1 DEF ActivateWrite, Reply
<1>4. act \in Activation /\ act.at = k.at /\ act.version = k.based
  BY <1>1 DEF Activation, Call
<1>5. /\ new \in Call /\ new.op = "activate" /\ new.at = k.at /\ new.step = "done" /\ new.result = "ok"
      /\ act = [at |-> new.at, version |-> new.number]
  BY <1>1, <1>2 DEF Call
<1> HIDE DEF new, act
<1>6. /\ Len(calls') = Len(calls) /\ calls'[c] = new
      /\ \A d \in 1..Len(calls) : d # c => calls'[d] = calls[d]
  BY <1>3, <1>5, OneCall
<1>7. Saved' = Saved /\ Timed' = Timed
  BY <1>1, <1>3, <1>5, CountsStay
<1>8. NumbersInv'
  <2>1. k.at <= 1 + Cardinality(Timed)
    BY <1>1 DEF ProfilesInv, NumbersInv
  <2>2. \A a \in activations' : a.at <= 1 + Cardinality(Timed)
    BY <1>3, <1>4, <2>1 DEF ProfilesInv, NumbersInv
  <2>3. \A d \in 1..Len(calls) : calls'[d].at <= 1 + Cardinality(Timed)
    BY <1>1, <1>5, <1>6 DEF ProfilesInv, NumbersInv
  <2> QED BY <1>3, <1>6, <1>7, <2>2, <2>3 DEF ProfilesInv, NumbersInv
<1>9. ActivationsInv'
  BY <1>2, <1>3, <1>4, ProfilesEntries DEF ProfilesInv, ActivationsInv
<1>10. CallInv(c)'
  BY <1>3, <1>5, <1>6 DEF CallInv
<1>11. /\ versions' \in Seq(Version) /\ activations' \subseteq Activation /\ page' = page
       /\ Len(versions) <= Len(versions') /\ \A n \in 1..Len(versions) : versions'[n] = versions[n]
       /\ activations \subseteq activations'
  BY <1>3, <1>4, ProfilesEntries DEF ProfilesInv, ProfilesTypeOK
<1> QED BY <1>3, <1>5, <1>8, <1>9, <1>10, <1>11, CallDone

------------------------------------------------------------------------------
(* The editor page.                                                         *)

\* Only the page of a tab changes.
LEMMA PageDone ==
  ASSUME ProfilesInv, NEW t \in Tab, NEW p \in Page, PageInv(p), Change(t, p), UNCHANGED <<versions, activations, calls>>
  PROVE  ProfilesInv'
<1>1. page' = [page EXCEPT ![t] = p] /\ page \in [Tab -> Page]
  BY DEF Change, ProfilesInv, ProfilesTypeOK
<1>2. ProfilesTypeOK' /\ ProfilesKept
  BY <1>1, ProfilesEntries DEF ProfilesInv, ProfilesTypeOK, ProfilesKept
<1>3. NumbersInv' /\ ActivationsInv'
  BY DEF ProfilesInv, NumbersInv, ActivationsInv, Saved, Timed
<1>4. PageInv(p)'
  BY DEF PageInv
<1>5. \A u \in Tab : page'[u] = page[u] \/ page'[u] = p
  BY <1>1
<1> QED BY <1>2, <1>3, <1>4, <1>5, StepDone

LEMMA NewPageIsPage ==
  ASSUME Len(calls) \in Nat
  PROVE  NewPage \in Page /\ PageInv(NewPage)
BY ProfilesBounds DEF NewPage, Page, PageInv

LEMMA PageActionKeeps ==
  ASSUME ProfilesInv, NEW t \in Tab,
         GetProfile(t) \/ Loaded(t) \/ GetFails(t) \/ Discard(t) \/ Replied(t) \/ TimesOut(t) \/ ReloadPage(t)
           \/ \E m \in Param : Edit(t, m)
  PROVE  ProfilesInv'
<1>1. PICK p \in Page : p = page[t] /\ PageInv(p)
  BY ProfilesEntries DEF ProfilesInv
<1>2. Len(versions) \in Number /\ Len(versions) \in Nat /\ Len(calls) \in Nat /\ p.waits \in Nat
  <2>1. Len(versions) \in Nat /\ Len(calls) \in Nat /\ p.waits \in Nat
    BY <1>1, ProfilesBounds, ProfilesEntries DEF ProfilesInv, Page
  <2>2. Len(versions) <= MaxCalls + 1
    BY <2>1, CallCounts, ProfilesAssumption DEF ProfilesInv, NumbersInv
  <2> QED BY <2>1, <2>2, ProfilesBounds
<1>3. UNCHANGED <<versions, activations, calls>>
  BY DEF GetProfile, Loaded, GetFails, Discard, Replied, TimesOut, ReloadPage, Edit
<1>4. CASE GetProfile(t)
  <2>1. PICK n \in Number : n = Newest
    BY <1>2 DEF Newest
  <2> DEFINE q == [p EXCEPT !.load = "answered", !.got = n]
  <2>2. Change(t, q) /\ versions # <<>>
    BY <1>1, <1>4, <2>1 DEF GetProfile
  <2>3. n \in 1..Len(versions)
    BY <1>2, <2>1, <2>2 DEF ProfilesInv, ProfilesTypeOK, Newest
  <2>4. q \in Page /\ q.based = p.based /\ q.base = p.base /\ q.got = n /\ q.waits = p.waits
    BY <2>1 DEF Page
  <2>5. PageInv(q)
    BY <1>1, <2>3, <2>4 DEF PageInv
  <2> QED BY <1>3, <2>2, <2>4, <2>5, PageDone
<1>5. CASE Loaded(t)
  <2>1. p.load = "answered" /\ p.got \in 1..Len(versions) /\ versions[p.got] \in Version
    BY <1>1, <1>5, ProfilesEntries DEF Loaded, PageInv, ProfilesInv
  <2>2. CASE p.force \/ p.based # p.got
    <3> DEFINE q == [p EXCEPT !.base = versions[p.got].params, !.model = versions[p.got].params, !.based = p.got,
                              !.force = FALSE, !.load = "none", !.got = 0]
    <3>1. Change(t, q)
      BY <1>1, <1>5, <2>2 DEF Loaded
    <3>2. q \in Page /\ PageInv(q)
      BY <1>1, <1>2, <2>1, ProfilesBounds DEF Page, PageInv, Version
    <3> QED BY <1>3, <3>1, <3>2, PageDone
  <2>3. CASE ~(p.force \/ p.based # p.got)
    <3> DEFINE q == [p EXCEPT !.load = "none", !.got = 0]
    <3>1. Change(t, q)
      BY <1>1, <1>5, <2>3 DEF Loaded
    <3>2. q \in Page /\ PageInv(q)
      BY <1>1, <1>2, ProfilesBounds DEF Page, PageInv
    <3> QED BY <1>3, <3>1, <3>2, PageDone
  <2> QED BY <2>2, <2>3
<1>6. CASE GetFails(t)
  BY <1>2, <1>3, <1>6, NewPageIsPage, PageDone DEF GetFails
<1>7. CASE Discard(t)
  <2> DEFINE q == [p EXCEPT !.model = p.base]
  <2>1. Change(t, q)
    BY <1>1, <1>7 DEF Discard
  <2>2. q \in Page /\ PageInv(q)
    BY <1>1 DEF Page, PageInv
  <2> QED BY <1>3, <2>1, <2>2, PageDone
<1>8. CASE Replied(t)
  <2>1. PICK q \in {[p EXCEPT !.waits = 0, !.load = "asked", !.got = 0], [p EXCEPT !.waits = 0, !.conflict = TRUE]} :
          Change(t, q)
    BY <1>1, <1>8 DEF Replied
  <2>2. /\ q \in Page /\ q.based = p.based /\ q.base = p.base /\ q.waits = 0
        /\ q.load = "answered" => p.load = "answered" /\ q.got = p.got
    <3>1. CASE q = [p EXCEPT !.waits = 0, !.load = "asked", !.got = 0]
      BY <3>1, ProfilesBounds DEF Page
    <3>2. CASE q = [p EXCEPT !.waits = 0, !.conflict = TRUE]
      BY <3>2, ProfilesBounds DEF Page
    <3> QED BY <2>1, <3>1, <3>2
  <2>3. PageInv(q)
    BY <1>1, <1>2, <2>2 DEF PageInv
  <2> QED BY <1>3, <2>1, <2>2, <2>3, PageDone
<1>9. CASE TimesOut(t)
  <2> DEFINE q == [p EXCEPT !.waits = 0]
  <2>1. Change(t, q)
    BY <1>1, <1>9 DEF TimesOut
  <2>2. q \in Page /\ PageInv(q)
    BY <1>1, <1>2, ProfilesBounds DEF Page, PageInv
  <2> QED BY <1>3, <2>1, <2>2, PageDone
<1>10. CASE ReloadPage(t)
  <2> DEFINE q == [p EXCEPT !.conflict = FALSE, !.force = TRUE, !.load = "asked", !.got = 0]
  <2>1. Change(t, q)
    BY <1>1, <1>10 DEF ReloadPage
  <2>2. q \in Page /\ PageInv(q)
    BY <1>1, ProfilesBounds DEF Page, PageInv
  <2> QED BY <1>3, <2>1, <2>2, PageDone
<1>11. CASE \E m \in Param : Edit(t, m)
  <2>1. PICK m \in Param : Edit(t, m)
    BY <1>11
  <2> DEFINE q == [p EXCEPT !.model = m]
  <2>2. Change(t, q)
    BY <1>1, <2>1 DEF Edit
  <2>3. q \in Page /\ PageInv(q)
    BY <1>1 DEF Page, PageInv
  <2> QED BY <1>3, <2>2, <2>3, PageDone
<1> QED BY <1>4, <1>5, <1>6, <1>7, <1>8, <1>9, <1>10, <1>11

\* A tab sends a request and waits for its answer.
LEMMA CallKeeps ==
  ASSUME ProfilesInv, NEW t \in Tab, NEW op \in {"save", "activate"}, NEW based \in Number, NEW p \in Page, p = page[t],
         p.based # 0, SendCall(t, op, based), UNCHANGED <<versions, activations>>,
         NEW q \in Page, q.based = p.based, q.base = p.base, q.load = p.load, q.got = p.got, q.waits = Len(calls) + 1,
         Change(t, q)
  PROVE  ProfilesInv'
<1> DEFINE new == [op |-> op, params |-> p.model, based |-> based, at |-> 0,
                   step |-> "sent", result |-> "none", number |-> 0]
<1>1. Len(calls) < MaxCalls /\ calls' = Append(calls, new)
  BY DEF SendCall
<1>2. new \in Call /\ new.at = 0 /\ new.step = "sent" /\ new.result = "none"
  BY ProfilesBounds DEF Call, Page
<1> HIDE DEF new
<1>3. /\ calls' \in Seq(Call) /\ Len(calls) \in Nat /\ Len(calls') = Len(calls) + 1 /\ calls'[Len(calls) + 1] = new
      /\ \A c \in 1..Len(calls) : calls'[c] = calls[c]
  BY <1>1, <1>2 DEF ProfilesInv, ProfilesTypeOK
<1>4. page' = [page EXCEPT ![t] = q] /\ page \in [Tab -> Page]
  BY DEF Change, ProfilesInv, ProfilesTypeOK
<1>5. ProfilesTypeOK' /\ ProfilesKept
  BY <1>3, <1>4, ProfilesEntries DEF ProfilesInv, ProfilesTypeOK, ProfilesKept
<1>6. PageInv(p) /\ Len(versions) # 0
  <2>1. PageInv(p)
    BY DEF ProfilesInv
  <2> QED BY <2>1 DEF PageInv
<1>7. Saved' = Saved /\ Timed' = Timed
  BY <1>2, <1>3 DEF Saved, Timed
<1>8. NumbersInv'
  BY <1>1, <1>2, <1>3, <1>7, CallCounts, ProfilesAssumption DEF ProfilesInv, NumbersInv
<1>9. ActivationsInv'
  BY <1>6 DEF ProfilesInv, ActivationsInv
<1>10. \A c \in 1..Len(calls') : (c \in 1..Len(calls) /\ calls'[c] = calls[c]) \/ CallInv(c)'
  <2>1. PICK newest : newest = Len(calls) + 1
    OBVIOUS
  <2>2. CallInv(newest)'
    BY <1>2, <1>3, <2>1 DEF CallInv
  <2>3. \A c \in 1..Len(calls') : c \in 1..Len(calls) \/ c = newest
    BY <1>3, <2>1
  <2> QED BY <1>3, <2>2, <2>3
<1>11. PageInv(q)'
  BY <1>3, <1>6 DEF PageInv
<1>12. \A u \in Tab : page'[u] = page[u] \/ page'[u] = q
  BY <1>4
<1> QED BY <1>5, <1>8, <1>9, <1>10, <1>11, <1>12, StepDone

LEMMA SaveKeeps ==
  ASSUME ProfilesInv, NEW t \in Tab, Save(t)
  PROVE  ProfilesInv'
<1>1. PICK p \in Page : p = page[t]
  BY ProfilesEntries DEF ProfilesInv
<1>2. PICK n \in Number : n = Len(calls) + 1
  <2>1. Len(calls) \in Nat /\ Len(calls) < MaxCalls
    BY ProfilesEntries DEF ProfilesInv, Save, SendCall
  <2> QED BY <2>1, ProfilesAssumption DEF Number
<1> DEFINE q == [p EXCEPT !.waits = n, !.conflict = FALSE]
<1>3. /\ p.based # 0 /\ SendCall(t, "save", p.based) /\ Change(t, q) /\ UNCHANGED <<versions, activations>>
  BY <1>1, <1>2 DEF Save
<1>4. q \in Page /\ q.based = p.based /\ q.base = p.base /\ q.load = p.load /\ q.got = p.got /\ q.waits = n
  BY DEF Page
<1>5. p.based \in Number
  BY DEF Page
<1> HIDE DEF q
<1> QED BY <1>1, <1>2, <1>3, <1>4, <1>5, CallKeeps

LEMMA ActivateKeeps ==
  ASSUME ProfilesInv, NEW t \in Tab, NEW v \in 1..Len(versions), Activate(t, v)
  PROVE  ProfilesInv'
<1>1. PICK p \in Page : p = page[t]
  BY ProfilesEntries DEF ProfilesInv
<1>2. PICK n \in Number : n = Len(calls) + 1
  <2>1. Len(calls) \in Nat /\ Len(calls) < MaxCalls
    BY ProfilesEntries DEF ProfilesInv, Activate, SendCall
  <2> QED BY <2>1, ProfilesAssumption DEF Number
<1> DEFINE q == [p EXCEPT !.waits = n]
<1>3. /\ p.based # 0 /\ v \in 1..p.based /\ SendCall(t, "activate", v) /\ Change(t, q)
      /\ UNCHANGED <<versions, activations>>
  BY <1>1, <1>2 DEF Activate
<1>4. q \in Page /\ q.based = p.based /\ q.base = p.base /\ q.load = p.load /\ q.got = p.got /\ q.waits = n
  BY DEF Page
<1>5. v \in Number
  <2>1. p.based \in Number /\ v \in 1..p.based
    BY <1>3 DEF Page
  <2> QED BY <2>1, ProfilesAssumption DEF Number
<1> HIDE DEF q
<1> QED BY <1>1, <1>2, <1>3, <1>4, <1>5, CallKeeps

------------------------------------------------------------------------------
LEMMA InitHolds ==
  ASSUME ProfilesInit
  PROVE  ProfilesInv
<1>1. versions = <<>> /\ activations = {} /\ calls = <<>> /\ page = [t \in Tab |-> NewPage]
  BY DEF ProfilesInit
<1>2. Len(versions) = 0 /\ Len(calls) = 0
  BY <1>1
<1>3. NewPage \in Page /\ PageInv(NewPage)
  BY <1>2, NewPageIsPage
<1>4. ProfilesTypeOK
  BY <1>1, <1>3 DEF ProfilesTypeOK
<1>5. NumbersInv
  <2>1. Saved \in SUBSET (1..0)
    BY <1>2 DEF Saved
  <2>2. Cardinality(Saved) \in Nat
    BY <2>1, CountedNumbers
  <2> QED BY <1>1, <1>2, <2>2, ProfilesAssumption DEF NumbersInv
<1>6. ActivationsInv /\ \A c \in 1..Len(calls) : CallInv(c)
  BY <1>1, <1>2 DEF ActivationsInv
<1>7. \A t \in Tab : PageInv(page[t])
  BY <1>1, <1>3
<1> QED BY <1>4, <1>5, <1>6, <1>7 DEF ProfilesInv

LEMMA ProfilesNextKeeps ==
  ASSUME ProfilesInv, [ProfilesNext]_profilesVars
  PROVE  ProfilesInv'
<1>1. DOMAIN versions = 1..Len(versions) /\ DOMAIN calls = 1..Len(calls)
  BY ProfilesEntries DEF ProfilesInv
<1>2. CASE EnsureProfile
  BY <1>2, EnsureProfileKeeps
<1>3. ASSUME NEW c \in 1..Len(calls), SaveCheck(c) \/ SaveWrite(c) \/ ActivateCheck(c) \/ ActivateWrite(c)
      PROVE  ProfilesInv'
  <2>1. CASE SaveWrite(c)
    BY <2>1, SaveWriteKeeps, SaveConflictKeeps DEF SaveWrite
  <2> QED BY <1>3, <2>1, SaveCheckKeeps, ActivateCheckKeeps, ActivateWriteKeeps
<1>4. ASSUME NEW t \in Tab,
             \/ GetProfile(t) \/ Loaded(t) \/ GetFails(t) \/ Discard(t) \/ Save(t)
             \/ Replied(t) \/ TimesOut(t) \/ ReloadPage(t)
             \/ \E p \in Param : Edit(t, p)
             \/ \E n \in 1..Len(versions) : Activate(t, n)
      PROVE  ProfilesInv'
  <2>1. CASE Save(t)
    BY <2>1, SaveKeeps
  <2>2. CASE \E n \in 1..Len(versions) : Activate(t, n)
    BY <2>2, ActivateKeeps
  <2>3. CASE \E p \in Param : Edit(t, p)
    BY <2>3, PageActionKeeps
  <2>4. CASE GetProfile(t) \/ Loaded(t) \/ GetFails(t) \/ Discard(t) \/ Replied(t) \/ TimesOut(t) \/ ReloadPage(t)
    BY <2>4, PageActionKeeps
  <2> QED BY <1>4, <2>1, <2>2, <2>3, <2>4
<1>5. CASE UNCHANGED profilesVars
  <2>1. UNCHANGED <<versions, activations, calls, page>>
    BY <1>5 DEF profilesVars
  <2>2. ProfilesTypeOK'
    BY <2>1 DEF ProfilesInv, ProfilesTypeOK
  <2>3. ProfilesKept
    BY <2>1, ProfilesEntries DEF ProfilesInv, ProfilesKept
  <2>4. NumbersInv'
    <3>1. Saved' = Saved /\ Timed' = Timed
      BY <2>1 DEF Saved, Timed
    <3> QED BY <2>1, <3>1 DEF ProfilesInv, NumbersInv
  <2>5. ActivationsInv'
    BY <2>1 DEF ProfilesInv, ActivationsInv
  <2> QED BY <2>1, <2>2, <2>3, <2>4, <2>5, StepDone
<1> QED BY <1>1, <1>2, <1>3, <1>4, <1>5 DEF ProfilesNext

LEMMA ProfilesInvariant == ProfilesSpec => []ProfilesInv
<1>1. ProfilesInit => ProfilesInv
  BY InitHolds
<1>2. ProfilesInv /\ [ProfilesNext]_profilesVars => ProfilesInv'
  BY ProfilesNextKeeps
<1> QED BY <1>1, <1>2, PTL DEF ProfilesSpec

------------------------------------------------------------------------------
(* Theorems.                                                                *)

\* The variables keep their types: no version, time or request number goes beyond what
\* the requests allow.
THEOREM ProfilesTypes == ProfilesSpec => []ProfilesTypeOK
<1>1. ProfilesInv => ProfilesTypeOK
  BY DEF ProfilesInv
<1> QED BY <1>1, ProfilesInvariant, PTL

\* A save that was answered ok is stored under its number with what was sent, an
\* activation that was answered is there, and an active version exists.
THEOREM AnswersTrue == ProfilesSpec => []AnswersAreTrue
<1>1. ProfilesInv => AnswersAreTrue
  <2> SUFFICES ASSUME ProfilesInv PROVE AnswersAreTrue
    OBVIOUS
  <2>1. DOMAIN versions = 1..Len(versions) /\ DOMAIN calls = 1..Len(calls)
    BY ProfilesEntries DEF ProfilesInv
  <2> QED BY <2>1, ActiveIsVersion DEF AnswersAreTrue, ProfilesInv, CallInv
<1> QED BY <1>1, ProfilesInvariant, PTL

\* The version a tab names when it saves is the one its form started from.
THEOREM FormOfItsVersion == ProfilesSpec => []FormIsOfItsVersion
<1>1. ProfilesInv => FormIsOfItsVersion
  BY ProfilesEntries DEF FormIsOfItsVersion, ProfilesInv, PageInv
<1> QED BY <1>1, ProfilesInvariant, PTL

------------------------------------------------------------------------------
(* The read model.                                                          *)

\* The rows that both writers agree on.
AgreedRows == AllSnapshots \cup AllRuns \cup AllRows

\* What the projection of a snapshot has inserted or found, step by step.
SnapshotFits(f, q) ==
  LET all == {SnapshotRow(f, t) : t \in Symbol} IN
    /\ q.step = "idle" => q.tries < MaxTries
    /\ q.new \subseteq all /\ q.todo \subseteq all
    /\ q.step = "first" => q.todo = all
    /\ q.step = "commit" => all \subseteq web \cup q.new
    /\ q.step = "done" => all \subseteq web
    /\ q.step # "second"

\* The same for those of a scoring: first the rows, then the run.
ScoringFits(k, q) ==
  /\ q.step = "idle" => q.tries < MaxTries
  /\ q.step \in {"first", "second", "commit", "done"} => k \in sent
  /\ q.step = "first" => q.todo = RowsOf(k)
  /\ q.step = "second" => q.todo = {RankingRun(k)}
  /\ \A j \in ScoringId : RankingRun(j) \in q.new => j = k
  /\ q.step \in {"second", "commit"} => RowsOf(k) \subseteq web \cup q.new
  /\ q.step = "commit" => RankingRun(k) \in web \cup q.new
  /\ q.step = "done" => RankingRun(k) \in web

\* The backfill takes the runs first, and behind them all their rows.
BackfillFits(q) ==
  \A j \in 1..Len(scored) :
    /\ q.step = "insert rows" => RankingRun(j) \notin q.todo
    /\ RankingRun(j) \in q.new =>
         /\ q.step = "insert rows" => RowsOf(j) \subseteq web \cup q.new \cup q.todo
         /\ q.step = "commit" => RowsOf(j) \subseteq web \cup q.new

\* What a transaction inserts is true, and not committed by another.
Fits(w, q) ==
  /\ q.todo \subseteq AgreedRows /\ q.new \subseteq AgreedRows /\ q.new \cap web = {}
  /\ \A f \in SnapshotId : w = SnapshotEvent(f) => SnapshotFits(f, q)
  /\ \A k \in ScoringId : w = ScoringEvent(k) => ScoringFits(k, q)
  /\ w = BackfillRun => BackfillFits(q)

\* A run is not there without its rows.
RunsHaveRows == \A k \in 1..Len(scored) : RankingRun(k) \in web => RowsOf(k) \subseteq web

\* The inductive invariant.
ReadModelInv ==
  /\ ReadModelTypeOK
  /\ \A f \in complete, t \in Symbol : <<f, t>> \in saved
  /\ web \subseteq AgreedRows /\ RunsHaveRows
  /\ \A w \in Writer : Fits(w, tx[w])
  /\ \A w \in Writer, u \in Writer : u # w => tx[u].new \cap tx[w].new = {}

\* Rows and writers are told apart by their kinds and their keys.
LEMMA RowsDiffer ==
  /\ \A f, g, t, u : SnapshotRow(f, t) = SnapshotRow(g, u) <=> f = g /\ t = u
  /\ \A k, j : RankingRun(k) = RankingRun(j) <=> k = j
  /\ \A k, j, t, u : RankingRow(k, t) = RankingRow(j, u) <=> k = j /\ t = u
  /\ \A f, t, k : SnapshotRow(f, t) # RankingRun(k)
  /\ \A f, t, k, u : SnapshotRow(f, t) # RankingRow(k, u)
  /\ \A j, k, u : RankingRun(j) # RankingRow(k, u)
BY DEF SnapshotRow, RankingRun, RankingRow

LEMMA WritersDiffer ==
  /\ \A f, g : SnapshotEvent(f) = SnapshotEvent(g) <=> f = g
  /\ \A k, j : ScoringEvent(k) = ScoringEvent(j) <=> k = j
  /\ \A f, k : SnapshotEvent(f) # ScoringEvent(k)
  /\ \A f : SnapshotEvent(f) # BackfillRun
  /\ \A k : ScoringEvent(k) # BackfillRun
  /\ BackfillRun \in Writer /\ Events \subseteq Writer
  /\ \A f \in SnapshotId : SnapshotEvent(f) \in Events
  /\ \A k \in ScoringId : ScoringEvent(k) \in Events
BY DEF SnapshotEvent, ScoringEvent, BackfillRun, Writer, Events

\* The tables.
LEMMA ScoredAre ==
  ASSUME ReadModelTypeOK
  PROVE  /\ Len(scored) \in Nat /\ DOMAIN scored = 1..Len(scored) /\ 1..Len(scored) \subseteq ScoringId
         /\ \A k \in 1..Len(scored) : scored[k].fetch \in complete /\ scored[k].ranked \subseteq Symbol
         /\ \A w \in Writer : tx[w] \in Transaction
<1> DEFINE S == [fetch : complete, ranked : SUBSET Symbol, rated : BOOLEAN]
<1>1. scored \in Seq(S) /\ Len(scored) <= NumScorings /\ NumScorings \in Nat
  BY ReadModelAssumption DEF ReadModelTypeOK
<1>2. \A x \in S : x.fetch \in complete /\ x.ranked \subseteq Symbol
  OBVIOUS
<1>3. tx \in [Writer -> Transaction]
  BY DEF ReadModelTypeOK
<1> HIDE DEF S
<1> QED BY <1>1, <1>2, <1>3 DEF ScoringId

LEMMA RowsAre ==
  ASSUME ReadModelTypeOK
  PROVE  /\ \A f, t : SnapshotRow(f, t) \in AgreedRows <=> <<f, t>> \in saved
         /\ \A k : RankingRun(k) \in AgreedRows <=> k \in 1..Len(scored)
         /\ \A k, t : RankingRow(k, t) \in AgreedRows <=> k \in 1..Len(scored) /\ t \in scored[k].ranked
         /\ \A k \in 1..Len(scored) : RowsOf(k) \subseteq AgreedRows
         /\ \A k : RankingRun(k) \notin AllRows
<1>1. DOMAIN scored = 1..Len(scored)
  BY ScoredAre
<1>2. \A s \in saved : s = <<s[1], s[2]>>
  BY DEF ReadModelTypeOK
<1>3. AllSnapshots = {SnapshotRow(s[1], s[2]) : s \in saved}
  BY DEF AllSnapshots
<1>4. \A f, t : SnapshotRow(f, t) \in AllSnapshots <=> <<f, t>> \in saved
  <2>1. TAKE f, t
  <2>2. ASSUME <<f, t>> \in saved PROVE SnapshotRow(f, t) \in AllSnapshots
    <3>1. PICK s \in saved : s = <<f, t>>
      BY <2>2
    <3>2. s[1] = f /\ s[2] = t
      BY <3>1
    <3> QED BY <1>3, <3>1, <3>2
  <2>3. ASSUME SnapshotRow(f, t) \in AllSnapshots PROVE <<f, t>> \in saved
    <3>1. PICK s \in saved : SnapshotRow(f, t) = SnapshotRow(s[1], s[2])
      BY <1>3, <2>3
    <3> QED BY <1>2, <3>1, RowsDiffer
  <2> QED BY <2>2, <2>3
<1>5. \A k : RankingRun(k) \in AllRuns <=> k \in 1..Len(scored)
  BY <1>1, RowsDiffer DEF AllRuns
<1>6. \A k, t : RankingRow(k, t) \in AllRows <=> k \in 1..Len(scored) /\ t \in scored[k].ranked
  BY <1>1, RowsDiffer DEF AllRows, RowsOf
<1>7. \A f, t, k : SnapshotRow(f, t) \notin AllRuns /\ SnapshotRow(f, t) \notin AllRows
  BY RowsDiffer DEF AllRuns, AllRows, RowsOf
<1>8. \A k : RankingRun(k) \notin AllSnapshots /\ RankingRun(k) \notin AllRows
  BY RowsDiffer DEF AllSnapshots, AllRows, RowsOf
<1>9. \A k, t : RankingRow(k, t) \notin AllSnapshots /\ RankingRow(k, t) \notin AllRuns
  BY RowsDiffer DEF AllSnapshots, AllRuns
<1>10. \A k \in 1..Len(scored) : RowsOf(k) \subseteq AgreedRows
  BY <1>1 DEF AgreedRows, AllRows
<1> QED BY <1>4, <1>5, <1>6, <1>7, <1>8, <1>9, <1>10 DEF AgreedRows

\* The tables only grow.
Grows ==
  /\ saved \subseteq saved' /\ sent \subseteq sent' /\ complete \subseteq complete' /\ web \subseteq web'
  /\ Len(scored) <= Len(scored') /\ \A k \in 1..Len(scored) : scored'[k] = scored[k]

LEMMA RowsStay ==
  ASSUME ReadModelTypeOK, ReadModelTypeOK', Grows
  PROVE  /\ AgreedRows \subseteq AgreedRows'
         /\ \A k \in 1..Len(scored) : RowsOf(k)' = RowsOf(k)
         /\ \A k \in 1..Len(scored') : RankingRun(k) \in AgreedRows => k \in 1..Len(scored)
         /\ 1..Len(scored) \subseteq 1..Len(scored')
<1>1. DOMAIN scored = 1..Len(scored) /\ Len(scored) \in Nat
  BY ScoredAre
<1>2. DOMAIN scored' = 1..Len(scored') /\ Len(scored') \in Nat
  BY DEF ReadModelTypeOK
<1>3. 1..Len(scored) \subseteq 1..Len(scored')
  BY <1>1, <1>2 DEF Grows
<1>4. \A k \in 1..Len(scored) : RowsOf(k)' = RowsOf(k)
  BY DEF Grows, RowsOf
<1>5. AllSnapshots \subseteq AllSnapshots'
  BY DEF Grows, AllSnapshots
<1>6. AllRuns \subseteq AllRuns'
  BY <1>1, <1>2, <1>3 DEF AllRuns
<1>7. AllRows \subseteq AllRows'
  BY <1>1, <1>2, <1>3, <1>4 DEF AllRows
<1>8. \A k : RankingRun(k) \in AgreedRows => k \in 1..Len(scored)
  BY RowsAre
<1> QED BY <1>3, <1>4, <1>5, <1>6, <1>7, <1>8 DEF AgreedRows

\* A transaction that does nothing still fits, whatever else is written.
LEMMA FitsStays ==
  ASSUME ReadModelTypeOK, ReadModelTypeOK', Grows, NEW w, NEW q, Fits(w, q), q.new \cap web' = {}
  PROVE  Fits(w, q)'
<1>1. q.todo \subseteq AgreedRows' /\ q.new \subseteq AgreedRows' /\ q.new \subseteq AgreedRows
  BY RowsStay DEF Fits
<1>2. \A f \in SnapshotId : w = SnapshotEvent(f) => SnapshotFits(f, q)'
  BY DEF Fits, SnapshotFits, Grows
<1>3. ASSUME NEW k \in ScoringId, w = ScoringEvent(k) PROVE ScoringFits(k, q)'
  <2>1. ScoringFits(k, q)
    BY <1>3 DEF Fits
  <2>2. k \in sent => k \in 1..Len(scored)
    BY ScoredAre DEF ReadModelTypeOK
  <2>3. k \in sent => RowsOf(k)' = RowsOf(k)
    BY <2>2, RowsStay
  <2> QED BY <2>1, <2>3 DEF ScoringFits, Grows
<1>4. ASSUME w = BackfillRun PROVE BackfillFits(q)'
  <2>1. BackfillFits(q)
    BY <1>4 DEF Fits
  <2>2. ASSUME NEW j \in 1..Len(scored'), RankingRun(j) \in q.new
        PROVE  /\ q.step = "insert rows" => RowsOf(j)' \subseteq web' \cup q.new \cup q.todo
               /\ q.step = "commit" => RowsOf(j)' \subseteq web' \cup q.new
    <3>1. j \in 1..Len(scored)
      BY <1>1, <2>2, RowsStay
    <3>2. RowsOf(j)' = RowsOf(j)
      BY <3>1, RowsStay
    <3> QED BY <2>1, <2>2, <3>1, <3>2 DEF BackfillFits, Grows
  <2>3. ASSUME NEW j \in 1..Len(scored'), q.step = "insert rows" PROVE RankingRun(j) \notin q.todo
    <3>1. q.todo \subseteq AgreedRows
      BY DEF Fits
    <3>2. RankingRun(j) \in q.todo => j \in 1..Len(scored)
      BY <3>1, RowsStay
    <3> QED BY <2>1, <2>3, <3>2 DEF BackfillFits
  <2> QED BY <2>2, <2>3 DEF BackfillFits
<1> QED BY <1>1, <1>2, <1>3, <1>4 DEF Fits

\* Runs that are there have their rows, also when there are more scorings.
LEMMA RunsStay ==
  ASSUME ReadModelInv, ReadModelTypeOK', Grows, UNCHANGED web
  PROVE  RunsHaveRows' /\ web' \subseteq AgreedRows'
<1>1. ReadModelTypeOK /\ web \subseteq AgreedRows
  BY DEF ReadModelInv
<1>2. \A k \in 1..Len(scored') : RankingRun(k) \in web => k \in 1..Len(scored) /\ RowsOf(k)' = RowsOf(k)
  BY <1>1, RowsStay
<1>3. web' \subseteq AgreedRows'
  BY <1>1, RowsStay
<1> QED BY <1>2, <1>3 DEF RunsHaveRows, ReadModelInv

\* market-data and scoring write.
LEMMA TablesGrow ==
  ASSUME ReadModelInv, ReadModelTypeOK', Grows, UNCHANGED <<web, tx>>,
         \A f \in complete', t \in Symbol : <<f, t>> \in saved'
  PROVE  ReadModelInv'
<1>1. \A w \in Writer : Fits(w, tx[w])'
  <2>1. TAKE w \in Writer
  <2>2. PICK q : q = tx[w]
    OBVIOUS
  <2>3. Fits(w, q)
    BY <2>2 DEF ReadModelInv
  <2>4. q.new \cap web' = {}
    BY <2>3 DEF Fits
  <2>5. Fits(w, q)'
    BY <2>3, <2>4, FitsStays DEF ReadModelInv
  <2>6. q = tx'[w]
    BY <2>2
  <2> QED BY <2>5, <2>6 DEF Fits, SnapshotFits, ScoringFits, BackfillFits
<1>2. \A w \in Writer, u \in Writer : u # w => tx'[u].new \cap tx'[w].new = {}
  BY DEF ReadModelInv
<1> QED BY <1>1, <1>2, RunsStay DEF ReadModelInv

\* A transaction goes from q to new.
Writes(w, q, new) ==
  /\ q = tx[w] /\ tx' = [tx EXCEPT ![w] = new]
  /\ UNCHANGED <<saved, complete, scored, sent>> /\ starts' \in 0..NumBackfills

LEMMA Written ==
  ASSUME ReadModelTypeOK, NEW w \in Writer, NEW q, NEW new \in Transaction, Writes(w, q, new)
  PROVE  /\ tx' \in [Writer -> Transaction] /\ tx'[w] = new /\ tx[w] = q
         /\ \A u \in Writer : u # w => tx'[u] = tx[u]
BY DEF Writes, ReadModelTypeOK

\* The transactions fit when the one that moves does.
LEMMA OthersFit ==
  ASSUME ReadModelInv, ReadModelTypeOK', Grows, NEW w \in Writer, NEW q, NEW new \in Transaction, Writes(w, q, new),
         Fits(w, new)', \A u \in Writer : u # w => tx[u].new \cap web' = {}
  PROVE  \A u \in Writer : Fits(u, tx[u])'
<1>1. TAKE u \in Writer
<1>2. PICK x : x = tx'[u]
  OBVIOUS
<1>3. Fits(u, x)'
  <2>1. CASE u = w
    BY <1>2, <2>1, Written DEF ReadModelInv
  <2>2. CASE u # w
    <3>1. x = tx[u] /\ Fits(u, x)
      BY <1>2, <2>2, Written DEF ReadModelInv
    <3>2. x.new \cap web' = {}
      BY <2>2, <3>1
    <3> QED BY <3>1, <3>2, FitsStays DEF ReadModelInv
  <2> QED BY <2>1, <2>2
<1> QED BY <1>2, <1>3 DEF Fits, SnapshotFits, ScoringFits, BackfillFits

\* A step of a transaction that does not commit.
LEMMA Works ==
  ASSUME ReadModelInv, NEW w \in Writer, NEW q, NEW new \in Transaction, Writes(w, q, new), UNCHANGED web,
         Fits(w, new), \A u \in Writer : u # w => tx[u].new \cap new.new = {}
  PROVE  ReadModelInv'
<1>1. tx' \in [Writer -> Transaction] /\ tx'[w] = new /\ \A u \in Writer : u # w => tx'[u] = tx[u]
  BY Written DEF ReadModelInv
<1>2. ReadModelTypeOK'
  BY <1>1 DEF ReadModelInv, ReadModelTypeOK, Writes, Fits
<1>3. Grows
  BY ScoredAre DEF Grows, Writes, ReadModelInv
<1>4. Fits(w, new)'
  BY <1>2, <1>3, FitsStays DEF Fits, ReadModelInv
<1>5. \A u \in Writer : u # w => tx[u].new \cap web' = {}
  BY DEF ReadModelInv, Fits
<1>6. \A u \in Writer : Fits(u, tx[u])'
  BY <1>2, <1>3, <1>4, <1>5, OthersFit
<1>7. \A v \in Writer, u \in Writer : u # v => tx'[u].new \cap tx'[v].new = {}
  BY <1>1 DEF ReadModelInv
<1>8. \A f \in complete', t \in Symbol : <<f, t>> \in saved'
  BY DEF ReadModelInv, Writes
<1> QED BY <1>2, <1>3, <1>6, <1>7, <1>8, RunsStay DEF ReadModelInv

\* A commit: what was inserted is there, with the rows of each run.
LEMMA Commits ==
  ASSUME ReadModelInv, NEW w \in Writer, NEW q, NEW new \in Transaction, Writes(w, q, new), web' = web \cup q.new,
         new.new = {}, new.todo = {}, \A k \in 1..Len(scored) : RankingRun(k) \in q.new => RowsOf(k) \subseteq web \cup q.new,
         Fits(w, new)'
  PROVE  ReadModelInv'
<1>1. tx' \in [Writer -> Transaction] /\ tx'[w] = new /\ tx[w] = q /\ \A u \in Writer : u # w => tx'[u] = tx[u]
  BY Written DEF ReadModelInv
<1>2. \A u \in Writer : u # w => tx[u].new \cap web' = {}
  BY <1>1 DEF ReadModelInv, Fits
<1>3. ReadModelTypeOK'
  <2>1. q \in Transaction /\ web \subseteq WebRow
    BY <1>1 DEF ReadModelInv, ReadModelTypeOK
  <2>2. web' \subseteq WebRow
    BY <2>1 DEF Transaction
  <2>3. \A u \in Writer : tx'[u].new \cap web' = {}
    BY <1>1, <1>2
  <2> QED BY <1>1, <2>2, <2>3 DEF ReadModelInv, ReadModelTypeOK, Writes
<1>4. Grows
  BY ScoredAre DEF Grows, Writes, ReadModelInv
<1>5. \A u \in Writer : Fits(u, tx[u])'
  BY <1>2, <1>3, <1>4, OthersFit
<1>6. \A v \in Writer, u \in Writer : u # v => tx'[u].new \cap tx'[v].new = {}
  BY <1>1 DEF ReadModelInv
<1>7. \A f \in complete', t \in Symbol : <<f, t>> \in saved'
  BY DEF ReadModelInv, Writes
<1>8. web' \subseteq AgreedRows'
  <2>1. q.new \subseteq AgreedRows /\ web \subseteq AgreedRows
    BY <1>1 DEF ReadModelInv, Fits
  <2> QED BY <1>3, <1>4, <2>1, RowsStay DEF ReadModelInv
<1>9. RunsHaveRows'
  <2>1. scored' = scored
    BY DEF Writes
  <2>2. \A k \in 1..Len(scored) : RowsOf(k)' = RowsOf(k)
    BY <2>1 DEF RowsOf
  <2>3. \A k \in 1..Len(scored) : RankingRun(k) \in web' => RowsOf(k) \subseteq web'
    BY DEF ReadModelInv, RunsHaveRows
  <2> QED BY <2>1, <2>2, <2>3 DEF RunsHaveRows
<1> QED BY <1>3, <1>5, <1>6, <1>7, <1>8, <1>9 DEF ReadModelInv

\* What they write are rows.
LEMMA RowsAreTyped ==
  ASSUME ReadModelInv
  PROVE  /\ AgreedRows \subseteq WebRow
         /\ \A f \in complete : {SnapshotRow(f, t) : t \in Symbol} \subseteq AgreedRows
         /\ \A k \in sent : k \in 1..Len(scored) /\ RowsOf(k) \subseteq AgreedRows /\ {RankingRun(k)} \subseteq AgreedRows
<1>1. ReadModelTypeOK
  BY DEF ReadModelInv
<1>2. AllSnapshots \subseteq WebRow
  <2>1. \A s \in saved : s[1] \in SnapshotId /\ s[2] \in Symbol
    BY <1>1 DEF ReadModelTypeOK
  <2> QED BY <2>1 DEF AllSnapshots, WebRow
<1>3. AllRuns \subseteq WebRow
  BY <1>1, ScoredAre DEF AllRuns, WebRow
<1>4. AllRows \subseteq WebRow
  BY <1>1, ScoredAre DEF AllRows, RowsOf, WebRow
<1>5. \A f \in complete : {SnapshotRow(f, t) : t \in Symbol} \subseteq AgreedRows
  BY <1>1, RowsAre DEF ReadModelInv
<1>6. \A k \in sent : k \in 1..Len(scored)
  BY <1>1, ScoredAre DEF ReadModelTypeOK
<1> QED BY <1>1, <1>2, <1>3, <1>4, <1>5, <1>6, RowsAre DEF AgreedRows

\* The transaction of a writer.
LEMMA TransactionIs ==
  ASSUME ReadModelInv, NEW w \in Writer
  PROVE  \E q \in Transaction : q = tx[w] /\ Fits(w, q) /\ q.new \cap web = {}
<1>1. tx[w] \in Transaction
  BY ScoredAre DEF ReadModelInv
<1>2. PICK q \in Transaction : q = tx[w]
  BY <1>1
<1> QED BY <1>2 DEF ReadModelInv, Fits

\* It may go on without a commit.
MayWrite(w, q, new) ==
  /\ Writes(w, q, new) /\ UNCHANGED web
  /\ new.todo \subseteq AgreedRows /\ new.new \subseteq AgreedRows /\ new.new \cap web = {}
  /\ \A u \in Writer : u # w => tx[u].new \cap new.new = {}

LEMMA Inserts ==
  ASSUME ReadModelInv, NEW w \in Writer, NEW next, NEW todo, NEW q \in Transaction, q = tx[w], Insert(w, next, todo),
         next \in {"commit", "second", "runs", "rows"}, todo \subseteq AgreedRows
  PROVE  \E new \in Transaction :
           /\ new.step = next /\ new.todo = todo /\ new.tries = q.tries /\ new.new = q.new \cup (q.todo \ web)
           /\ MayWrite(w, q, new)
<1> DEFINE new == [q EXCEPT !.step = next, !.todo = todo, !.new = @ \cup (q.todo \ web)]
<1>1. todo \subseteq WebRow
  BY RowsAreTyped
<1>2. new \in Transaction
  BY <1>1 DEF Transaction
<1>3. new.step = next /\ new.todo = todo /\ new.tries = q.tries /\ new.new = q.new \cup (q.todo \ web)
  BY DEF Transaction
<1>4. Fits(w, q) /\ q.new \cap web = {}
  BY DEF ReadModelInv, Fits
<1>5. Writes(w, q, new) /\ UNCHANGED web
  <2>1. starts' \in 0..NumBackfills
    BY DEF Insert, ReadModelInv, ReadModelTypeOK
  <2> QED BY <2>1 DEF Insert, Work, Writes
<1> HIDE DEF new
<1>6. new.new \subseteq AgreedRows /\ new.new \cap web = {}
  BY <1>3, <1>4 DEF Fits
<1>7. \A u \in Writer : u # w => tx[u].new \cap new.new = {}
  <2>1. \A u \in Writer : u # w => q.todo \cap tx[u].new = {}
    BY DEF Insert, WaitsFor
  <2>2. \A u \in Writer : u # w => tx[u].new \cap q.new = {}
    BY DEF ReadModelInv
  <2> QED BY <1>3, <2>1, <2>2
<1> QED BY <1>1, <1>2, <1>3, <1>5, <1>6, <1>7, RowsAreTyped DEF MayWrite

\* An empty transaction fits at most beginnings.
LEMMA EmptyFits ==
  ASSUME ReadModelInv, NEW w \in Writer, NEW new \in Transaction, new.todo = {}, new.new = {},
         new.step \in {"idle", "dead", "snapshots"}, new.step = "idle" => new.tries < MaxTries
  PROVE  Fits(w, new)
BY DEF Fits, SnapshotFits, ScoringFits, BackfillFits

LEMMA RollBackKeeps ==
  ASSUME ReadModelInv, NEW w \in Writer, RollBack(w)
  PROVE  ReadModelInv'
<1>1. PICK q \in Transaction : q = tx[w]
  BY TransactionIs
<1>2. \E new \in Transaction : /\ tx' = [tx EXCEPT ![w] = new] /\ new.todo = {} /\ new.new = {}
                               /\ new.step = "dead" \/ (new.step = "idle" /\ new.tries < MaxTries)
  <2>1. CASE w = BackfillRun
    <3>1. Unbegun \in Transaction /\ Unbegun.tries < MaxTries
      <4>1. 0 \in 0..MaxTries /\ 0 < MaxTries
        BY ReadModelAssumption
      <4> QED BY <4>1 DEF Unbegun, Transaction
    <3> QED BY <2>1, <3>1 DEF RollBack, Work, Unbegun
  <2>2. CASE w # BackfillRun
    <3> DEFINE new == [Unbegun EXCEPT !.step = IF q.tries < MaxTries THEN "idle" ELSE "dead", !.tries = q.tries]
    <3>1. /\ new \in Transaction /\ new.todo = {} /\ new.new = {} /\ new.tries = q.tries
          /\ new.step = IF q.tries < MaxTries THEN "idle" ELSE "dead"
      BY DEF Transaction, Unbegun
    <3>2. tx' = [tx EXCEPT ![w] = new]
      BY <1>1, <2>2 DEF RollBack, Work
    <3> HIDE DEF new
    <3> QED BY <3>1, <3>2
  <2> QED BY <2>1, <2>2
<1>3. PICK new \in Transaction : /\ tx' = [tx EXCEPT ![w] = new] /\ new.todo = {} /\ new.new = {}
                                 /\ new.step = "dead" \/ (new.step = "idle" /\ new.tries < MaxTries)
  BY <1>2
<1>4. Writes(w, q, new) /\ UNCHANGED web
  BY <1>1, <1>3 DEF RollBack, Work, Writes, ReadModelInv, ReadModelTypeOK
<1>5. Fits(w, new) /\ \A u \in Writer : u # w => tx[u].new \cap new.new = {}
  BY <1>3, EmptyFits
<1> QED BY <1>4, <1>5, Works

\* An event is delivered.
LEMMA Delivered ==
  ASSUME ReadModelInv, NEW w \in Writer, NEW first, NEW q \in Transaction, q = tx[w], Deliver(w, first),
         first \subseteq AgreedRows, q.tries < MaxTries
  PROVE  \E new \in Transaction :
           /\ new.step = "first" /\ new.todo = first /\ new.new = q.new
           /\ MayWrite(w, q, new)
<1> DEFINE new == [q EXCEPT !.step = "first", !.todo = first, !.tries = @ + 1]
<1>1. first \subseteq WebRow
  BY RowsAreTyped
<1>2. q.tries + 1 \in 0..MaxTries
  <2>1. q.tries \in 0..MaxTries /\ MaxTries \in Nat
    BY ReadModelAssumption DEF Transaction
  <2> QED BY <2>1
<1>3. new \in Transaction
  BY <1>1, <1>2 DEF Transaction
<1>4. new.step = "first" /\ new.todo = first /\ new.new = q.new
  BY DEF Transaction
<1>5. Writes(w, q, new) /\ UNCHANGED web
  BY DEF Deliver, Work, Writes, ReadModelInv, ReadModelTypeOK
<1> HIDE DEF new
<1>6. Fits(w, q) /\ \A u \in Writer : u # w => tx[u].new \cap q.new = {}
  BY DEF ReadModelInv
<1> QED BY <1>3, <1>4, <1>5, <1>6 DEF Fits, MayWrite

\* The projection of a snapshot.
LEMMA ProjectSnapshotKeeps ==
  ASSUME ReadModelInv, NEW f \in SnapshotId, ProjectSnapshot(f)
  PROVE  ReadModelInv'
<1> DEFINE all == {SnapshotRow(f, t) : t \in Symbol}
<1>1. PICK w \in Writer : w = SnapshotEvent(f)
  BY WritersDiffer
<1>2. PICK q \in Transaction : q = tx[w] /\ Fits(w, q)
  BY TransactionIs
<1>3. SnapshotFits(f, q)
  BY <1>1, <1>2 DEF Fits
<1>4. /\ \A g \in SnapshotId : w = SnapshotEvent(g) => g = f
      /\ \A k \in ScoringId : w # ScoringEvent(k)
      /\ w # BackfillRun
  BY <1>1, WritersDiffer
<1>5. CASE f \in complete /\ Deliver(w, all)
  <2>1. q.tries < MaxTries /\ all \subseteq AgreedRows
    BY <1>2, <1>3, <1>5, RowsAreTyped DEF Deliver, SnapshotFits
  <2> HIDE DEF all
  <2>2. PICK new \in Transaction :
           /\ new.step = "first" /\ new.todo = all /\ new.new = q.new
           /\ MayWrite(w, q, new)
    BY <1>2, <1>5, <2>1, Delivered
  <2>3. SnapshotFits(f, new)
    BY <1>3, <2>2 DEF SnapshotFits, all
  <2> QED BY <1>4, <2>2, <2>3, Works DEF Fits, MayWrite
<1>6. CASE q.step = "first" /\ Insert(w, "commit", {})
  <2>1. PICK new \in Transaction :
           /\ new.step = "commit" /\ new.todo = {} /\ new.new = q.new \cup (q.todo \ web)
           /\ MayWrite(w, q, new)
    BY <1>2, <1>6, Inserts
  <2>2. SnapshotFits(f, new)
    BY <1>3, <1>6, <2>1 DEF SnapshotFits
  <2> QED BY <1>4, <2>1, <2>2, Works DEF Fits, MayWrite
<1> QED BY <1>1, <1>2, <1>5, <1>6 DEF ProjectSnapshot

LEMMA ProjectScoringKeeps ==
  ASSUME ReadModelInv, NEW k \in ScoringId, ProjectScoring(k)
  PROVE  ReadModelInv'
<1>1. PICK w \in Writer : w = ScoringEvent(k)
  BY WritersDiffer
<1>2. PICK q \in Transaction : q = tx[w] /\ Fits(w, q)
  BY TransactionIs
<1>3. ScoringFits(k, q)
  BY <1>1, <1>2 DEF Fits
<1>4. /\ \A j \in ScoringId : w = ScoringEvent(j) => j = k
      /\ \A f \in SnapshotId : w # SnapshotEvent(f)
      /\ w # BackfillRun
  BY <1>1, WritersDiffer
<1>5. CASE k \in sent /\ Deliver(w, RowsOf(k))
  <2>1. q.tries < MaxTries /\ RowsOf(k) \subseteq AgreedRows
    BY <1>2, <1>3, <1>5, RowsAreTyped DEF Deliver, ScoringFits
  <2>2. PICK new \in Transaction :
           /\ new.step = "first" /\ new.todo = RowsOf(k) /\ new.new = q.new
           /\ MayWrite(w, q, new)
    BY <1>2, <1>5, <2>1, Delivered
  <2>3. ScoringFits(k, new)
    BY <1>3, <1>5, <2>2 DEF ScoringFits
  <2> QED BY <1>4, <2>2, <2>3, Works DEF Fits, MayWrite
<1>6. CASE q.step = "first" /\ Insert(w, "second", {RankingRun(k)})
  <2>1. k \in sent /\ q.todo = RowsOf(k)
    BY <1>3, <1>6 DEF ScoringFits
  <2>2. {RankingRun(k)} \subseteq AgreedRows
    BY <2>1, RowsAreTyped
  <2>3. PICK new \in Transaction :
           /\ new.step = "second" /\ new.todo = {RankingRun(k)} /\ new.new = q.new \cup (q.todo \ web)
           /\ MayWrite(w, q, new)
    BY <1>2, <1>6, <2>2, Inserts
  <2>4. \A j : RankingRun(j) \notin RowsOf(k)
    BY RowsDiffer DEF RowsOf
  <2>5. ScoringFits(k, new)
    BY <1>3, <2>1, <2>3, <2>4 DEF ScoringFits
  <2> QED BY <1>4, <2>3, <2>5, Works DEF Fits, MayWrite
<1>7. CASE q.step = "second" /\ Insert(w, "commit", {})
  <2>1. PICK new \in Transaction :
           /\ new.step = "commit" /\ new.todo = {} /\ new.new = q.new \cup (q.todo \ web)
           /\ MayWrite(w, q, new)
    BY <1>2, <1>7, Inserts
  <2>2. k \in sent /\ q.todo = {RankingRun(k)} /\ RowsOf(k) \subseteq web \cup q.new
    BY <1>3, <1>7 DEF ScoringFits
  <2>3. \A j : RankingRun(j) \in q.todo => j = k
    BY <2>2, RowsDiffer
  <2>4. ScoringFits(k, new)
    BY <1>3, <2>1, <2>2, <2>3 DEF ScoringFits
  <2> QED BY <1>4, <2>1, <2>4, Works DEF Fits, MayWrite
<1> QED BY <1>1, <1>2, <1>5, <1>6, <1>7 DEF ProjectScoring

\* Both commit in the same way.
LEMMA CommitWebIs ==
  ASSUME ReadModelInv, NEW w \in Writer, NEW step \in {"idle", "done"}, NEW q \in Transaction, q = tx[w], CommitWeb(w, step)
  PROVE  \E new \in Transaction :
           /\ new.step = step /\ new.todo = {} /\ new.new = {} /\ new.tries = q.tries
           /\ Writes(w, q, new) /\ web' = web \cup q.new
<1> DEFINE new == [q EXCEPT !.step = step, !.todo = {}, !.new = {}]
<1>1. new \in Transaction /\ new.step = step /\ new.todo = {} /\ new.new = {} /\ new.tries = q.tries
  BY DEF Transaction
<1>2. Writes(w, q, new) /\ web' = web \cup q.new
  BY DEF CommitWeb, Work, Writes, ReadModelInv, ReadModelTypeOK
<1> QED BY <1>1, <1>2

LEMMA ProjectedKeeps ==
  ASSUME ReadModelInv, NEW e \in Events, Projected(e)
  PROVE  ReadModelInv'
<1>1. e \in Writer /\ CommitWeb(e, "done")
  BY WritersDiffer DEF Projected
<1>2. PICK q \in Transaction : q = tx[e] /\ Fits(e, q) /\ q.step = "commit"
  BY <1>1, TransactionIs DEF Projected
<1>3. PICK new \in Transaction :
           /\ new.step = "done" /\ new.todo = {} /\ new.new = {} /\ new.tries = q.tries
           /\ Writes(e, q, new) /\ web' = web \cup q.new
  BY <1>1, <1>2, CommitWebIs
<1>4. UNCHANGED <<saved, complete, scored, sent>>
  BY <1>3 DEF Writes
<1>5. CASE \E f \in SnapshotId : e = SnapshotEvent(f)
  <2>1. PICK f \in SnapshotId : e = SnapshotEvent(f)
    BY <1>5
  <2>2. /\ \A g \in SnapshotId : e = SnapshotEvent(g) => g = f
        /\ \A k \in ScoringId : e # ScoringEvent(k)
        /\ e # BackfillRun
    BY <2>1, WritersDiffer
  <2>3. SnapshotFits(f, q)
    BY <1>2, <2>1 DEF Fits
  <2>4. SnapshotFits(f, new)'
    BY <1>2, <1>3, <2>3 DEF SnapshotFits
  <2>5. \A k : RankingRun(k) \notin q.new
    BY <2>3, RowsDiffer DEF SnapshotFits
  <2>6. Fits(e, new)'
    BY <1>3, <2>2, <2>4 DEF Fits
  <2> QED BY <1>1, <1>3, <2>5, <2>6, Commits
<1>6. CASE \E k \in ScoringId : e = ScoringEvent(k)
  <2>1. PICK k \in ScoringId : e = ScoringEvent(k)
    BY <1>6
  <2>2. /\ \A j \in ScoringId : e = ScoringEvent(j) => j = k
        /\ \A f \in SnapshotId : e # SnapshotEvent(f)
        /\ e # BackfillRun
    BY <2>1, WritersDiffer
  <2>3. ScoringFits(k, q)
    BY <1>2, <2>1 DEF Fits
  <2>4. ScoringFits(k, new)'
    BY <1>2, <1>3, <1>4, <2>3 DEF ScoringFits
  <2>5. \A j \in 1..Len(scored) : RankingRun(j) \in q.new => RowsOf(j) \subseteq web \cup q.new
    <3>1. 1..Len(scored) \subseteq ScoringId
      BY ScoredAre DEF ReadModelInv
    <3> QED BY <1>2, <2>3, <3>1 DEF ScoringFits
  <2>6. Fits(e, new)'
    BY <1>3, <2>2, <2>4 DEF Fits
  <2> QED BY <1>1, <1>3, <2>5, <2>6, Commits
<1> QED BY <1>5, <1>6 DEF Events

\* The backfill.
LEMMA BackfillFitsIs ==
  ASSUME NEW q, Fits(BackfillRun, q)
  PROVE  BackfillFits(q)
BY DEF Fits

LEMMA FitsBackfill ==
  ASSUME NEW new, new.todo \subseteq AgreedRows, new.new \subseteq AgreedRows, new.new \cap web = {}, BackfillFits(new)
  PROVE  Fits(BackfillRun, new)
BY WritersDiffer DEF Fits

LEMMA StartBackfillKeeps ==
  ASSUME ReadModelInv, StartBackfill
  PROVE  ReadModelInv'
<1>1. PICK w \in Writer : w = BackfillRun
  BY WritersDiffer
<1> DEFINE new == [Unbegun EXCEPT !.step = "snapshots"]
<1>2. new \in Transaction /\ new.step = "snapshots" /\ new.todo = {} /\ new.new = {}
  <2>1. 0 \in 0..MaxTries
    BY ReadModelAssumption
  <2> QED BY <2>1 DEF Transaction, Unbegun
<1>3. PICK q : q = tx[w]
  OBVIOUS
<1>4. starts' \in 0..NumBackfills
  BY ReadModelAssumption DEF StartBackfill, ReadModelInv, ReadModelTypeOK
<1>5. Writes(w, q, new) /\ UNCHANGED web
  BY <1>1, <1>3, <1>4 DEF StartBackfill, Work, Writes
<1> HIDE DEF new
<1>6. Fits(w, new) /\ \A u \in Writer : u # w => tx[u].new \cap new.new = {}
  BY <1>2, EmptyFits
<1> QED BY <1>2, <1>5, <1>6, Works

LEMMA QueryKeeps ==
  ASSUME ReadModelInv, NEW step, NEW rows, NEW next \in {"insert snapshots", "insert runs", "insert rows"},
         Query(step, rows, next), rows \subseteq AgreedRows, next = "insert rows" => rows = AllRows
  PROVE  ReadModelInv'
<1>1. PICK w \in Writer : w = BackfillRun
  BY WritersDiffer
<1>2. PICK q \in Transaction : q = tx[w] /\ Fits(w, q)
  BY TransactionIs
<1> DEFINE new == [q EXCEPT !.step = next, !.todo = rows \ (web \cup q.new)]
<1>3. new \in Transaction /\ new.step = next /\ new.todo = rows \ (web \cup q.new) /\ new.new = q.new
  BY RowsAreTyped DEF Transaction
<1>4. Writes(w, q, new) /\ UNCHANGED web
  BY <1>1, <1>2 DEF Query, Work, Writes, ReadModelInv, ReadModelTypeOK
<1> HIDE DEF new
<1>5. BackfillFits(new)
  <2>1. ASSUME next = "insert rows", NEW j \in 1..Len(scored)
        PROVE  RankingRun(j) \notin new.todo /\ RowsOf(j) \subseteq web \cup new.new \cup new.todo
    <3>1. DOMAIN scored = 1..Len(scored)
      BY ScoredAre DEF ReadModelInv
    <3>2. RankingRun(j) \notin AllRows
      BY RowsAre DEF ReadModelInv
    <3>3. RowsOf(j) \subseteq AllRows
      BY <2>1, <3>1 DEF AllRows
    <3> QED BY <1>3, <2>1, <3>2, <3>3
  <2> QED BY <1>3, <2>1 DEF BackfillFits
<1>6. Fits(w, new)
  BY <1>1, <1>2, <1>3, <1>5, FitsBackfill DEF Fits
<1>7. \A u \in Writer : u # w => tx[u].new \cap new.new = {}
  BY <1>2, <1>3 DEF ReadModelInv
<1> QED BY <1>3, <1>4, <1>6, <1>7, Works

LEMMA InsertedKeeps ==
  ASSUME ReadModelInv, NEW q \in Transaction, q = tx[BackfillRun], NEW new \in Transaction,
         new.todo = {}, new.new = q.new \cup (q.todo \ web), MayWrite(BackfillRun, q, new),
         new.step = "commit" => q.step = "insert rows", new.step # "insert rows"
  PROVE  ReadModelInv'
<1>1. PICK w \in Writer : w = BackfillRun
  BY WritersDiffer
<1>2. Fits(w, q)
  BY <1>1 DEF ReadModelInv
<1>3. BackfillFits(q)
  BY <1>1, <1>2, BackfillFitsIs
<1>4. BackfillFits(new)
  BY <1>3 DEF BackfillFits
<1>5. Fits(w, new)
  BY <1>1, <1>4, FitsBackfill DEF MayWrite
<1> QED BY <1>1, <1>5, Works DEF MayWrite

LEMMA BackfillKeeps ==
  ASSUME ReadModelInv, Backfill
  PROVE  ReadModelInv'
<1>1. PICK w \in Writer : w = BackfillRun
  BY WritersDiffer
<1>2. PICK q \in Transaction : q = tx[w]
  BY TransactionIs
<1>3. Fits(w, q)
  BY <1>2 DEF ReadModelInv
<1>4. {} \subseteq AgreedRows
  OBVIOUS
<1>5. AllSnapshots \subseteq AgreedRows /\ AllRuns \subseteq AgreedRows /\ AllRows \subseteq AgreedRows
  BY DEF AgreedRows
<1>6. CASE Query("snapshots", AllSnapshots, "insert snapshots") \/ Query("runs", AllRuns, "insert runs")
           \/ Query("rows", AllRows, "insert rows")
  BY <1>5, <1>6, QueryKeeps
<1>7. CASE InsertAll("insert snapshots", "runs")
  <2>1. Insert(w, "runs", {})
    BY <1>1, <1>7 DEF InsertAll
  <2>2. PICK new \in Transaction :
           /\ new.step = "runs" /\ new.todo = {} /\ new.new = q.new \cup (q.todo \ web)
           /\ MayWrite(w, q, new)
    BY <1>2, <1>4, <2>1, Inserts
  <2> QED BY <1>1, <1>2, <1>7, <2>2, InsertedKeeps DEF InsertAll
<1>8. CASE InsertAll("insert runs", "rows")
  <2>1. Insert(w, "rows", {})
    BY <1>1, <1>8 DEF InsertAll
  <2>2. PICK new \in Transaction :
           /\ new.step = "rows" /\ new.todo = {} /\ new.new = q.new \cup (q.todo \ web)
           /\ MayWrite(w, q, new)
    BY <1>2, <1>4, <2>1, Inserts
  <2> QED BY <1>1, <1>2, <1>8, <2>2, InsertedKeeps DEF InsertAll
<1>9. CASE InsertAll("insert rows", "commit")
  <2>1. Insert(w, "commit", {})
    BY <1>1, <1>9 DEF InsertAll
  <2>2. PICK new \in Transaction :
           /\ new.step = "commit" /\ new.todo = {} /\ new.new = q.new \cup (q.todo \ web)
           /\ MayWrite(w, q, new)
    BY <1>2, <1>4, <2>1, Inserts
  <2> QED BY <1>1, <1>2, <1>9, <2>2, InsertedKeeps DEF InsertAll
<1>10. CASE tx[BackfillRun].step = "commit" /\ CommitWeb(BackfillRun, "idle")
  <2>1. PICK new \in Transaction :
           /\ new.step = "idle" /\ new.todo = {} /\ new.new = {} /\ new.tries = q.tries
           /\ Writes(w, q, new) /\ web' = web \cup q.new
    BY <1>1, <1>2, <1>3, <1>10, CommitWebIs
  <2>2. \A k \in 1..Len(scored) : RankingRun(k) \in q.new => RowsOf(k) \subseteq web \cup q.new
    BY <1>1, <1>2, <1>3, <1>10, BackfillFitsIs DEF BackfillFits
  <2>3. Fits(w, new)'
    BY <1>1, <1>2, <1>3, <2>1, WritersDiffer DEF Fits, BackfillFits
  <2> QED BY <1>1, <1>2, <1>3, <2>1, <2>2, <2>3, Commits
<1> QED BY <1>6, <1>7, <1>8, <1>9, <1>10 DEF Backfill

\* market-data and scoring.
LEMMA ServiceTablesKeep ==
  ASSUME ReadModelInv,
         \/ \E f \in SnapshotId : SendSnapshot(f) \/ \E t \in Symbol : SaveTitle(f, t)
         \/ RecordRanking
         \/ \E k \in ScoringId : SendScoring(k)
         \/ UNCHANGED readModelVars
  PROVE  ReadModelInv'
<1>1. ReadModelTypeOK /\ Len(scored) \in Nat /\ DOMAIN scored = 1..Len(scored)
  BY ScoredAre DEF ReadModelInv
<1> DEFINE S(C) == [fetch : C, ranked : SUBSET Symbol, rated : BOOLEAN]
<1>2. \A C, D : C \subseteq D /\ scored \in Seq(S(C)) => scored \in Seq(S(D))
  <2>1. SUFFICES ASSUME NEW C, NEW D, C \subseteq D, scored \in Seq(S(C)) PROVE scored \in Seq(S(D))
    OBVIOUS
  <2>2. \A x : x \in S(C) => x \in S(D)
    BY <2>1
  <2> HIDE DEF S
  <2>3. \A k \in 1..Len(scored) : scored[k] \in S(D)
    BY <1>1, <2>1, <2>2
  <2>4. scored \in [1..Len(scored) -> S(D)]
    BY <1>1, <2>1, <2>3
  <2> QED BY <1>1, <2>4
<1>3. CASE \E f \in SnapshotId : \E t \in Symbol : SaveTitle(f, t)
  <2>1. PICK f \in SnapshotId, t \in Symbol : SaveTitle(f, t)
    BY <1>3
  <2>2. saved' = saved \cup {<<f, t>>} /\ UNCHANGED <<complete, scored, sent, web, tx, starts>>
    BY <2>1 DEF SaveTitle
  <2>3. <<f, t>> \in SnapshotId \X Symbol
    OBVIOUS
  <2>4. ReadModelTypeOK'
    BY <1>1, <2>2, <2>3 DEF ReadModelTypeOK
  <2>5. Grows
    BY <1>1, <2>2 DEF Grows
  <2>6. \A g \in complete', u \in Symbol : <<g, u>> \in saved'
    BY <2>2 DEF ReadModelInv
  <2> QED BY <2>2, <2>4, <2>5, <2>6, TablesGrow
<1>4. CASE \E f \in SnapshotId : SendSnapshot(f)
  <2>1. PICK f \in SnapshotId : SendSnapshot(f)
    BY <1>4
  <2>2. complete' = complete \cup {f} /\ UNCHANGED <<saved, scored, sent, web, tx, starts>>
    BY <2>1 DEF SendSnapshot
  <2>3. ReadModelTypeOK'
    BY <1>1, <1>2, <2>2 DEF ReadModelTypeOK
  <2>4. Grows
    BY <1>1, <2>2 DEF Grows
  <2>5. \A g \in complete', u \in Symbol : <<g, u>> \in saved'
    BY <2>1, <2>2 DEF ReadModelInv, SendSnapshot
  <2> QED BY <2>2, <2>3, <2>4, <2>5, TablesGrow
<1>5. CASE RecordRanking
  <2>1. PICK x \in S(complete) : scored' = Append(scored, x)
    BY <1>5 DEF RecordRanking
  <2>2. Len(scored) < NumScorings /\ UNCHANGED <<saved, complete, sent, web, tx, starts>> /\ scored \in Seq(S(complete))
    BY <1>1, <1>5 DEF RecordRanking, ReadModelTypeOK
  <2>3. /\ scored' \in Seq(S(complete)) /\ Len(scored') = Len(scored) + 1
        /\ \A k \in 1..Len(scored) : scored'[k] = scored[k]
    <3> HIDE DEF S
    <3> QED BY <2>1, <2>2
  <2>4. DOMAIN scored \subseteq DOMAIN scored'
    BY <1>1, <2>1, <2>3
  <2>5. Len(scored') <= NumScorings
    BY <1>1, <2>2, <2>3, ReadModelAssumption
  <2>6. ReadModelTypeOK'
    BY <1>1, <2>2, <2>3, <2>4, <2>5 DEF ReadModelTypeOK
  <2>7. Grows
    BY <1>1, <2>2, <2>3 DEF Grows
  <2>8. \A g \in complete', u \in Symbol : <<g, u>> \in saved'
    BY <2>2 DEF ReadModelInv
  <2> QED BY <2>2, <2>6, <2>7, <2>8, TablesGrow
<1>6. CASE \E k \in ScoringId : SendScoring(k)
  <2>1. PICK k \in ScoringId : SendScoring(k)
    BY <1>6
  <2>2. sent' = sent \cup {k} /\ k \in DOMAIN scored /\ UNCHANGED <<saved, complete, scored, web, tx, starts>>
    BY <2>1 DEF SendScoring
  <2>3. ReadModelTypeOK' /\ Grows
    BY <1>1, <2>2 DEF ReadModelTypeOK, Grows
  <2>4. \A g \in complete', u \in Symbol : <<g, u>> \in saved'
    BY <2>2 DEF ReadModelInv
  <2> QED BY <2>2, <2>3, <2>4, TablesGrow
<1>7. CASE UNCHANGED readModelVars
  <2>1. UNCHANGED <<saved, complete, scored, sent, web, tx, starts>>
    BY <1>7 DEF readModelVars, readModelState
  <2>2. ReadModelTypeOK' /\ Grows
    BY <1>1, <2>1 DEF ReadModelTypeOK, Grows
  <2>3. \A g \in complete', u \in Symbol : <<g, u>> \in saved'
    BY <2>1 DEF ReadModelInv
  <2> QED BY <2>1, <2>2, <2>3, TablesGrow
<1> QED BY <1>3, <1>4, <1>5, <1>6, <1>7

LEMMA ReadModelInitInv == ReadModelInit => ReadModelInv
<1> SUFFICES ASSUME ReadModelInit PROVE ReadModelInv
  OBVIOUS
<1>1. Len(scored) = 0 /\ DOMAIN scored = {} /\ scored = <<>>
  BY DEF ReadModelInit
<1>2. /\ Unbegun \in Transaction /\ Unbegun.step = "idle" /\ Unbegun.todo = {}
      /\ Unbegun.new = {} /\ Unbegun.tries < MaxTries
  <2>1. 0 \in 0..MaxTries /\ 0 < MaxTries
    BY ReadModelAssumption
  <2> QED BY <2>1 DEF Unbegun, Transaction
<1>3. \A w \in Writer : tx[w] = Unbegun
  BY DEF ReadModelInit
<1>4. ReadModelTypeOK
  <2>1. scored \in Seq([fetch : complete, ranked : SUBSET Symbol, rated : BOOLEAN])
    BY <1>1
  <2>2. tx \in [Writer -> Transaction]
    BY <1>2 DEF ReadModelInit
  <2>3. 0 \in 0..NumBackfills /\ 0 <= NumScorings
    BY ReadModelAssumption
  <2> QED BY <1>1, <2>1, <2>2, <2>3 DEF ReadModelTypeOK, ReadModelInit
<1>5. \A w \in Writer : Fits(w, tx[w])
  BY <1>1, <1>2, <1>3 DEF Fits, SnapshotFits, ScoringFits, BackfillFits
<1>6. \A w \in Writer, u \in Writer : u # w => tx[u].new \cap tx[w].new = {}
  BY <1>2, <1>3
<1> QED BY <1>1, <1>4, <1>5, <1>6 DEF ReadModelInv, ReadModelInit, RunsHaveRows

LEMMA ReadModelNextInv == ReadModelInv /\ [ReadModelNext]_readModelVars => ReadModelInv'
<1> SUFFICES ASSUME ReadModelInv, [ReadModelNext]_readModelVars PROVE ReadModelInv'
  OBVIOUS
<1>1. CASE \/ \E f \in SnapshotId : SendSnapshot(f) \/ \E t \in Symbol : SaveTitle(f, t)
           \/ RecordRanking
           \/ \E k \in ScoringId : SendScoring(k)
           \/ UNCHANGED readModelVars
  BY <1>1, ServiceTablesKeep
<1>2. CASE \E f \in SnapshotId : ProjectSnapshot(f)
  BY <1>2, ProjectSnapshotKeeps
<1>3. CASE \E k \in ScoringId : ProjectScoring(k)
  BY <1>3, ProjectScoringKeeps
<1>4. CASE \E e \in Events : Projected(e)
  BY <1>4, ProjectedKeeps
<1>5. CASE StartBackfill \/ Backfill
  BY <1>5, StartBackfillKeeps, BackfillKeeps
<1>6. CASE \E w \in Writer : Fails(w) \/ Deadlock(w)
  BY <1>6, RollBackKeeps DEF Fails, Deadlock
<1> QED BY <1>1, <1>2, <1>3, <1>4, <1>5, <1>6 DEF ReadModelNext

THEOREM ReadModelInvariant == ReadModelSpec => []ReadModelInv
BY ReadModelInitInv, ReadModelNextInv, PTL DEF ReadModelSpec

\* A scoring whose run is there has its ranked titles there, and no others.
LEMMA RankedRows ==
  ASSUME ReadModelInv, NEW k \in DOMAIN scored
  PROVE  /\ k \in ScoringId /\ scored[k].fetch \in complete /\ scored[k].ranked \subseteq Symbol
         /\ \A t : RankingRow(k, t) \in web => t \in scored[k].ranked
         /\ RankingRun(k) \in web => \A t \in scored[k].ranked : RankingRow(k, t) \in web
<1>1. /\ DOMAIN scored = 1..Len(scored) /\ 1..Len(scored) \subseteq ScoringId
      /\ scored[k].fetch \in complete /\ scored[k].ranked \subseteq Symbol
  BY ScoredAre DEF ReadModelInv
<1>2. \A t : RankingRow(k, t) \in web => t \in scored[k].ranked
  BY RowsAre DEF ReadModelInv
<1>3. RankingRun(k) \in web => RowsOf(k) \subseteq web
  BY <1>1 DEF ReadModelInv, RunsHaveRows
<1> QED BY <1>1, <1>2, <1>3 DEF RowsOf

\* Its fetch is complete: both kinds of tables hold all titles.
LEMMA TablesHoldAll ==
  ASSUME ReadModelInv, NEW k \in DOMAIN scored
  PROVE  /\ \A t \in Symbol : <<scored[k].fetch, t>> \in saved
         /\ TableRanking(k) = [t \in Symbol |-> t \in scored[k].ranked]
<1> DEFINE f == scored[k].fetch
<1>1. \A t \in Symbol : <<f, t>> \in saved
  BY RankedRows DEF ReadModelInv
<1>2. saved \subseteq SnapshotId \X Symbol
  BY DEF ReadModelInv, ReadModelTypeOK
<1> HIDE DEF f
<1>3. {s[2] : s \in {r \in saved : r[1] = f}} = Symbol
  <2>1. ASSUME NEW t \in Symbol PROVE t \in {s[2] : s \in {r \in saved : r[1] = f}}
    <3>1. PICK s \in saved : s = <<f, t>>
      BY <1>1
    <3>2. s[1] = f /\ s[2] = t
      BY <3>1
    <3> QED BY <3>2
  <2> QED BY <1>2, <2>1
<1> QED BY <1>1, <1>3 DEF TableRanking, f

\* An event that is done with has its rows there.
LEMMA DoneIsThere ==
  ASSUME ReadModelInv
  PROVE  /\ \A f \in SnapshotId : tx[SnapshotEvent(f)].step = "done" => \A t \in Symbol : SnapshotRow(f, t) \in web
         /\ \A k \in ScoringId : tx[ScoringEvent(k)].step = "done" => RankingRun(k) \in web
<1>1. ASSUME NEW f \in SnapshotId, tx[SnapshotEvent(f)].step = "done", NEW t \in Symbol
      PROVE  SnapshotRow(f, t) \in web
  <2>1. Fits(SnapshotEvent(f), tx[SnapshotEvent(f)])
    BY WritersDiffer DEF ReadModelInv
  <2>2. SnapshotFits(f, tx[SnapshotEvent(f)])
    BY <2>1 DEF Fits
  <2> QED BY <1>1, <2>2 DEF SnapshotFits
<1>2. ASSUME NEW k \in ScoringId, tx[ScoringEvent(k)].step = "done"
      PROVE  RankingRun(k) \in web
  <2>1. Fits(ScoringEvent(k), tx[ScoringEvent(k)])
    BY WritersDiffer DEF ReadModelInv
  <2>2. ScoringFits(k, tx[ScoringEvent(k)])
    BY <2>1 DEF Fits
  <2> QED BY <1>2, <2>2 DEF ScoringFits
<1> QED BY <1>1, <1>2

\* Both pages follow from the rows of the runs that are known.
LEMMA PagesFollow == ReadModelInv => PagesAreTrue
<1> SUFFICES ASSUME ReadModelInv PROVE PagesAreTrue
  OBVIOUS
<1>1. ASSUME NEW k \in DOMAIN scored, RankingRun(k) \in web
      PROVE  /\ scored[k].ranked \subseteq DOMAIN RankingPage(k)
             /\ \A t \in DOMAIN RankingPage(k) : RankingPage(k)[t] = TableRanking(k)[t]
             /\ tx[SnapshotEvent(scored[k].fetch)].step = "done" => RankingPage(k) = TableRanking(k)
  <2> DEFINE onPage == {s \in Symbol : RankingRow(k, s) \in web \/ SnapshotRow(scored[k].fetch, s) \in web}
  <2>1. /\ scored[k].ranked \subseteq Symbol /\ scored[k].fetch \in SnapshotId
        /\ \A t \in Symbol : RankingRow(k, t) \in web <=> t \in scored[k].ranked
    BY <1>1, RankedRows DEF ReadModelInv, ReadModelTypeOK
  <2>2. RankingPage(k) = [t \in onPage |-> RankingRow(k, t) \in web]
    BY DEF RankingPage
  <2>3. TableRanking(k) = [t \in Symbol |-> t \in scored[k].ranked]
    BY <1>1, TablesHoldAll
  <2>4. scored[k].ranked \subseteq onPage
    BY <2>1
  <2>5. tx[SnapshotEvent(scored[k].fetch)].step = "done" => onPage = Symbol
    BY <2>1, DoneIsThere
  <2>6. DOMAIN RankingPage(k) = onPage /\ onPage \subseteq Symbol
    BY <2>2
  <2> HIDE DEF onPage
  <2>7. \A t \in Symbol : (RankingRow(k, t) \in web) = (t \in scored[k].ranked)
    BY <2>1
  <2>8. \A t \in onPage : RankingPage(k)[t] = TableRanking(k)[t]
    <3>1. TAKE t \in onPage
    <3>2. RankingPage(k)[t] = (RankingRow(k, t) \in web)
      BY <2>2, Zenon
    <3>3. t \in Symbol
      BY <2>6
    <3>4. TableRanking(k)[t] = (t \in scored[k].ranked)
      BY <2>3, <3>3, Zenon
    <3> QED BY <2>7, <3>2, <3>3, <3>4, Zenon
  <2>9. onPage = Symbol => RankingPage(k) = TableRanking(k)
    BY <2>2, <2>3, <2>7, Zenon
  <2> QED BY <2>4, <2>5, <2>6, <2>8, <2>9
<1>2. ASSUME NEW t \in Symbol PROVE TitlePage(t) \subseteq TableTitle(t)
  <2>1. SUFFICES ASSUME NEW k \in DOMAIN scored, RankingRun(k) \in web
                 PROVE  <<k, RankingRow(k, t) \in web>> \in TableTitle(t)
    BY DEF TitlePage
  <2>2. <<scored[k].fetch, t>> \in saved
    BY <2>1, TablesHoldAll
  <2>3. (RankingRow(k, t) \in web) = (t \in scored[k].ranked)
    BY <2>1, RankedRows
  <2> QED BY <2>2, <2>3 DEF TableTitle
<1> QED BY <1>1, <1>2, DoneIsThere DEF PagesAreTrue

\* The page of a scoring and the page of a title answer as the tables do, whatever
\* the projections and the backfill have written so far and in whatever order
\* (read_models.py, backfill.py).
THEOREM PagesTrue == ReadModelSpec => []PagesAreTrue
BY PagesFollow, ReadModelInvariant, PTL

------------------------------------------------------------------------------
(* The tab and its connection.                                               *)

\* An event is announced once and reaches the hub once; as long as nothing was handed
\* back, in the order of the stream.
PipeInv ==
  /\ \A i, j \in 1..Len(loopCalls) : loopCalls[i] # SessionEnd /\ loopCalls[i] = loopCalls[j] => i = j
  /\ \A i \in 1..Len(loopCalls) : loopCalls[i] # SessionEnd => loopCalls[i] \in projected \ announcing
  /\ \A a, b \in announcing : a = b

PipeOrder ==
  /\ \A k \in projected : \A j \in 1..k : j \in projected
  /\ \A a \in announcing : \A k \in projected : k <= a
  /\ \A i, j \in 1..Len(loopCalls) :
       i < j /\ loopCalls[i] # SessionEnd /\ loopCalls[j] # SessionEnd => loopCalls[i] < loopCalls[j]
  /\ \A i \in 1..Len(loopCalls) : loopCalls[i] # SessionEnd => \A k \in Published : k < loopCalls[i]

\* Before the tab is live no event is sent.
NotLiveInv ==
  /\ phase \in {"off", "accepted", "connected"} => queue = <<>>
  /\ phase # "live" => early = {} /\ \A k \in Seqs : PlacesOf(Arriving, k) = {}
  /\ Holding => resume # {}
  /\ phase # "read" => replayed = {}
  /\ ~Holding => held = <<>>

\* What is held is what the hub publishes while the stream is read.
HeldInv ==
  Holding =>
    /\ \A i \in 1..Len(held) : held[i] \in Published
    /\ \A i, j \in 1..Len(held) : held[i] = held[j] => i = j
    /\ nakked = {} => \A i, j \in 1..Len(held) : i < j => held[i] < held[j]
    /\ \A n \in replayed : n <= last /\ \A k \in Published : k <= n \/ \E i \in 1..Len(held) : held[i] = k

\* An event is sent once by the hub, and once more if the replay had it before.
LiveInv ==
  phase = "live" =>
    /\ \A k \in Seqs :
         Cardinality(PlacesOf(Arriving, k)) <= (IF k \in Published THEN 1 ELSE 0) + (IF k \in early THEN 1 ELSE 0)
    /\ \A n \in early : /\ resume # {}
                        /\ \A r \in resume, m \in Seqs : r < m /\ m <= n => PlacesOf(Arriving, m) # {}
    /\ nakked = {} => InOrder(Arriving)

TabInv == NotLiveInv /\ HeldInv /\ LiveInv /\ NothingMissed

RealtimeInv == RealtimeTypeOK /\ PipeInv /\ (nakked = {} => PipeOrder) /\ TabInv

------------------------------------------------------------------------------
(* Messages.                                                                 *)

LEMMA MessagesAre ==
  /\ \A k \in Seqs : EventOf(k) \in Message
  /\ Resync \in Message /\ \A k : Resync # EventOf(k)
  /\ \A S \in Optional : [op |-> "hello", seq |-> S] \in Message
  /\ \A S, k : [op |-> "hello", seq |-> S] # EventOf(k)
  /\ \A k, n : EventOf(k) = EventOf(n) => k = n
<1>1. \A k \in Seqs : {k} \in Optional
  BY DEF Optional, Seqs
<1>2. {} \in Optional
  BY DEF Optional
<1>3. \A S, k : [op |-> "hello", seq |-> S] # EventOf(k)
  BY DEF EventOf
<1>4. \A k : Resync # EventOf(k)
  BY DEF EventOf, Resync
<1>5. ASSUME NEW k, NEW n, EventOf(k) = EventOf(n) PROVE k = n
  <2>1. {k} = {n}
    BY <1>5 DEF EventOf
  <2> QED BY <2>1
<1>6. \A S \in Optional : [op |-> "hello", seq |-> S] \in Message
  BY DEF Message
<1>7. \A k \in Seqs : EventOf(k) \in Message
  BY <1>1 DEF Message, EventOf
<1>8. Resync \in Message
  BY <1>2 DEF Message, Resync
<1> QED BY <1>3, <1>4, <1>5, <1>6, <1>7, <1>8

LEMMA PlacesJoined ==
  ASSUME NEW s \in Seq(Message), NEW t \in Seq(Message), NEW k
  PROVE  /\ s \o t \in Seq(Message)
         /\ PlacesOf(s, k) \in SUBSET (1..Len(s)) /\ PlacesOf(t, k) \in SUBSET (1..Len(t))
         /\ Len(s) \in Nat /\ Len(t) \in Nat
         /\ PlacesOf(s \o t, k) = PlacesOf(s, k) \cup {Len(s) + i : i \in PlacesOf(t, k)}
<1>1. PICK u : u = s \o t
  OBVIOUS
<1>2. /\ u \in Seq(Message) /\ Len(u) = Len(s) + Len(t) /\ Len(s) \in Nat /\ Len(t) \in Nat
      /\ \A i \in 1..(Len(s) + Len(t)) : u[i] = IF i <= Len(s) THEN s[i] ELSE t[i - Len(s)]
  BY <1>1, ConcatProperties, LenProperties
<1>3. PlacesOf(s, k) \in SUBSET (1..Len(s)) /\ PlacesOf(t, k) \in SUBSET (1..Len(t))
  BY DEF PlacesOf
<1>4. ASSUME NEW i \in PlacesOf(u, k) PROVE i \in PlacesOf(s, k) \cup {Len(s) + j : j \in PlacesOf(t, k)}
  <2>1. i \in 1..(Len(s) + Len(t)) /\ u[i] = EventOf(k)
    BY <1>2, <1>4 DEF PlacesOf
  <2>2. CASE i <= Len(s)
    <3>1. i \in 1..Len(s) /\ s[i] = EventOf(k)
      BY <1>2, <2>1, <2>2
    <3> QED BY <3>1 DEF PlacesOf
  <2>3. CASE ~(i <= Len(s))
    <3>1. i - Len(s) \in 1..Len(t) /\ t[i - Len(s)] = EventOf(k) /\ i = Len(s) + (i - Len(s))
      BY <1>2, <2>1, <2>3
    <3>2. i - Len(s) \in PlacesOf(t, k)
      BY <3>1 DEF PlacesOf
    <3> QED BY <3>1, <3>2
  <2> QED BY <2>2, <2>3
<1>5. ASSUME NEW i \in PlacesOf(s, k) PROVE i \in PlacesOf(u, k)
  <2>1. i \in 1..Len(s) /\ s[i] = EventOf(k)
    BY <1>5 DEF PlacesOf
  <2>2. i \in 1..Len(u) /\ u[i] = EventOf(k)
    BY <1>2, <2>1
  <2> QED BY <2>2 DEF PlacesOf
<1>6. ASSUME NEW j \in PlacesOf(t, k) PROVE Len(s) + j \in PlacesOf(u, k)
  <2>1. j \in 1..Len(t) /\ t[j] = EventOf(k)
    BY <1>6 DEF PlacesOf
  <2>2. Len(s) + j \in 1..(Len(s) + Len(t)) /\ ~(Len(s) + j <= Len(s)) /\ (Len(s) + j) - Len(s) = j
    BY <1>2, <2>1
  <2>3. Len(s) + j \in 1..Len(u) /\ u[Len(s) + j] = t[j]
    BY <1>2, <2>2
  <2> QED BY <2>1, <2>3 DEF PlacesOf
<1>7. PlacesOf(u, k) = PlacesOf(s, k) \cup {Len(s) + j : j \in PlacesOf(t, k)}
  BY <1>4, <1>5, <1>6
<1> QED BY <1>1, <1>2, <1>3, <1>7

\* One more, or none.
LEMMA CountJoined ==
  ASSUME NEW s \in Seq(Message), NEW t \in Seq(Message), NEW k, NEW i, PlacesOf(t, k) \subseteq {i}
  PROVE  /\ Cardinality(PlacesOf(s, k)) \in Nat
         /\ PlacesOf(t, k) = {} => PlacesOf(s \o t, k) = PlacesOf(s, k)
         /\ PlacesOf(t, k) # {} => Cardinality(PlacesOf(s \o t, k)) = Cardinality(PlacesOf(s, k)) + 1
<1>1. /\ PlacesOf(s, k) \in SUBSET (1..Len(s)) /\ PlacesOf(t, k) \in SUBSET (1..Len(t))
      /\ Len(s) \in Nat /\ Len(t) \in Nat
      /\ PlacesOf(s \o t, k) = PlacesOf(s, k) \cup {Len(s) + j : j \in PlacesOf(t, k)}
  BY PlacesJoined
<1>2. Cardinality(PlacesOf(s, k)) \in Nat /\ IsFiniteSet(PlacesOf(s, k))
  <2>1. IsFiniteSet(1..Len(s))
    BY <1>1, FS_Interval
  <2>2. IsFiniteSet(PlacesOf(s, k))
    BY <1>1, <2>1, FS_Subset
  <2> QED BY <2>2, FS_CardinalityType
<1>3. CASE PlacesOf(t, k) = {}
  <2>1. {Len(s) + j : j \in PlacesOf(t, k)} = {}
    BY <1>3
  <2> QED BY <1>1, <1>2, <1>3, <2>1
<1>4. CASE PlacesOf(t, k) # {}
  <2>1. PlacesOf(t, k) = {i} /\ i \in 1..Len(t)
    BY <1>1, <1>4
  <2>2. {Len(s) + j : j \in PlacesOf(t, k)} = {Len(s) + i}
    BY <2>1
  <2>3. Len(s) + i \notin PlacesOf(s, k)
    BY <1>1, <2>1
  <2>4. Cardinality(PlacesOf(s, k) \cup {Len(s) + i}) = Cardinality(PlacesOf(s, k)) + 1
    BY <1>2, <2>3, FS_AddElement
  <2> QED BY <1>1, <1>2, <1>4, <2>2, <2>4
<1> QED BY <1>3, <1>4

\* What may follow, each event for itself.
Follows(s, t, j, k) ==
  \/ PlacesOf(s, k) # {}
  \/ \E i \in PlacesOf(t, k) : i < j
  \/ \E r \in resume : k <= r
  \/ \A n \in Seqs : /\ PlacesOf(s, n) # {} => n < k
                     /\ \A i \in PlacesOf(t, n) : i < j => n < k

LEMMA OrderJoined ==
  ASSUME NEW s \in Seq(Message), NEW t \in Seq(Message), InOrder(s),
         \A k \in Seqs : \A j \in PlacesOf(t, k) : Follows(s, t, j, k)
  PROVE  InOrder(s \o t)
<1>1. PICK u : u = s \o t
  OBVIOUS
<1>2. /\ Len(s) \in Nat /\ Len(t) \in Nat
      /\ \A k : /\ PlacesOf(s, k) \in SUBSET (1..Len(s)) /\ PlacesOf(t, k) \in SUBSET (1..Len(t))
                /\ PlacesOf(u, k) = PlacesOf(s, k) \cup {Len(s) + i : i \in PlacesOf(t, k)}
  BY <1>1, PlacesJoined
<1>3. SUFFICES ASSUME NEW k \in Seqs, NEW j \in PlacesOf(u, k),
                      ~\E i \in PlacesOf(u, k) : i < j, ~\E r \in resume : k <= r,
                      NEW n \in Seqs, NEW i \in PlacesOf(u, n), i < j
               PROVE  n < k
  BY <1>1 DEF InOrder
<1>4. CASE j \in PlacesOf(s, k)
  <2>1. j \in 1..Len(s)
    BY <1>2, <1>4
  <2>2. i \in PlacesOf(s, n)
    <3>1. ASSUME NEW h \in PlacesOf(t, n), i = Len(s) + h PROVE FALSE
      <4>1. h \in 1..Len(t)
        BY <1>2, <3>1
      <4> QED BY <1>2, <1>3, <2>1, <3>1, <4>1
    <3> QED BY <1>2, <1>3, <3>1
  <2>3. ~\E h \in PlacesOf(s, k) : h < j
    BY <1>2, <1>3
  <2> QED BY <1>3, <1>4, <2>2, <2>3 DEF InOrder
<1>5. CASE j \notin PlacesOf(s, k)
  <2>1. PICK h \in PlacesOf(t, k) : j = Len(s) + h
    BY <1>2, <1>3, <1>5
  <2>2. h \in 1..Len(t) /\ Follows(s, t, h, k)
    BY <1>2
  <2>3. PlacesOf(s, k) = {}
    <3>1. ASSUME NEW g \in PlacesOf(s, k) PROVE FALSE
      <4>1. g \in 1..Len(s) /\ g \in PlacesOf(u, k)
        BY <1>2, <3>1
      <4>2. g < j
        BY <1>2, <2>1, <2>2, <4>1
      <4> QED BY <1>3, <4>1, <4>2
    <3> QED BY <3>1
  <2>4. ~\E g \in PlacesOf(t, k) : g < h
    <3>1. ASSUME NEW g \in PlacesOf(t, k), g < h PROVE FALSE
      <4>1. g \in 1..Len(t) /\ Len(s) + g \in PlacesOf(u, k)
        BY <1>2, <3>1
      <4>2. Len(s) + g < j
        BY <1>2, <2>1, <2>2, <3>1, <4>1
      <4> QED BY <1>3, <4>1, <4>2
    <3> QED BY <3>1
  <2>5. /\ PlacesOf(s, n) # {} => n < k
        /\ \A g \in PlacesOf(t, n) : g < h => n < k
    BY <1>3, <2>2, <2>3, <2>4 DEF Follows
  <2>6. CASE i \in PlacesOf(s, n)
    BY <2>5, <2>6
  <2>7. CASE i \notin PlacesOf(s, n)
    <3>1. PICK g \in PlacesOf(t, n) : i = Len(s) + g
      BY <1>2, <1>3, <2>7
    <3>2. g < h
      <4>1. g \in 1..Len(t)
        BY <1>2
      <4> QED BY <1>2, <1>3, <2>1, <2>2, <3>1, <4>1
    <3> QED BY <2>5, <3>1, <3>2
  <2> QED BY <2>6, <2>7
<1> QED BY <1>4, <1>5

------------------------------------------------------------------------------
(* The way to the hub.                                                       *)

LEMMA PipeStays ==
  ASSUME PipeInv, nakked' = {} => nakked = {} /\ PipeOrder, UNCHANGED <<projected, announcing, loopCalls>>
  PROVE  PipeInv' /\ (nakked' = {} => PipeOrder') /\ Published' = Published
<1>1. Published' = Published
  BY DEF Published, ElementsOf
<1>2. PipeInv'
  BY DEF PipeInv
<1>3. ASSUME nakked' = {} PROVE PipeOrder'
  <2>1. PipeOrder
    BY <1>3
  <2> QED BY <1>1, <2>1 DEF PipeOrder
<1> QED BY <1>1, <1>2, <1>3

LEMMA DispatchPipe ==
  ASSUME RealtimeInv, NEW k \in Seqs, Dispatch(k)
  PROVE  PipeInv' /\ (nakked' = {} => PipeOrder') /\ Published' = Published
<1>1. /\ announcing = {} /\ k \in 1..last /\ k \notin projected /\ \A j \in 1..(k - 1) : j \in projected \cup nakked
      /\ projected' = projected \cup {k} /\ announcing' = {k} /\ UNCHANGED <<last, nakked, loopCalls>>
  BY DEF Dispatch, Deliverable
<1>2. projected \subseteq 1..last /\ last \in Nat
  BY DEF RealtimeInv, RealtimeTypeOK
<1>3. Published' = Published
  BY <1>1 DEF Published, ElementsOf
<1>4. PipeInv'
  BY <1>1 DEF RealtimeInv, PipeInv
<1>5. ASSUME nakked' = {} PROVE PipeOrder'
  <2>1. PipeOrder /\ \A j \in 1..(k - 1) : j \in projected
    BY <1>1, <1>5 DEF RealtimeInv
  <2>2. \A p \in projected : p < k
    <3>1. SUFFICES ASSUME NEW p \in projected, ~(p < k) PROVE FALSE
      OBVIOUS
    <3>2. p \in Nat /\ k \in 1..p
      BY <1>1, <1>2, <3>1
    <3> QED BY <1>1, <2>1, <3>2 DEF PipeOrder
  <2>3. \A p \in projected' : \A j \in 1..p : j \in projected'
    <3>1. \A j \in 1..k : j = k \/ j \in 1..(k - 1)
      BY <1>1
    <3> QED BY <1>1, <2>1, <3>1 DEF PipeOrder
  <2>4. \A a \in announcing' : \A p \in projected' : p <= a
    BY <1>1, <1>2, <2>2
  <2> QED BY <1>1, <1>3, <2>1, <2>3, <2>4 DEF PipeOrder
<1> QED BY <1>3, <1>4, <1>5

\* An event or the end of a session joins the callbacks of the loop.
LEMMA CallJoins ==
  ASSUME loopCalls \in Seq(0..MaxSeq), NEW k \in 0..MaxSeq, loopCalls' = Append(loopCalls, k)
  PROVE  /\ loopCalls' \in Seq(0..MaxSeq) /\ Len(loopCalls') = Len(loopCalls) + 1 /\ Len(loopCalls) \in Nat
         /\ \A i \in 1..Len(loopCalls) : i \in 1..Len(loopCalls') /\ loopCalls'[i] = loopCalls[i]
         /\ loopCalls'[Len(loopCalls) + 1] = k
         /\ \A i \in 1..Len(loopCalls') : i \in 1..Len(loopCalls) \/ i = Len(loopCalls) + 1
<1>1. PICK s : s = loopCalls
  OBVIOUS
<1>2. /\ Append(s, k) \in Seq(0..MaxSeq) /\ Len(Append(s, k)) = Len(s) + 1 /\ Len(s) \in Nat
      /\ \A i \in 1..Len(s) : Append(s, k)[i] = s[i]
      /\ Append(s, k)[Len(s) + 1] = k
  BY <1>1, AppendProperties, LenProperties
<1> QED BY <1>1, <1>2

LEMMA AnnouncePipe ==
  ASSUME RealtimeInv, Announce
  PROVE  /\ PipeInv' /\ (nakked' = {} => PipeOrder') /\ Published' = Published
         /\ loopCalls' \in Seq(0..MaxSeq)
<1>1. PICK k : k \in announcing /\ loopCalls' = loopCalls \o <<k>>
  BY DEF Announce
<1>2. /\ loopCalls \in Seq(0..MaxSeq) /\ projected \subseteq 1..last /\ last \in 0..MaxSeq /\ MaxSeq \in Nat
      /\ announcing \subseteq projected
  BY RealtimeAssumption DEF RealtimeInv, RealtimeTypeOK
<1>3. /\ announcing = {k} /\ announcing' = {} /\ k \in projected /\ k \in 0..MaxSeq /\ k # 0
      /\ UNCHANGED <<projected, nakked>>
  <2>1. announcing = {k}
    BY <1>1 DEF RealtimeInv, PipeInv
  <2>2. k \in projected /\ k \in 1..last
    BY <1>1, <1>2
  <2>3. announcing' = {} /\ UNCHANGED <<projected, nakked>>
    BY DEF Announce
  <2> QED BY <1>2, <2>1, <2>2, <2>3
<1>4. loopCalls' = Append(loopCalls, k)
  <2>1. PICK s : s = loopCalls
    OBVIOUS
  <2>2. s \o <<k>> = Append(s, k)
    BY <1>2, <1>3, <2>1, AppendIsConcat
  <2> QED BY <1>1, <2>1, <2>2
<1> DEFINE L == Len(loopCalls)
<1>5. /\ loopCalls' \in Seq(0..MaxSeq) /\ Len(loopCalls') = L + 1 /\ L \in Nat
      /\ \A i \in 1..L : i \in 1..Len(loopCalls') /\ loopCalls'[i] = loopCalls[i]
      /\ loopCalls'[L + 1] = k
      /\ \A i \in 1..Len(loopCalls') : i \in 1..L \/ i = L + 1
  BY <1>2, <1>3, <1>4, CallJoins
<1>6. \A i \in 1..L : loopCalls[i] # SessionEnd => loopCalls[i] \in projected /\ loopCalls[i] # k
  BY <1>3 DEF RealtimeInv, PipeInv
<1>7. k # SessionEnd
  BY <1>3 DEF SessionEnd
<1> HIDE DEF L
<1>8. Published' = Published
  <2>1. ElementsOf(loopCalls)' = ElementsOf(loopCalls) \cup {k}
    <3>1. L + 1 \in 1..(L + 1)
      BY <1>5
    <3> QED BY <1>5, <3>1 DEF ElementsOf, L
  <2> QED BY <1>3, <2>1 DEF Published
<1>9. PipeInv'
  <2>1. \A i \in 1..Len(loopCalls') : loopCalls'[i] # SessionEnd => loopCalls'[i] \in projected'
    BY <1>3, <1>5, <1>6
  <2>2. \A i, j \in 1..L : loopCalls[i] # SessionEnd /\ loopCalls[i] = loopCalls[j] => i = j
    BY DEF RealtimeInv, PipeInv, L
  <2>3. \A i, j \in 1..Len(loopCalls') : loopCalls'[i] # SessionEnd /\ loopCalls'[i] = loopCalls'[j] => i = j
    BY <1>5, <1>6, <1>7, <2>2
  <2> QED BY <1>3, <2>1, <2>3 DEF PipeInv
<1>10. ASSUME nakked' = {} PROVE PipeOrder'
  <2>1. PipeOrder
    BY <1>3, <1>10 DEF RealtimeInv
  <2>2. \A p \in projected : p \in Nat /\ (p # k => p < k)
    BY <1>2, <1>3, <2>1 DEF PipeOrder
  <2>3. k \notin Published /\ Published \subseteq projected
    BY <1>3 DEF Published
  <2>4. \A i, j \in 1..L :
          i < j /\ loopCalls[i] # SessionEnd /\ loopCalls[j] # SessionEnd => loopCalls[i] < loopCalls[j]
    BY <2>1 DEF PipeOrder, L
  <2>5. \A i, j \in 1..Len(loopCalls') :
          i < j /\ loopCalls'[i] # SessionEnd /\ loopCalls'[j] # SessionEnd => loopCalls'[i] < loopCalls'[j]
    <3>1. SUFFICES ASSUME NEW i \in 1..Len(loopCalls'), NEW j \in 1..Len(loopCalls'), i < j,
                          loopCalls'[i] # SessionEnd, loopCalls'[j] # SessionEnd
                   PROVE  loopCalls'[i] < loopCalls'[j]
      OBVIOUS
    <3>2. i \in 1..L
      BY <1>5, <3>1
    <3>3. CASE j \in 1..L
      BY <1>5, <2>4, <3>1, <3>2, <3>3
    <3>4. CASE j = L + 1
      BY <1>5, <1>6, <2>2, <3>1, <3>2, <3>4
    <3> QED BY <1>5, <3>3, <3>4
  <2>6. \A i \in 1..L : loopCalls[i] # SessionEnd => \A p \in Published : p < loopCalls[i]
    BY <2>1 DEF PipeOrder, L
  <2>7. \A i \in 1..Len(loopCalls') : loopCalls'[i] # SessionEnd => \A p \in Published' : p < loopCalls'[i]
    BY <1>5, <1>8, <2>2, <2>3, <2>6
  <2>8. \A p \in projected' : \A j \in 1..p : j \in projected'
    BY <1>3, <2>1 DEF PipeOrder
  <2> QED BY <1>3, <2>5, <2>7, <2>8 DEF PipeOrder
<1> QED BY <1>5, <1>8, <1>9, <1>10

\* The end of a session is no event.
LEMMA EndSessionPipe ==
  ASSUME RealtimeInv, EndSession
  PROVE  /\ PipeInv' /\ (nakked' = {} => PipeOrder') /\ Published' = Published
         /\ loopCalls' \in Seq(0..MaxSeq)
<1>1. /\ loopCalls' = loopCalls \/ loopCalls' = Append(loopCalls, 0)
      /\ UNCHANGED <<projected, nakked, announcing>>
  BY DEF EndSession, consumer, SessionEnd
<1>2. /\ loopCalls \in Seq(0..MaxSeq) /\ 0 \in 0..MaxSeq /\ 0 \notin projected
  BY RealtimeAssumption DEF RealtimeInv, RealtimeTypeOK
<1>3. CASE loopCalls' = loopCalls
  BY <1>1, <1>2, <1>3, PipeStays DEF RealtimeInv
<1>4. CASE loopCalls' = Append(loopCalls, 0)
  <2> DEFINE L == Len(loopCalls)
  <2>1. /\ loopCalls' \in Seq(0..MaxSeq) /\ Len(loopCalls') = L + 1 /\ L \in Nat
        /\ \A i \in 1..L : i \in 1..Len(loopCalls') /\ loopCalls'[i] = loopCalls[i]
        /\ loopCalls'[L + 1] = SessionEnd
        /\ \A i \in 1..Len(loopCalls') : i \in 1..L \/ i = L + 1
    BY <1>2, <1>4, CallJoins DEF SessionEnd
  <2>2. Published' = Published
    <3>1. L + 1 \in 1..(L + 1)
      BY <2>1
    <3>2. ElementsOf(loopCalls)' = ElementsOf(loopCalls) \cup {0}
      BY <2>1, <3>1 DEF ElementsOf, SessionEnd
    <3> QED BY <1>1, <1>2, <3>2 DEF Published
  <2>3. \A i \in 1..Len(loopCalls') : loopCalls'[i] # SessionEnd => i \in 1..L /\ loopCalls'[i] = loopCalls[i]
    BY <2>1
  <2>4. PipeInv'
    <3>1. \A i \in 1..L : loopCalls[i] # SessionEnd => loopCalls[i] \in projected \ announcing
      BY DEF RealtimeInv, PipeInv
    <3>2. \A i, j \in 1..L : loopCalls[i] # SessionEnd /\ loopCalls[i] = loopCalls[j] => i = j
      BY DEF RealtimeInv, PipeInv
    <3>3. \A a, b \in announcing : a = b
      BY DEF RealtimeInv, PipeInv
    <3> HIDE DEF L
    <3>4. \A i, j \in 1..Len(loopCalls') : loopCalls'[i] # SessionEnd /\ loopCalls'[i] = loopCalls'[j] => i = j
      BY <2>3, <3>2
    <3> QED BY <1>1, <2>3, <3>1, <3>3, <3>4 DEF PipeInv
  <2>5. ASSUME nakked' = {} PROVE PipeOrder'
    <3>1. PipeOrder
      BY <1>1, <2>5 DEF RealtimeInv
    <3>2. \A i, j \in 1..Len(loopCalls') :
            i < j /\ loopCalls'[i] # SessionEnd /\ loopCalls'[j] # SessionEnd => loopCalls'[i] < loopCalls'[j]
      BY <2>3, <3>1 DEF PipeOrder
    <3>3. \A i \in 1..Len(loopCalls') : loopCalls'[i] # SessionEnd => \A p \in Published' : p < loopCalls'[i]
      BY <2>2, <2>3, <3>1 DEF PipeOrder
    <3> QED BY <1>1, <3>1, <3>2, <3>3 DEF PipeOrder
  <2> QED BY <2>1, <2>2, <2>4, <2>5
<1> QED BY <1>1, <1>3, <1>4

\* The hub publishes an event that it had not, and the newest.
LEMMA LoopCallPipe ==
  ASSUME RealtimeInv, LoopCall
  PROVE  /\ PipeInv' /\ (nakked' = {} => PipeOrder') /\ loopCalls' \in Seq(0..MaxSeq)
         /\ Head(loopCalls) = SessionEnd => Published' = Published
         /\ Head(loopCalls) # SessionEnd =>
              /\ Head(loopCalls) \in Seqs /\ Head(loopCalls) \notin Published
              /\ Published' = Published \cup {Head(loopCalls)}
              /\ nakked = {} => \A k \in Published : k < Head(loopCalls)
<1>1. loopCalls # <<>> /\ loopCalls' = Tail(loopCalls) /\ UNCHANGED <<projected, nakked, announcing, last>>
  BY DEF LoopCall, consumer
<1>2. /\ loopCalls \in Seq(0..MaxSeq) /\ projected \subseteq 1..last /\ last \in 0..MaxSeq /\ MaxSeq \in Nat
  BY RealtimeAssumption DEF RealtimeInv, RealtimeTypeOK
<1> DEFINE L == Len(loopCalls)
<1>3. PICK h : h = Head(loopCalls)
  OBVIOUS
<1>4. /\ loopCalls' \in Seq(0..MaxSeq) /\ L \in Nat \ {0} /\ Len(loopCalls') = L - 1
      /\ \A i \in 1..Len(loopCalls') : loopCalls'[i] = loopCalls[i + 1]
      /\ h = loopCalls[1]
  BY <1>1, <1>2, <1>3, HeadTailProperties, EmptySeq
<1>5. /\ \A i \in 1..L : loopCalls[i] # SessionEnd => loopCalls[i] \in projected \ announcing
      /\ \A i, j \in 1..L : loopCalls[i] # SessionEnd /\ loopCalls[i] = loopCalls[j] => i = j
      /\ \A a, b \in announcing : a = b
  BY DEF RealtimeInv, PipeInv
<1> HIDE DEF L
<1>6. 1 \in 1..L /\ \A i \in 1..Len(loopCalls') : i + 1 \in 1..L /\ i + 1 # 1 /\ i \in Nat
  BY <1>4
<1>7. ElementsOf(loopCalls) = ElementsOf(loopCalls)' \cup {h}
  <2>1. \A i \in 1..L : i = 1 \/ (i - 1 \in 1..Len(loopCalls') /\ (i - 1) + 1 = i)
    BY <1>4
  <2>2. ASSUME NEW x \in ElementsOf(loopCalls) PROVE x \in ElementsOf(loopCalls)' \cup {h}
    <3>1. PICK i \in 1..L : x = loopCalls[i]
      BY <2>2 DEF ElementsOf, L
    <3>2. CASE i = 1
      BY <1>4, <3>1, <3>2
    <3>3. CASE i # 1
      <4>1. PICK j : j = i - 1
        OBVIOUS
      <4>2. j \in 1..Len(loopCalls') /\ j + 1 = i
        BY <2>1, <3>3, <4>1
      <4>3. x = loopCalls'[j]
        BY <1>4, <3>1, <4>2
      <4> QED BY <4>2, <4>3 DEF ElementsOf
    <3> QED BY <3>2, <3>3
  <2>3. h \in ElementsOf(loopCalls)
    BY <1>4, <1>6 DEF ElementsOf, L
  <2>4. ASSUME NEW x \in ElementsOf(loopCalls)' PROVE x \in ElementsOf(loopCalls)
    <3>1. PICK i \in 1..Len(loopCalls') : x = loopCalls'[i]
      BY <2>4 DEF ElementsOf
    <3>2. i + 1 \in 1..L /\ x = loopCalls[i + 1]
      BY <1>4, <1>6, <3>1
    <3> QED BY <3>2 DEF ElementsOf, L
  <2> QED BY <2>2, <2>3, <2>4
<1>8. PipeInv'
  <2>1. \A i \in 1..Len(loopCalls') : loopCalls'[i] # SessionEnd => loopCalls'[i] \in projected \ announcing
    BY <1>4, <1>5, <1>6
  <2>2. \A i, j \in 1..Len(loopCalls') : loopCalls'[i] # SessionEnd /\ loopCalls'[i] = loopCalls'[j] => i = j
    <3>1. \A i, j \in 1..Len(loopCalls') : loopCalls'[i] # SessionEnd /\ loopCalls'[i] = loopCalls'[j] => i + 1 = j + 1
      BY <1>4, <1>5, <1>6
    <3> QED BY <1>6, <3>1
  <2> QED BY <1>1, <1>5, <2>1, <2>2 DEF PipeInv
<1>9. CASE h = SessionEnd
  <2>1. Published' = Published
    BY <1>1, <1>2, <1>7, <1>9 DEF Published, SessionEnd
  <2>2. ASSUME nakked' = {} PROVE PipeOrder'
    <3>1. PipeOrder
      BY <1>1, <2>2 DEF RealtimeInv
    <3>2. /\ \A i, j \in 1..L :
               i < j /\ loopCalls[i] # SessionEnd /\ loopCalls[j] # SessionEnd => loopCalls[i] < loopCalls[j]
          /\ \A i \in 1..L : loopCalls[i] # SessionEnd => \A k \in Published : k < loopCalls[i]
      BY <3>1 DEF PipeOrder, L
    <3>3. \A i, j \in 1..Len(loopCalls') :
            i < j /\ loopCalls'[i] # SessionEnd /\ loopCalls'[j] # SessionEnd => loopCalls'[i] < loopCalls'[j]
      <4>1. \A i, j \in 1..Len(loopCalls') : i < j => i + 1 < j + 1
        BY <1>6
      <4> QED BY <1>4, <1>6, <3>2, <4>1
    <3>4. \A i \in 1..Len(loopCalls') : loopCalls'[i] # SessionEnd => \A p \in Published' : p < loopCalls'[i]
      BY <1>4, <1>6, <2>1, <3>2
    <3> QED BY <1>1, <3>1, <3>3, <3>4 DEF PipeOrder
  <2> QED BY <1>3, <1>4, <1>8, <1>9, <2>1, <2>2
<1>10. CASE h # SessionEnd
  <2>1. h \in projected /\ h \notin announcing /\ h \in Seqs
    <3>1. h \in projected /\ h \notin announcing
      BY <1>4, <1>5, <1>6, <1>10
    <3>2. h \in 1..last
      BY <1>2, <3>1
    <3> QED BY <1>2, <3>1, <3>2 DEF Seqs
  <2>2. h \notin ElementsOf(loopCalls)'
    <3>1. \A i \in 1..Len(loopCalls') : loopCalls'[i] # h
      BY <1>4, <1>5, <1>6, <1>10
    <3> QED BY <3>1 DEF ElementsOf
  <2>3. h \notin Published /\ Published' = Published \cup {h}
    BY <1>1, <1>7, <2>1, <2>2 DEF Published
  <2>4. ASSUME nakked' = {} PROVE PipeOrder' /\ \A k \in Published : k < h
    <3>1. PipeOrder
      BY <1>1, <2>4 DEF RealtimeInv
    <3>2. /\ \A i, j \in 1..L :
               i < j /\ loopCalls[i] # SessionEnd /\ loopCalls[j] # SessionEnd => loopCalls[i] < loopCalls[j]
          /\ \A i \in 1..L : loopCalls[i] # SessionEnd => \A k \in Published : k < loopCalls[i]
      BY <3>1 DEF PipeOrder, L
    <3>3. \A i, j \in 1..Len(loopCalls') :
            i < j /\ loopCalls'[i] # SessionEnd /\ loopCalls'[j] # SessionEnd => loopCalls'[i] < loopCalls'[j]
      <4>1. \A i, j \in 1..Len(loopCalls') : i < j => i + 1 < j + 1
        BY <1>6
      <4> QED BY <1>4, <1>6, <3>2, <4>1
    <3>4. \A i \in 1..Len(loopCalls') : loopCalls'[i] # SessionEnd => h < loopCalls'[i]
      <4>1. \A i \in 1..Len(loopCalls') : 1 < i + 1
        BY <1>6
      <4> QED BY <1>4, <1>6, <1>10, <3>2, <4>1
    <3>5. \A i \in 1..Len(loopCalls') : loopCalls'[i] # SessionEnd => \A p \in Published' : p < loopCalls'[i]
      BY <1>4, <1>6, <2>3, <3>2, <3>4
    <3>6. \A k \in Published : k < h
      BY <1>4, <1>6, <1>10, <3>2
    <3> QED BY <1>1, <3>1, <3>3, <3>5, <3>6 DEF PipeOrder
  <2> QED BY <1>1, <1>3, <1>4, <1>8, <1>10, <2>1, <2>3, <2>4
<1> QED BY <1>9, <1>10

------------------------------------------------------------------------------
(* The connection.                                                           *)

TabTypeOK ==
  /\ phase \in Phase
  /\ held \in Seq(Seqs) /\ Len(held) <= QueueSize
  /\ queue \in Seq(Message) /\ Len(queue) <= QueueSize
  /\ replayed \in Optional /\ resume \in Optional /\ lastSeq \in Optional
  /\ dirty \in BOOLEAN /\ got \in Seq(Message) /\ early \subseteq Seqs

LEMMA TabTypes ==
  ASSUME RealtimeTypeOK
  PROVE  /\ TabTypeOK /\ last \in Nat /\ MaxSeq \in Nat /\ QueueSize \in Nat \ {0}
         /\ Arriving \in Seq(Message) /\ Published \subseteq projected /\ Published \subseteq 1..last
         /\ Seqs \subseteq Nat /\ Published \subseteq Seqs
         /\ \A r \in resume : After = r /\ r \in 0..MaxSeq
         /\ \A n \in replayed : replayed = {n} /\ n \in 0..MaxSeq
<1>1. MaxSeq \in Nat /\ QueueSize \in Nat \ {0} /\ last \in 0..MaxSeq /\ projected \subseteq 1..last
  BY RealtimeAssumption DEF RealtimeTypeOK
<1>2. Published \subseteq projected
  BY DEF Published
<1>3. Arriving \in Seq(Message)
  <2>1. got \in Seq(Message) /\ queue \in Seq(Message)
    BY DEF RealtimeTypeOK
  <2> QED BY <2>1, ConcatProperties DEF Arriving
<1>4. ASSUME NEW S \in Optional, NEW r \in S PROVE S = {r} /\ r \in 0..MaxSeq
  BY <1>4 DEF Optional
<1>5. resume \in Optional /\ replayed \in Optional
  BY DEF RealtimeTypeOK
<1>6. ASSUME NEW r \in resume PROVE After = r
  <2>1. resume = {r}
    BY <1>4, <1>5
  <2> QED BY <2>1 DEF After
<1>7. TabTypeOK
  BY DEF TabTypeOK, RealtimeTypeOK
<1>8. Seqs \subseteq Nat /\ Published \subseteq 1..last /\ Published \subseteq Seqs
  BY <1>1, <1>2 DEF Seqs
<1> QED BY <1>1, <1>2, <1>3, <1>4, <1>5, <1>6, <1>7, <1>8

\* While the tab is where it is nothing changes for it.
LEMMA TabStays ==
  ASSUME RealtimeInv, Published' = Published, nakked' = {} => nakked = {}, last' \in Nat, last <= last',
         UNCHANGED <<phase, held, queue, replayed, resume, dirty, shown, got, early>>
  PROVE  TabInv'
<1>1. NotLiveInv /\ HeldInv /\ LiveInv /\ NothingMissed
  BY DEF RealtimeInv, TabInv
<1>2. last \in Nat /\ \A n \in replayed : n \in Nat
  BY TabTypes DEF RealtimeInv
<1>3. Arriving' = Arriving /\ Holding' = Holding
  BY DEF Arriving, Holding
<1>4. NotLiveInv'
  BY <1>1, <1>3 DEF NotLiveInv, Holding
<1>5. HeldInv'
  <2>1. \A n \in replayed : n <= last => n <= last'
    BY <1>2
  <2> QED BY <1>1, <1>3, <2>1 DEF HeldInv
<1>6. LiveInv'
  BY <1>1, <1>3 DEF LiveInv, InOrder
<1>7. NothingMissed'
  BY <1>1 DEF NothingMissed
<1> QED BY <1>4, <1>5, <1>6, <1>7 DEF TabInv

\* A closed connection holds nothing.
LEMMA CloseKeeps ==
  ASSUME TabTypeOK, Close
  PROVE  TabInv' /\ TabTypeOK' /\ shown' = shown
<1>1. /\ phase' = "off" /\ held' = <<>> /\ queue' = <<>> /\ replayed' = {}
      /\ resume' = {} /\ got' = <<>> /\ early' = {}
      /\ UNCHANGED <<lastSeq, dirty, shown>>
  BY DEF Close
<1>2. Arriving' = <<>>
  BY <1>1 DEF Arriving
<1>3. \A k : PlacesOf(<<>>, k) = {}
  BY DEF PlacesOf
<1>4. phase' # "live" /\ Holding' = FALSE
  BY <1>1 DEF Holding
<1>5. NotLiveInv'
  <2>1. \A k \in Seqs : PlacesOf(Arriving', k) = {}
    BY <1>2, <1>3
  <2> QED BY <1>1, <1>4, <2>1 DEF NotLiveInv
<1>6. HeldInv' /\ LiveInv' /\ NothingMissed'
  BY <1>4 DEF HeldInv, LiveInv, NothingMissed
<1>7. TabTypeOK'
  <2>1. {} \in Optional /\ "off" \in Phase /\ QueueSize \in Nat
    BY RealtimeAssumption DEF Optional, Phase
  <2>2. held' \in Seq(Seqs) /\ Len(held') <= QueueSize
    BY <1>1, <2>1
  <2>3. queue' \in Seq(Message) /\ Len(queue') <= QueueSize /\ got' \in Seq(Message)
    BY <1>1, <2>1
  <2> QED BY <1>1, <2>1, <2>2, <2>3 DEF TabTypeOK
<1> QED BY <1>1, <1>5, <1>6, <1>7 DEF TabInv

\* An event is sent that was not, and that is newer than all the hub had.
LEMMA SentKeeps ==
  ASSUME RealtimeInv, NEW k \in Seqs, k \notin Published, Published' = Published \cup {k}, nakked' = nakked,
         nakked = {} => \A p \in Published : p < k,
         phase = "live", queue' = queue \o <<EventOf(k)>>, Len(queue) + 1 <= QueueSize,
         UNCHANGED <<phase, held, replayed, resume, lastSeq, dirty, shown, got, early>>
  PROVE  TabInv' /\ TabTypeOK'
<1>1. LiveInv /\ NotLiveInv /\ NothingMissed
  BY DEF RealtimeInv, TabInv
<1>2. /\ TabTypeOK /\ Arriving \in Seq(Message) /\ QueueSize \in Nat /\ Seqs \subseteq Nat
      /\ Published \subseteq Seqs /\ \A r \in resume : r \in Nat
  BY TabTypes DEF RealtimeInv
<1>3. PICK t : t = <<EventOf(k)>>
  OBVIOUS
<1>4. /\ t \in Seq(Message) /\ Len(t) = 1 /\ t[1] = EventOf(k)
  BY <1>3, MessagesAre
<1>5. /\ PlacesOf(t, k) = {1} /\ \A n : n # k => PlacesOf(t, n) = {}
  BY <1>4, MessagesAre DEF PlacesOf
<1>6. PICK a, b : a = Arriving /\ b = Arriving'
  OBVIOUS
<1>7. a \in Seq(Message) /\ b = a \o t
  <2>1. PICK g, q : g = got /\ q = queue
    OBVIOUS
  <2>2. (g \o q) \o t = g \o (q \o t)
    <3>1. g \in Seq(Message) /\ q \in Seq(Message)
      BY <1>2, <2>1 DEF TabTypeOK
    <3> QED BY <1>4, <3>1, ConcatAssociative
  <2> QED BY <1>2, <1>3, <1>6, <2>1, <2>2 DEF Arriving
<1>8. TabTypeOK'
  <2>1. PICK q : q = queue
    OBVIOUS
  <2>2. q \in Seq(Message)
    BY <1>2, <2>1 DEF TabTypeOK
  <2>3. q \o t \in Seq(Message) /\ Len(q \o t) = Len(q) + 1
    <3>1. q \o t \in Seq(Message) /\ Len(q \o t) = Len(q) + Len(t)
      BY <1>4, <2>2, ConcatProperties
    <3> QED BY <1>4, <3>1
  <2> QED BY <1>2, <1>3, <2>1, <2>3 DEF TabTypeOK
<1>9. NotLiveInv' /\ HeldInv'
  BY <1>1 DEF NotLiveInv, HeldInv, Holding
<1>10. \A n \in Seqs :
         /\ Cardinality(PlacesOf(a, n)) \in Nat
         /\ n # k => PlacesOf(b, n) = PlacesOf(a, n)
         /\ n = k => Cardinality(PlacesOf(b, n)) = Cardinality(PlacesOf(a, n)) + 1
         /\ PlacesOf(a, n) # {} => PlacesOf(b, n) # {}
  <2>1. SUFFICES ASSUME NEW n \in Seqs
                 PROVE  /\ Cardinality(PlacesOf(a, n)) \in Nat
                        /\ n # k => PlacesOf(b, n) = PlacesOf(a, n)
                        /\ n = k => Cardinality(PlacesOf(b, n)) = Cardinality(PlacesOf(a, n)) + 1
                        /\ PlacesOf(a, n) # {} => PlacesOf(b, n) # {}
    OBVIOUS
  <2>2. PlacesOf(t, n) \subseteq {1}
    BY <1>5
  <2>3. /\ Cardinality(PlacesOf(a, n)) \in Nat
        /\ PlacesOf(t, n) = {} => PlacesOf(b, n) = PlacesOf(a, n)
        /\ PlacesOf(t, n) # {} => Cardinality(PlacesOf(b, n)) = Cardinality(PlacesOf(a, n)) + 1
    BY <1>4, <1>7, <2>2, CountJoined
  <2>4. PlacesOf(a, n) \subseteq PlacesOf(b, n)
    BY <1>4, <1>7, PlacesJoined
  <2> QED BY <1>5, <2>3, <2>4
<1>11. \A n \in Seqs :
         Cardinality(PlacesOf(a, n)) <= (IF n \in Published THEN 1 ELSE 0) + (IF n \in early THEN 1 ELSE 0)
  BY <1>1, <1>6 DEF LiveInv
<1>12. \A n \in early : /\ resume # {}
                        /\ \A r \in resume, m \in Seqs : r < m /\ m <= n => PlacesOf(a, m) # {}
  BY <1>1, <1>6 DEF LiveInv
<1>13. ASSUME nakked = {} PROVE InOrder(b)
  <2>1. InOrder(a)
    BY <1>1, <1>6, <1>13 DEF LiveInv
  <2>2. Follows(a, t, 1, k)
    <3>1. SUFFICES ASSUME PlacesOf(a, k) = {}, \A r \in resume : ~(k <= r), NEW n \in Seqs
                   PROVE  /\ PlacesOf(a, n) # {} => n < k
                          /\ \A i \in PlacesOf(t, n) : i < 1 => n < k
      BY DEF Follows
    <3>2. \A i \in PlacesOf(t, n) : ~(i < 1)
      BY <1>5
    <3>3. ASSUME PlacesOf(a, n) # {} PROVE n < k
      <4>1. n \in Published \/ n \in early
        <5>1. SUFFICES ASSUME n \notin Published, n \notin early PROVE FALSE
          OBVIOUS
        <5>2. Cardinality(PlacesOf(a, n)) <= 0 /\ Cardinality(PlacesOf(a, n)) \in Nat
          BY <1>10, <1>11, <5>1
        <5>3. Cardinality(PlacesOf(a, n)) = 0
          BY <5>2
        <5>4. IsFiniteSet(PlacesOf(a, n))
          <6>1. PlacesOf(a, n) \in SUBSET (1..Len(a)) /\ Len(a) \in Nat
            BY <1>4, <1>7, PlacesJoined
          <6>2. IsFiniteSet(1..Len(a))
            BY <6>1, FS_Interval
          <6> QED BY <6>1, <6>2, FS_Subset
        <5> QED BY <3>3, <5>3, <5>4, FS_EmptySet
      <4>2. CASE n \in Published
        BY <1>13, <4>2
      <4>3. CASE n \in early
        <5>1. PICK r \in resume : TRUE
          BY <1>12, <4>3
        <5>2. r < k /\ k \in Nat /\ n \in Nat
          BY <1>2, <3>1, <5>1
        <5>3. k <= n => PlacesOf(a, k) # {}
          BY <1>12, <4>3, <5>1, <5>2
        <5> QED BY <3>1, <5>2, <5>3
      <4> QED BY <4>1, <4>2, <4>3
    <3> QED BY <3>2, <3>3
  <2>3. \A n \in Seqs : \A j \in PlacesOf(t, n) : n = k /\ j = 1
    BY <1>5
  <2> QED BY <1>4, <1>7, <2>1, <2>2, <2>3, OrderJoined
<1>14. LiveInv'
  <2>1. \A n \in Seqs :
          Cardinality(PlacesOf(b, n)) <= (IF n \in Published' THEN 1 ELSE 0) + (IF n \in early THEN 1 ELSE 0)
    <3>1. SUFFICES ASSUME NEW n \in Seqs
                   PROVE  Cardinality(PlacesOf(b, n)) <=
                            (IF n \in Published' THEN 1 ELSE 0) + (IF n \in early THEN 1 ELSE 0)
      OBVIOUS
    <3>2. CASE n = k
      <4>1. n \notin Published /\ n \in Published'
        BY <3>2
      <4> QED BY <1>10, <1>11, <3>2, <4>1
    <3>3. CASE n # k
      <4>1. n \in Published' <=> n \in Published
        BY <3>3
      <4> QED BY <1>10, <1>11, <3>3, <4>1
    <3> QED BY <3>2, <3>3
  <2>2. \A n \in early : /\ resume # {}
                         /\ \A r \in resume, m \in Seqs : r < m /\ m <= n => PlacesOf(b, m) # {}
    BY <1>10, <1>12
  <2>3. nakked = {} => InOrder(b)'
    BY <1>13 DEF InOrder
  <2> QED BY <1>6, <2>1, <2>2, <2>3 DEF LiveInv, InOrder
<1>15. NothingMissed'
  <2>1. PICK q, u : q = queue /\ u = queue'
    OBVIOUS
  <2>2. /\ Len(u) = Len(q) + 1 /\ Len(q) \in Nat /\ u[Len(q) + 1] = EventOf(k)
        /\ \A i \in 1..Len(q) : i \in 1..Len(u) /\ u[i] = q[i]
    <3>1. q \in Seq(Message)
      BY <1>2, <2>1 DEF TabTypeOK
    <3>2. u = q \o t
      BY <1>3, <2>1
    <3>3. /\ Len(u) = Len(q) + 1 /\ Len(q) \in Nat
          /\ \A i \in 1..(Len(q) + 1) : u[i] = IF i <= Len(q) THEN q[i] ELSE t[i - Len(q)]
      BY <1>4, <3>1, <3>2, ConcatProperties, LenProperties
    <3> QED BY <1>4, <3>3
  <2>3. \A r \in resume : \A p \in Published : p > r =>
          p \in shown \/ dirty \/ \E i \in 1..Len(q) : q[i] \in {EventOf(p), Resync}
    BY <1>1, <2>1 DEF NothingMissed
  <2>4. Len(q) + 1 \in 1..Len(u)
    BY <2>2
  <2>5. \A r \in resume : \A p \in Published' : p > r =>
          p \in shown \/ dirty \/ \E i \in 1..Len(u) : u[i] \in {EventOf(p), Resync}
    <3>1. SUFFICES ASSUME NEW r \in resume, NEW p \in Published', p > r, p \notin shown, ~dirty
                   PROVE  \E i \in 1..Len(u) : u[i] \in {EventOf(p), Resync}
      OBVIOUS
    <3>2. CASE p = k
      BY <2>2, <2>4, <3>2
    <3>3. CASE p # k
      <4>1. p \in Published
        BY <3>1, <3>3
      <4>2. \E i \in 1..Len(q) : q[i] \in {EventOf(p), Resync}
        BY <2>3, <3>1, <4>1
      <4> QED BY <2>2, <4>2
    <3> QED BY <3>2, <3>3
  <2> QED BY <2>1, <2>5 DEF NothingMissed
<1> QED BY <1>8, <1>9, <1>14, <1>15 DEF TabInv

\* An event is held that was not, and that is newer than all the hub had.
LEMMA HoldKeeps ==
  ASSUME RealtimeInv, NEW k \in Seqs, k \notin Published, Published' = Published \cup {k}, nakked' = nakked,
         nakked = {} => \A p \in Published : p < k,
         Holding, held' = Append(held, k), Len(held) < QueueSize,
         UNCHANGED <<last, phase, queue, replayed, resume, lastSeq, dirty, shown, got, early>>
  PROVE  TabInv' /\ TabTypeOK'
<1>1. HeldInv /\ NotLiveInv
  BY DEF RealtimeInv, TabInv
<1>2. TabTypeOK /\ QueueSize \in Nat
  BY TabTypes DEF RealtimeInv
<1>3. PICK h, u : h = held /\ u = held'
  OBVIOUS
<1>4. /\ u \in Seq(Seqs) /\ Len(u) = Len(h) + 1 /\ Len(h) \in Nat /\ u[Len(h) + 1] = k
      /\ \A i \in 1..Len(h) : i \in 1..Len(u) /\ u[i] = h[i]
      /\ \A i \in 1..Len(u) : i \in 1..Len(h) \/ i = Len(h) + 1
  <2>1. h \in Seq(Seqs)
    BY <1>2, <1>3 DEF TabTypeOK
  <2>2. u = Append(h, k)
    BY <1>3
  <2>3. /\ u \in Seq(Seqs) /\ Len(u) = Len(h) + 1 /\ Len(h) \in Nat /\ u[Len(h) + 1] = k
        /\ \A i \in 1..Len(h) : u[i] = h[i]
    BY <2>1, <2>2, AppendProperties, LenProperties
  <2> QED BY <2>3
<1>5. /\ \A i \in 1..Len(h) : h[i] \in Published /\ h[i] # k
      /\ \A i, j \in 1..Len(h) : h[i] = h[j] => i = j
      /\ nakked = {} => \A i, j \in 1..Len(h) : i < j => h[i] < h[j]
      /\ \A n \in replayed : n <= last /\ \A p \in Published : p <= n \/ \E i \in 1..Len(h) : h[i] = p
  BY <1>1, <1>3 DEF HeldInv
<1>6. HeldInv'
  <2>1. \A i \in 1..Len(u) : u[i] \in Published'
    BY <1>4, <1>5
  <2>2. \A i, j \in 1..Len(u) : u[i] = u[j] => i = j
    BY <1>4, <1>5
  <2>3. nakked = {} => \A i, j \in 1..Len(u) : i < j => u[i] < u[j]
    <3>1. SUFFICES ASSUME nakked = {}, NEW i \in 1..Len(u), NEW j \in 1..Len(u), i < j PROVE u[i] < u[j]
      OBVIOUS
    <3>2. i \in 1..Len(h)
      BY <1>4, <3>1
    <3>3. CASE j \in 1..Len(h)
      BY <1>4, <1>5, <3>1, <3>2, <3>3
    <3>4. CASE j = Len(h) + 1
      BY <1>4, <1>5, <3>1, <3>2, <3>4
    <3> QED BY <1>4, <3>3, <3>4
  <2>4. \A n \in replayed : n <= last /\ \A p \in Published' : p <= n \/ \E i \in 1..Len(u) : u[i] = p
    <3>1. Len(h) + 1 \in 1..Len(u)
      BY <1>4
    <3> QED BY <1>4, <1>5, <3>1
  <2> QED BY <1>3, <2>1, <2>2, <2>3, <2>4 DEF HeldInv
<1>7. phase # "live" /\ phase' # "live" /\ Holding'
  BY DEF Holding
<1>8. LiveInv' /\ NothingMissed'
  BY <1>7 DEF LiveInv, NothingMissed
<1>9. NotLiveInv'
  <2>1. Arriving' = Arriving
    BY DEF Arriving
  <2> QED BY <1>1, <1>7, <2>1 DEF NotLiveInv
<1>10. TabTypeOK'
  <2>1. held' \in Seq(Seqs) /\ Len(held') <= QueueSize
    BY <1>2, <1>3, <1>4
  <2> QED BY <1>2, <2>1 DEF TabTypeOK
<1> QED BY <1>6, <1>8, <1>9, <1>10 DEF TabInv

LEMMA HubPublishKeeps ==
  ASSUME RealtimeInv, NEW k \in Seqs, k \notin Published, Published' = Published \cup {k}, nakked' = nakked,
         nakked = {} => \A p \in Published : p < k, last' = last, HubPublish(k)
  PROVE  TabInv' /\ TabTypeOK' /\ shown' = shown
<1>1. TabTypeOK /\ QueueSize \in Nat \ {0} /\ TabInv
  BY TabTypes DEF RealtimeInv
<1>2. Len(held) \in Nat /\ Len(held) <= QueueSize /\ Len(queue) \in Nat
  BY <1>1 DEF TabTypeOK
<1>3. CASE Holding /\ Len(held) = QueueSize
  <2>1. ~(Len(held) < QueueSize) /\ phase # "live"
    BY <1>1, <1>3 DEF Holding
  <2>2. Close
    BY <1>3, <2>1 DEF HubPublish
  <2> QED BY <1>1, <2>2, CloseKeeps
<1>4. CASE Holding /\ Len(held) < QueueSize
  <2>1. ~(Len(held) = QueueSize) /\ phase # "live"
    BY <1>1, <1>2, <1>4 DEF Holding
  <2>2. held' = Append(held, k) /\ UNCHANGED <<phase, queue, replayed, browser, history>>
    BY <1>4, <2>1 DEF HubPublish
  <2>3. UNCHANGED <<last, phase, queue, replayed, resume, lastSeq, dirty, shown, got, early>>
    BY <2>2 DEF browser, history
  <2> QED BY <1>4, <2>2, <2>3, HoldKeeps
<1>5. CASE phase = "live"
  <2>1. ~Holding
    BY <1>5 DEF Holding
  <2>2. Enqueue(<<EventOf(k)>>)
    BY <1>5, <2>1 DEF HubPublish
  <2>3. CASE Len(queue) + 1 > QueueSize
    <3>1. Close
      BY <2>2, <2>3 DEF Enqueue
    <3> QED BY <1>1, <3>1, CloseKeeps
  <2>4. CASE ~(Len(queue) + 1 > QueueSize)
    <3>1. /\ queue' = queue \o <<EventOf(k)>> /\ Len(queue) + 1 <= QueueSize
          /\ UNCHANGED <<phase, held, replayed, resume, lastSeq, dirty, shown, got, early>>
      BY <1>1, <1>2, <2>2, <2>4 DEF Enqueue, Stay
    <3> QED BY <1>5, <3>1, SentKeeps
  <2> QED BY <2>3, <2>4
<1>6. CASE ~Holding /\ phase # "live"
  <2>1. UNCHANGED <<client, browser, history>>
    BY <1>6 DEF HubPublish
  <2>2. UNCHANGED <<phase, held, queue, replayed, resume, lastSeq, dirty, shown, got, early>>
    BY <2>1 DEF client, browser, history
  <2>3. Arriving' = Arriving /\ Holding' = FALSE /\ phase' # "live"
    BY <1>6, <2>2 DEF Arriving, Holding
  <2>4. NotLiveInv'
    BY <1>1, <1>6, <2>2, <2>3 DEF TabInv, NotLiveInv
  <2>5. HeldInv' /\ LiveInv' /\ NothingMissed'
    BY <2>3 DEF HeldInv, LiveInv, NothingMissed
  <2>6. TabTypeOK'
    BY <1>1, <2>2 DEF TabTypeOK
  <2> QED BY <2>2, <2>4, <2>5, <2>6 DEF TabInv
<1>7. Len(held) = QueueSize \/ Len(held) < QueueSize
  BY <1>1, <1>2
<1> QED BY <1>3, <1>4, <1>5, <1>6, <1>7

------------------------------------------------------------------------------
(* The end of a replay.                                                      *)

\* What was missed and what was held make one sequence: each event once and in order,
\* and all that the hub has published after resumeFrom.
LEMMA ReplayIs ==
  ASSUME RealtimeInv, phase = "read", NEW s, s = Missed \o Newer
  PROVE  /\ s \in Seq(Seqs)
         /\ \A i, j \in 1..Len(s) : s[i] = s[j] => i = j
         /\ nakked = {} => \A i, j \in 1..Len(s) : i < j => s[i] < s[j]
         /\ \A i \in 1..Len(s) : s[i] \in Published \/ s[i] \in ElementsOf(Missed)
         /\ \A n \in replayed, r \in resume, k \in Published : k > r => \E i \in 1..Len(s) : s[i] = k
         /\ ElementsOf(Missed) \subseteq Seqs
         /\ \A n \in ElementsOf(Missed), r \in resume, k \in Seqs : r < k /\ k <= n => \E i \in 1..Len(s) : s[i] = k
<1>1. Holding /\ resume # {} /\ HeldInv
  BY DEF RealtimeInv, TabInv, NotLiveInv, Holding
<1>2. PICK r \in resume : TRUE
  BY <1>1
<1>3. /\ After = r /\ r \in Nat /\ resume = {r} /\ MaxSeq \in Nat /\ Published \subseteq Seqs /\ Seqs \subseteq Nat
  <2>1. resume \in Optional
    BY DEF RealtimeInv, RealtimeTypeOK
  <2>2. resume = {r}
    BY <1>2, <2>1 DEF Optional
  <2> QED BY <1>2, <2>2, TabTypes DEF RealtimeInv
<1>4. PICK m, h, w : m = Missed /\ h = held /\ w = Newer
  OBVIOUS
<1>5. \E c \in Nat : /\ m = [i \in 1..c |-> r + i] /\ (c # 0 => r + c <= MaxSeq)
                     /\ \A n \in replayed : (n > r => r + c = n) /\ (n <= r => c = 0)
  <2>1. CASE replayed = {}
    <3>1. m = <<>>
      BY <1>4, <2>1 DEF Missed
    <3>2. <<>> = [i \in 1..0 |-> r + i]
      OBVIOUS
    <3> QED BY <2>1, <3>1, <3>2
  <2>2. CASE replayed # {}
    <3>1. PICK n \in replayed : replayed = {n} /\ n \in 0..MaxSeq
      BY <2>2, TabTypes DEF RealtimeInv
    <3>2. PICK c : c = IF n > r THEN n - r ELSE 0
      OBVIOUS
    <3>3. c \in Nat /\ (c # 0 => r + c <= MaxSeq) /\ (n > r => r + c = n) /\ (n <= r => c = 0)
      BY <1>3, <3>1, <3>2
    <3>4. (CHOOSE x \in replayed : TRUE) = n
      BY <3>1
    <3>5. Missed = [i \in 1..(IF n > r THEN n - r ELSE 0) |-> r + i]
      BY <1>3, <2>2, <3>4 DEF Missed
    <3> QED BY <1>4, <3>1, <3>2, <3>3, <3>5
  <2> QED BY <2>1, <2>2
<1>6. PICK c \in Nat : /\ m = [i \in 1..c |-> r + i] /\ (c # 0 => r + c <= MaxSeq)
                       /\ \A n \in replayed : (n > r => r + c = n) /\ (n <= r => c = 0)
  BY <1>5
<1>7. m \in Seq(Seqs) /\ Len(m) = c /\ \A i \in 1..c : m[i] = r + i /\ r + i \in Seqs
  <2>1. \A i \in 1..c : r + i \in Seqs
    BY <1>3, <1>6 DEF Seqs
  <2>2. m \in [1..c -> Seqs]
    BY <1>6, <2>1
  <2> QED BY <1>6, <2>1, <2>2
<1>8. ElementsOf(m) = {r + i : i \in 1..c}
  BY <1>7 DEF ElementsOf
<1>9. /\ h \in Seq(Seqs) /\ Len(h) \in Nat
      /\ \A i \in 1..Len(h) : h[i] \in Published
      /\ \A i, j \in 1..Len(h) : h[i] = h[j] => i = j
      /\ nakked = {} => \A i, j \in 1..Len(h) : i < j => h[i] < h[j]
      /\ \A n \in replayed : \A p \in Published : p <= n \/ \E i \in 1..Len(h) : h[i] = p
  <2>1. h \in Seq(Seqs) /\ Len(h) \in Nat
    BY <1>4, TabTypes DEF RealtimeInv, TabTypeOK
  <2> QED BY <1>1, <1>4, <2>1 DEF HeldInv
<1> DEFINE S == {i \in 1..Len(h) : \A x \in ElementsOf(m) : h[i] > x}
<1>10. S \in SUBSET (1..Len(h)) /\ w = AtPlaces(h, S)
  BY <1>4 DEF Newer
<1>11. w \in Seq(Seqs) /\ Len(w) \in Nat /\ \E f : Numbered(f, S, h, w)
  <2>1. PICK P : P = S
    OBVIOUS
  <2> HIDE DEF S
  <2>2. P \in SUBSET (1..Len(h)) /\ w = AtPlaces(h, P)
    BY <1>10, <2>1
  <2>3. w \in Seq(Seqs) /\ \E f : Numbered(f, P, h, w)
    BY <1>9, <2>2, PartIs
  <2> QED BY <2>1, <2>3, LenProperties
<1>12. PICK f : /\ \A i \in 1..Len(w) : f[i] \in S /\ w[i] = h[f[i]]
                /\ \A i, j \in 1..Len(w) : i < j => f[i] < f[j]
                /\ \A x \in S : \E i \in 1..Len(w) : f[i] = x
  BY <1>11 DEF Numbered
<1>13. \A i \in S : i \in 1..Len(h) /\ \A j \in 1..c : h[i] > r + j
  BY <1>8
<1>14. \A i \in 1..Len(h) : (\A j \in 1..c : h[i] > r + j) => i \in S
  BY <1>8
<1> HIDE DEF S
<1>15. \A i \in 1..Len(w) : w[i] \in Published /\ w[i] \in Nat /\ \A j \in 1..c : w[i] > r + j
  BY <1>3, <1>9, <1>12, <1>13
<1>16. \A i, j \in 1..Len(w) : i < j => w[i] # w[j] /\ (nakked = {} => w[i] < w[j])
  <2>1. SUFFICES ASSUME NEW i \in 1..Len(w), NEW j \in 1..Len(w), i < j
                 PROVE  w[i] # w[j] /\ (nakked = {} => w[i] < w[j])
    OBVIOUS
  <2>2. PICK x, y : x = f[i] /\ y = f[j]
    OBVIOUS
  <2>3. x < y /\ x \in 1..Len(h) /\ y \in 1..Len(h) /\ w[i] = h[x] /\ w[j] = h[y]
    BY <1>12, <1>13, <2>1, <2>2
  <2>4. x # y
    BY <2>3
  <2> QED BY <1>9, <2>3, <2>4
<1>17. /\ s \in Seq(Seqs) /\ Len(s) = c + Len(w)
       /\ \A i \in 1..c : i \in 1..Len(s) /\ s[i] = r + i
       /\ \A i \in 1..Len(w) : c + i \in 1..Len(s) /\ s[c + i] = w[i]
       /\ \A i \in 1..Len(s) : i \in 1..c \/ (i > c /\ i - c \in 1..Len(w) /\ s[i] = w[i - c])
  <2>1. s = m \o w
    BY <1>4
  <2>2. /\ s \in Seq(Seqs) /\ Len(s) = c + Len(w)
        /\ \A i \in 1..(c + Len(w)) : s[i] = IF i <= c THEN m[i] ELSE w[i - c]
    <3>1. /\ m \o w \in Seq(Seqs) /\ Len(m \o w) = Len(m) + Len(w)
          /\ \A i \in 1..(Len(m) + Len(w)) : (m \o w)[i] = IF i <= Len(m) THEN m[i] ELSE w[i - Len(m)]
      BY <1>7, <1>11, ConcatProperties
    <3> QED BY <1>7, <2>1, <3>1
  <2>3. \A i \in 1..c : i \in 1..Len(s) /\ s[i] = r + i
    BY <1>7, <1>11, <2>2
  <2>4. \A i \in 1..Len(w) : c + i \in 1..Len(s) /\ s[c + i] = w[i]
    <3>1. \A i \in 1..Len(w) : c + i \in 1..(c + Len(w)) /\ ~(c + i <= c) /\ (c + i) - c = i
      BY <1>11
    <3> QED BY <2>2, <3>1
  <2>5. \A i \in 1..Len(s) : i \in 1..c \/ (i > c /\ i - c \in 1..Len(w) /\ s[i] = w[i - c])
    BY <1>11, <2>2
  <2> QED BY <2>2, <2>3, <2>4, <2>5
<1>18. \A i, j \in 1..Len(s) : i < j => s[i] # s[j] /\ (nakked = {} => s[i] < s[j])
  <2>1. SUFFICES ASSUME NEW i \in 1..Len(s), NEW j \in 1..Len(s), i < j
                 PROVE  s[i] # s[j] /\ (nakked = {} => s[i] < s[j])
    OBVIOUS
  <2>2. CASE i \in 1..c /\ j \in 1..c
    BY <1>3, <1>17, <2>1, <2>2
  <2>3. CASE i \in 1..c /\ j \notin 1..c
    <3>1. s[i] = r + i /\ j - c \in 1..Len(w) /\ s[j] = w[j - c]
      BY <1>17, <2>3
    <3>2. s[j] > r + i /\ s[j] \in Nat
      BY <1>15, <2>3, <3>1
    <3> QED BY <1>3, <2>3, <3>1, <3>2
  <2>4. CASE i \notin 1..c
    <3>1. PICK x, y : x = i - c /\ y = j - c
      OBVIOUS
    <3>2. x \in 1..Len(w) /\ s[i] = w[x] /\ i > c
      BY <1>17, <2>4, <3>1
    <3>3. j \notin 1..c
      BY <2>1, <3>2
    <3>4. y \in 1..Len(w) /\ s[j] = w[y] /\ x < y
      BY <1>17, <2>1, <3>1, <3>3
    <3> QED BY <1>16, <3>2, <3>4
  <2> QED BY <2>2, <2>3, <2>4
<1>19. \A i, j \in 1..Len(s) : s[i] = s[j] => i = j
  <2>1. \A i, j \in 1..Len(s) : i < j \/ j < i \/ i = j
    OBVIOUS
  <2> QED BY <1>18, <2>1
<1>20. \A i \in 1..Len(s) : s[i] \in Published \/ s[i] \in ElementsOf(m)
  BY <1>8, <1>15, <1>17
<1>21. \A k \in Seqs : r < k /\ k <= r + c => \E i \in 1..Len(s) : s[i] = k
  <2>1. SUFFICES ASSUME NEW k \in Seqs, r < k, k <= r + c PROVE \E i \in 1..Len(s) : s[i] = k
    OBVIOUS
  <2>2. k - r \in 1..c /\ r + (k - r) = k
    BY <1>3, <2>1
  <2> QED BY <1>17, <2>2
<1>22. \A n \in replayed, k \in Published : k > r => \E i \in 1..Len(s) : s[i] = k
  <2>1. SUFFICES ASSUME NEW n \in replayed, NEW k \in Published, k > r PROVE \E i \in 1..Len(s) : s[i] = k
    OBVIOUS
  <2>2. n \in Nat /\ k \in Nat /\ k \in Seqs
    BY <1>3, TabTypes DEF RealtimeInv
  <2>3. CASE k <= r + c
    BY <1>3, <1>21, <2>1, <2>2, <2>3
  <2>4. CASE ~(k <= r + c)
    <3>1. ~(k <= n)
      BY <1>3, <1>6, <2>1, <2>2, <2>4
    <3>2. PICK i \in 1..Len(h) : h[i] = k
      BY <1>9, <2>1, <3>1
    <3>3. \A j \in 1..c : h[i] > r + j
      BY <1>3, <2>2, <2>4, <3>2
    <3>4. PICK j \in 1..Len(w) : f[j] = i
      BY <1>12, <1>14, <3>2, <3>3
    <3>5. s[c + j] = k /\ c + j \in 1..Len(s)
      BY <1>12, <1>17, <3>2, <3>4
    <3> QED BY <3>5
  <2> QED BY <2>3, <2>4
<1>23. ElementsOf(m) \subseteq Seqs
  BY <1>7, <1>8
<1>24. \A n \in ElementsOf(m), k \in Seqs : r < k /\ k <= n => \E i \in 1..Len(s) : s[i] = k
  <2>1. \A n \in ElementsOf(m) : n \in Nat /\ n <= r + c
    BY <1>3, <1>8
  <2>2. \A n \in ElementsOf(m), k \in Seqs : k <= n => k <= r + c
    BY <1>3, <2>1
  <2> QED BY <1>21, <2>2
<1>25. \A n \in replayed, q \in resume, k \in Published : k > q => \E i \in 1..Len(s) : s[i] = k
  BY <1>3, <1>22
<1>26. \A n \in ElementsOf(m), q \in resume, k \in Seqs : q < k /\ k <= n => \E i \in 1..Len(s) : s[i] = k
  BY <1>3, <1>24
<1>27. nakked = {} => \A i, j \in 1..Len(s) : i < j => s[i] < s[j]
  BY <1>18
<1>28. s \in Seq(Seqs)
  BY <1>17
<1> QED BY <1>4, <1>19, <1>20, <1>23, <1>25, <1>26, <1>27, <1>28

\* The messages of a sequence of events, and resync behind them if there was no replay.
PutsOut(out, s) ==
  /\ \A i \in 1..Len(s) : i \in 1..Len(out) /\ out[i] = EventOf(s[i]) /\ i \in PlacesOf(out, s[i])
  /\ \A k : \A i \in PlacesOf(out, k) : i \in 1..Len(s) /\ s[i] = k

LEMMA OutIs ==
  ASSUME NEW s \in Seq(Seqs), NEW z, z = <<>> \/ z = <<Resync>>,
         NEW e \in Seq(Message), Len(e) = Len(s), \A i \in 1..Len(s) : e[i] = EventOf(s[i])
  PROVE  /\ e \o z \in Seq(Message) /\ Len(e \o z) \in Nat /\ PutsOut(e \o z, s)
         /\ z = <<Resync>> => \E i \in 1..Len(e \o z) : (e \o z)[i] = Resync
<1>1. PICK out : out = e \o z
  OBVIOUS
<1>2. Len(s) \in Nat /\ \A i \in 1..Len(s) : s[i] \in Seqs
  BY LenProperties
<1>3. e \in Seq(Message) /\ Len(e) = Len(s) /\ \A i \in 1..Len(s) : e[i] = EventOf(s[i])
  OBVIOUS
<1>4. /\ z \in Seq(Message) /\ Len(z) \in Nat /\ \A i \in 1..Len(z) : z[i] = Resync
      /\ z = <<Resync>> => Len(z) = 1
  <2>1. CASE z = <<>>
    <3>1. z \in Seq(Message) /\ Len(z) = 0 /\ z # <<Resync>>
      BY <2>1
    <3> QED BY <3>1
  <2>2. CASE z = <<Resync>>
    <3>1. Resync \in Message
      BY MessagesAre
    <3>2. z \in Seq(Message) /\ Len(z) = 1 /\ z[1] = Resync
      BY <2>2, <3>1
    <3> QED BY <3>2
  <2> QED BY <2>1, <2>2
<1>5. /\ out \in Seq(Message) /\ Len(out) = Len(s) + Len(z)
      /\ \A i \in 1..(Len(s) + Len(z)) : out[i] = IF i <= Len(s) THEN e[i] ELSE z[i - Len(s)]
  <2>1. /\ e \o z \in Seq(Message) /\ Len(e \o z) = Len(e) + Len(z)
        /\ \A i \in 1..(Len(e) + Len(z)) : (e \o z)[i] = IF i <= Len(e) THEN e[i] ELSE z[i - Len(e)]
    BY <1>4, ConcatProperties
  <2> QED BY <1>1, <1>3, <2>1
<1>6. \A i \in 1..Len(s) : i \in 1..Len(out) /\ out[i] = EventOf(s[i])
  BY <1>2, <1>3, <1>4, <1>5
<1>7. \A i \in 1..Len(out) : i \in 1..Len(s) \/ out[i] = Resync
  BY <1>2, <1>4, <1>5
<1>8. \A i \in 1..Len(s) : i \in PlacesOf(out, s[i])
  BY <1>6 DEF PlacesOf
<1>9. \A k : \A i \in PlacesOf(out, k) : i \in 1..Len(s) /\ s[i] = k
  <2>1. SUFFICES ASSUME NEW k, NEW i \in PlacesOf(out, k) PROVE i \in 1..Len(s) /\ s[i] = k
    OBVIOUS
  <2>2. i \in 1..Len(out) /\ out[i] = EventOf(k)
    BY <2>1 DEF PlacesOf
  <2>3. i \in 1..Len(s)
    BY <1>7, <2>2, MessagesAre
  <2> QED BY <1>6, <2>2, <2>3, MessagesAre
<1>10. ASSUME z = <<Resync>> PROVE \E i \in 1..Len(out) : out[i] = Resync
  <2>1. Len(s) + 1 \in 1..Len(out) /\ ~(Len(s) + 1 <= Len(s)) /\ (Len(s) + 1) - Len(s) = 1 /\ 1 \in 1..Len(z)
    BY <1>2, <1>4, <1>5, <1>10
  <2>2. out[Len(s) + 1] = Resync
    BY <1>4, <1>5, <2>1
  <2> QED BY <2>1, <2>2
<1>11. PutsOut(out, s)
  BY <1>6, <1>8, <1>9 DEF PutsOut
<1>12. Len(out) \in Nat
  BY <1>2, <1>4, <1>5
<1> QED BY <1>1, <1>5, <1>10, <1>11, <1>12

LEMMA EndReplayKeeps ==
  ASSUME RealtimeInv, EndReplay
  PROVE  TabInv' /\ TabTypeOK' /\ shown' = shown
<1>1. PICK s, z, out :
        /\ s = Missed \o Newer /\ z = IF replayed = {} THEN <<Resync>> ELSE <<>>
        /\ out = [i \in 1..Len(s) |-> EventOf(s[i])] \o z
        /\ IF Len(queue) + Len(out) > QueueSize THEN Close
           ELSE /\ phase' = "live" /\ held' = <<>> /\ replayed' = {}
                /\ queue' = queue \o out
                /\ early' = ElementsOf(Missed) \ Published
                /\ Stay
  BY DEF EndReplay
<1>2. phase = "read" /\ UNCHANGED <<consumer, loopCalls>>
  BY DEF EndReplay
<1>3. UNCHANGED <<last, projected, nakked, announcing, loopCalls>> /\ Published' = Published
  BY <1>2 DEF consumer, Published, ElementsOf
<1>4. /\ TabTypeOK /\ QueueSize \in Nat /\ Arriving \in Seq(Message) /\ Seqs \subseteq Nat
  BY TabTypes DEF RealtimeInv
<1>5. CASE Len(queue) + Len(out) > QueueSize
  <2>1. Close
    BY <1>1, <1>5
  <2> QED BY <1>4, <2>1, CloseKeeps
<1>6. CASE ~(Len(queue) + Len(out) > QueueSize)
  <2>1. /\ phase' = "live" /\ held' = <<>> /\ replayed' = {} /\ queue' = queue \o out
        /\ early' = ElementsOf(Missed) \ Published
        /\ UNCHANGED <<resume, lastSeq, dirty, shown, got>>
    BY <1>1, <1>6 DEF Stay
  <2>2. PICK M : M = ElementsOf(Missed)
    OBVIOUS
  <2>3. /\ s \in Seq(Seqs)
        /\ \A i, j \in 1..Len(s) : s[i] = s[j] => i = j
        /\ nakked = {} => \A i, j \in 1..Len(s) : i < j => s[i] < s[j]
        /\ \A i \in 1..Len(s) : s[i] \in Published \/ s[i] \in M
        /\ \A n \in replayed, r \in resume, k \in Published : k > r => \E i \in 1..Len(s) : s[i] = k
        /\ M \subseteq Seqs
        /\ \A n \in M, r \in resume, k \in Seqs : r < k /\ k <= n => \E i \in 1..Len(s) : s[i] = k
    <3>1. /\ s \in Seq(Seqs)
          /\ \A i, j \in 1..Len(s) : s[i] = s[j] => i = j
          /\ nakked = {} => \A i, j \in 1..Len(s) : i < j => s[i] < s[j]
          /\ \A i \in 1..Len(s) : s[i] \in Published \/ s[i] \in ElementsOf(Missed)
          /\ \A n \in replayed, r \in resume, k \in Published : k > r => \E i \in 1..Len(s) : s[i] = k
          /\ ElementsOf(Missed) \subseteq Seqs
          /\ \A n \in ElementsOf(Missed), r \in resume, k \in Seqs :
               r < k /\ k <= n => \E i \in 1..Len(s) : s[i] = k
      BY <1>1, <1>2, ReplayIs, Zenon
    <3> QED BY <2>2, <3>1
  <2>4. /\ out \in Seq(Message) /\ Len(out) \in Nat
        /\ \A i \in 1..Len(s) : i \in 1..Len(out) /\ out[i] = EventOf(s[i]) /\ i \in PlacesOf(out, s[i])
        /\ \A k : \A i \in PlacesOf(out, k) : i \in 1..Len(s) /\ s[i] = k
        /\ z = <<Resync>> => \E i \in 1..Len(out) : out[i] = Resync
    <3>1. z = <<>> \/ z = <<Resync>>
      BY <1>1
    <3>2. PICK e : e = [i \in 1..Len(s) |-> EventOf(s[i])]
      OBVIOUS
    <3>3. out = e \o z /\ s \in Seq(Seqs)
      BY <1>1, <2>3, <3>2
    <3>4. e \in Seq(Message) /\ Len(e) = Len(s) /\ \A i \in 1..Len(s) : e[i] = EventOf(s[i])
      <4>1. Len(s) \in Nat /\ \A i \in 1..Len(s) : s[i] \in Seqs
        BY <3>3, LenProperties
      <4>2. \A i \in 1..Len(s) : EventOf(s[i]) \in Message
        BY <4>1, MessagesAre
      <4>3. e \in [1..Len(s) -> Message]
        BY <3>2, <4>2
      <4> QED BY <3>2, <4>1, <4>3
    <3>5. /\ out \in Seq(Message) /\ Len(out) \in Nat /\ PutsOut(out, s)
          /\ z = <<Resync>> => \E i \in 1..Len(out) : out[i] = Resync
      BY <3>1, <3>3, <3>4, OutIs
    <3> QED BY <3>5 DEF PutsOut
  <2>5. PICK a, b, q, u : a = Arriving /\ b = Arriving' /\ q = queue /\ u = queue'
    OBVIOUS
  <2>6. q \in Seq(Message) /\ u = q \o out /\ u \in Seq(Message) /\ Len(u) = Len(q) + Len(out) /\ Len(q) \in Nat
    BY <1>4, <2>1, <2>4, <2>5, ConcatProperties, LenProperties DEF TabTypeOK
  <2>7. a \in Seq(Message) /\ b = a \o out
    <3>1. PICK g : g = got
      OBVIOUS
    <3>2. g \in Seq(Message)
      BY <1>4, <3>1 DEF TabTypeOK
    <3>3. (g \o q) \o out = g \o (q \o out)
      BY <2>4, <2>6, <3>2, ConcatAssociative
    <3> QED BY <1>4, <2>1, <2>5, <2>6, <3>1, <3>3 DEF Arriving
  <2>8. \A k \in Seqs : PlacesOf(a, k) = {}
    BY <1>2, <2>5 DEF RealtimeInv, TabInv, NotLiveInv
  <2>9. TabTypeOK'
    <3>1. {} \in Optional /\ "live" \in Phase
      BY DEF Optional, Phase
    <3>2. held' \in Seq(Seqs) /\ Len(held') <= QueueSize
      BY <1>4, <2>1
    <3>3. queue' \in Seq(Message) /\ Len(queue') <= QueueSize
      BY <1>4, <1>6, <2>4, <2>5, <2>6
    <3> QED BY <1>4, <2>1, <2>2, <2>3, <3>1, <3>2, <3>3 DEF TabTypeOK
  <2>10. Holding' = FALSE
    BY <2>1 DEF Holding
  <2>11. NotLiveInv' /\ HeldInv'
    BY <2>1, <2>10 DEF NotLiveInv, HeldInv
  <2>12. \A k \in Seqs :
           Cardinality(PlacesOf(b, k)) <= (IF k \in Published THEN 1 ELSE 0) + (IF k \in early' THEN 1 ELSE 0)
    <3>1. SUFFICES ASSUME NEW k \in Seqs
                   PROVE  Cardinality(PlacesOf(b, k)) <=
                            (IF k \in Published THEN 1 ELSE 0) + (IF k \in early' THEN 1 ELSE 0)
      OBVIOUS
    <3>2. CASE PlacesOf(out, k) = {}
      <4>1. PlacesOf(b, k) = PlacesOf(a, k)
        BY <2>4, <2>7, <3>2, CountJoined
      <4>2. Cardinality(PlacesOf(b, k)) = 0
        BY <2>8, <4>1, FS_EmptySet
      <4> QED BY <4>2
    <3>3. CASE PlacesOf(out, k) # {}
      <4>1. PICK i : i \in PlacesOf(out, k)
        BY <3>3
      <4>2. PlacesOf(out, k) \subseteq {i}
        BY <2>3, <2>4, <4>1
      <4>3. Cardinality(PlacesOf(b, k)) = Cardinality(PlacesOf(a, k)) + 1
        BY <2>4, <2>7, <3>3, <4>2, CountJoined
      <4>4. Cardinality(PlacesOf(a, k)) = 0
        BY <2>8, FS_EmptySet
      <4>5. k \in Published \/ k \in early'
        BY <2>1, <2>2, <2>3, <2>4, <4>1
      <4> QED BY <4>3, <4>4, <4>5
    <3> QED BY <3>2, <3>3
  <2>13. \A n \in early' : /\ resume # {}
                           /\ \A r \in resume, k \in Seqs : r < k /\ k <= n => PlacesOf(b, k) # {}
    <3>1. SUFFICES ASSUME NEW n \in early', NEW r \in resume, NEW k \in Seqs, r < k, k <= n
                   PROVE  PlacesOf(b, k) # {}
      BY <1>2 DEF RealtimeInv, TabInv, NotLiveInv, Holding
    <3>2. n \in M
      BY <2>1, <2>2
    <3>3. PICK i \in 1..Len(s) : s[i] = k
      BY <2>3, <3>1, <3>2
    <3>4. i \in PlacesOf(out, k)
      BY <2>4, <3>3
    <3>5. PlacesOf(b, k) = PlacesOf(a, k) \cup {Len(a) + j : j \in PlacesOf(out, k)}
      BY <2>4, <2>7, PlacesJoined
    <3> QED BY <3>4, <3>5
  <2>14. nakked = {} => InOrder(b)
    <3>1. SUFFICES ASSUME nakked = {} PROVE InOrder(b)
      OBVIOUS
    <3>2. InOrder(a)
      BY <2>8 DEF InOrder
    <3>3. \A k \in Seqs : \A j \in PlacesOf(out, k) : Follows(a, out, j, k)
      <4>1. SUFFICES ASSUME NEW k \in Seqs, NEW j \in PlacesOf(out, k) PROVE Follows(a, out, j, k)
        OBVIOUS
      <4>2. \A n \in Seqs : PlacesOf(a, n) = {} /\ \A i \in PlacesOf(out, n) : i < j => n < k
        BY <2>3, <2>4, <2>8, <3>1
      <4> QED BY <4>2 DEF Follows
    <3> QED BY <2>4, <2>7, <3>2, <3>3, OrderJoined
  <2>15. LiveInv'
    <3>1. nakked' = {} => InOrder(b)'
      BY <1>3, <2>1, <2>14 DEF InOrder
    <3> QED BY <1>3, <2>1, <2>5, <2>12, <2>13, <3>1 DEF LiveInv, InOrder
  <2>16. NothingMissed'
    <3>1. SUFFICES ASSUME NEW r \in resume, NEW k \in Published, k > r
                   PROVE  \E i \in 1..Len(u) : u[i] \in {EventOf(k), Resync}
      BY <1>3, <2>1, <2>5 DEF NothingMissed
    <3>2. \A i \in 1..Len(out) : Len(q) + i \in 1..Len(u) /\ u[Len(q) + i] = out[i]
      <4>1. \A i \in 1..(Len(q) + Len(out)) : u[i] = IF i <= Len(q) THEN q[i] ELSE out[i - Len(q)]
        BY <2>4, <2>6, ConcatProperties
      <4>2. \A i \in 1..Len(out) :
              Len(q) + i \in 1..(Len(q) + Len(out)) /\ ~(Len(q) + i <= Len(q)) /\ (Len(q) + i) - Len(q) = i
        BY <2>4, <2>6
      <4> QED BY <2>6, <4>1, <4>2
    <3>3. \E i \in 1..Len(out) : out[i] \in {EventOf(k), Resync}
      <4>1. CASE replayed = {}
        BY <1>1, <2>4, <4>1
      <4>2. CASE replayed # {}
        <5>1. PICK i \in 1..Len(s) : s[i] = k
          BY <2>3, <3>1, <4>2
        <5> QED BY <2>4, <5>1
      <4> QED BY <4>1, <4>2
    <3> QED BY <3>2, <3>3
  <2> QED BY <2>1, <2>9, <2>11, <2>15, <2>16 DEF TabInv
<1> QED BY <1>5, <1>6

------------------------------------------------------------------------------
(* The steps.                                                                *)

\* The consumer and the session, what a step of the tab leaves alone.
ConsumerTypeOK ==
  /\ last \in 0..MaxSeq
  /\ projected \subseteq 1..last /\ nakked \subseteq 1..last /\ announcing \subseteq projected
  /\ loopCalls \in Seq(0..MaxSeq)
  /\ session \in BOOLEAN

LEMMA TypesTogether ==
  RealtimeTypeOK <=> ConsumerTypeOK /\ TabTypeOK /\ shown \subseteq projected /\ faults \in 0..MaxFaults
BY DEF RealtimeTypeOK, ConsumerTypeOK, TabTypeOK

LEMMA FaultsAre ==
  ASSUME faults \in 0..MaxFaults, Fault \/ faults' = faults
  PROVE  faults' \in 0..MaxFaults
BY FaultsAssumption DEF Fault

\* Steps of the consumer.
LEMMA ConsumerKeeps ==
  ASSUME RealtimeInv, NEW k \in Seqs, Emit \/ Dispatch(k) \/ DispatchFails(k) \/ Announce \/ EndSession
  PROVE  RealtimeInv'
<1>1. /\ UNCHANGED <<phase, held, queue, replayed, resume, lastSeq, dirty, shown, got, early>>
      /\ Fault \/ faults' = faults
  BY DEF Emit, Dispatch, DispatchFails, Announce, EndSession, client, browser, history
<1>2. /\ ConsumerTypeOK /\ TabTypeOK /\ shown \subseteq projected /\ faults \in 0..MaxFaults
      /\ PipeInv /\ (nakked = {} => PipeOrder) /\ last \in Nat /\ MaxSeq \in Nat
  BY TypesTogether, TabTypes DEF RealtimeInv
<1>3. TabTypeOK' /\ faults' \in 0..MaxFaults
  BY <1>1, <1>2, FaultsAre DEF TabTypeOK
<1>4. /\ ConsumerTypeOK' /\ PipeInv' /\ (nakked' = {} => PipeOrder') /\ Published' = Published
      /\ projected \subseteq projected' /\ last <= last' /\ (nakked' = {} => nakked = {})
  <2>1. CASE Emit
    <3>1. /\ last' = last + 1 /\ last < MaxSeq /\ UNCHANGED <<projected, nakked, announcing, loopCalls, session>>
      BY <2>1 DEF Emit
    <3>2. last' \in 0..MaxSeq /\ last <= last' /\ 1..last \subseteq 1..last'
      BY <1>2, <3>1
    <3>3. ConsumerTypeOK'
      BY <1>2, <3>1, <3>2 DEF ConsumerTypeOK
    <3> QED BY <1>2, <3>1, <3>2, <3>3, PipeStays
  <2>2. CASE Dispatch(k)
    <3>1. /\ projected' = projected \cup {k} /\ announcing' = {k} /\ k \in 1..last
          /\ UNCHANGED <<last, nakked, loopCalls, session>>
      BY <2>2 DEF Dispatch, Deliverable
    <3>2. ConsumerTypeOK'
      BY <1>2, <3>1 DEF ConsumerTypeOK
    <3> QED BY <1>2, <2>2, <3>1, <3>2, DispatchPipe
  <2>3. CASE DispatchFails(k)
    <3>1. /\ nakked' = nakked \cup {k} /\ k \in 1..last
          /\ UNCHANGED <<last, projected, announcing, loopCalls, session>>
      BY <2>3 DEF DispatchFails, Deliverable
    <3>2. ConsumerTypeOK'
      BY <1>2, <3>1 DEF ConsumerTypeOK
    <3>3. nakked' # {}
      BY <3>1
    <3> QED BY <1>2, <3>1, <3>2, <3>3, PipeStays
  <2>4. CASE Announce
    <3>1. announcing' = {} /\ UNCHANGED <<last, projected, nakked, session>>
      BY <2>4 DEF Announce
    <3>2. PipeInv' /\ (nakked' = {} => PipeOrder') /\ Published' = Published /\ loopCalls' \in Seq(0..MaxSeq)
      BY <2>4, AnnouncePipe
    <3>3. ConsumerTypeOK'
      BY <1>2, <3>1, <3>2 DEF ConsumerTypeOK
    <3> QED BY <1>2, <3>1, <3>2, <3>3
  <2>5. CASE EndSession
    <3>1. session' = FALSE /\ UNCHANGED <<last, projected, nakked, announcing>>
      BY <2>5 DEF EndSession, consumer
    <3>2. PipeInv' /\ (nakked' = {} => PipeOrder') /\ Published' = Published /\ loopCalls' \in Seq(0..MaxSeq)
      BY <2>5, EndSessionPipe
    <3>3. ConsumerTypeOK'
      BY <1>2, <3>1, <3>2 DEF ConsumerTypeOK
    <3> QED BY <1>2, <3>1, <3>2, <3>3
  <2> QED BY <2>1, <2>2, <2>3, <2>4, <2>5
<1>5. last' \in Nat
  BY <1>2, <1>4 DEF ConsumerTypeOK
<1>6. TabInv'
  BY <1>1, <1>4, <1>5, TabStays
<1>7. RealtimeTypeOK'
  <2>1. shown' \subseteq projected'
    BY <1>1, <1>2, <1>4
  <2> QED BY <1>3, <1>4, <2>1, TypesTogether DEF RealtimeTypeOK, ConsumerTypeOK, TabTypeOK
<1> QED BY <1>4, <1>6, <1>7 DEF RealtimeInv

\* A step that leaves the consumer alone and keeps what is of the tab.
LEMMA TabKeeps ==
  ASSUME RealtimeInv, UNCHANGED <<last, projected, nakked, announcing, loopCalls, session>>,
         Fault \/ faults' = faults, TabInv' /\ TabTypeOK' /\ shown' \subseteq projected
  PROVE  RealtimeInv'
<1>1. /\ ConsumerTypeOK /\ faults \in 0..MaxFaults /\ PipeInv /\ (nakked = {} => PipeOrder)
  BY TypesTogether DEF RealtimeInv
<1>2. PipeInv' /\ (nakked' = {} => PipeOrder')
  BY <1>1, PipeStays
<1>3. faults' \in 0..MaxFaults
  BY <1>1, FaultsAre
<1>4. RealtimeTypeOK'
  BY <1>1, <1>3 DEF RealtimeTypeOK, ConsumerTypeOK, TabTypeOK
<1> QED BY <1>2, <1>4 DEF RealtimeInv

LEMMA LoopCallKeeps ==
  ASSUME RealtimeInv, LoopCall
  PROVE  RealtimeInv'
<1>1. /\ UNCHANGED <<last, projected, nakked, announcing, session, faults>>
      /\ IF Head(loopCalls) # SessionEnd THEN HubPublish(Head(loopCalls))
         ELSE IF InHub THEN Close ELSE UNCHANGED <<client, browser, history>>
  BY DEF LoopCall, consumer
<1>2. PICK h : h = Head(loopCalls)
  OBVIOUS
<1>3. /\ PipeInv' /\ (nakked' = {} => PipeOrder') /\ loopCalls' \in Seq(0..MaxSeq)
      /\ h = SessionEnd => Published' = Published
      /\ h # SessionEnd => /\ h \in Seqs /\ h \notin Published /\ Published' = Published \cup {h}
                           /\ nakked = {} => \A k \in Published : k < h
  BY <1>2, LoopCallPipe
<1>4. ConsumerTypeOK /\ TabTypeOK /\ shown \subseteq projected /\ faults \in 0..MaxFaults /\ last \in Nat
  BY TypesTogether, TabTypes DEF RealtimeInv
<1>5. TabInv' /\ TabTypeOK' /\ shown' = shown
  <2>1. CASE h # SessionEnd
    <3>1. HubPublish(h)
      BY <1>1, <1>2, <2>1
    <3> QED BY <1>1, <1>3, <2>1, <3>1, HubPublishKeeps
  <2>2. CASE h = SessionEnd /\ InHub
    <3>1. Close
      BY <1>1, <1>2, <2>2
    <3> QED BY <1>4, <3>1, CloseKeeps
  <2>3. CASE h = SessionEnd /\ ~InHub
    <3>1. UNCHANGED <<phase, held, queue, replayed, resume, lastSeq, dirty, shown, got, early>>
      BY <1>1, <1>2, <2>3 DEF client, browser, history
    <3>2. TabTypeOK'
      BY <1>4, <3>1 DEF TabTypeOK
    <3>3. TabInv'
      BY <1>1, <1>3, <1>4, <2>3, <3>1, TabStays
    <3> QED BY <3>1, <3>2, <3>3
  <2> QED BY <2>1, <2>2, <2>3
<1>6. RealtimeTypeOK'
  BY <1>1, <1>3, <1>4, <1>5 DEF RealtimeTypeOK, ConsumerTypeOK, TabTypeOK
<1> QED BY <1>1, <1>3, <1>5, <1>6 DEF RealtimeInv

\* The connection ends: the session is watched, the network drops it, the web-api is started again.
LEMMA EndsKeep ==
  ASSUME RealtimeInv, WatchSession \/ Drop \/ Restart
  PROVE  RealtimeInv'
<1>1. /\ ConsumerTypeOK /\ TabTypeOK /\ shown \subseteq projected /\ faults \in 0..MaxFaults
      /\ PipeInv /\ (nakked = {} => PipeOrder)
  BY TypesTogether DEF RealtimeInv
<1>2. Close /\ (Fault \/ faults' = faults) /\ UNCHANGED <<last, projected, nakked, session>>
  BY DEF WatchSession, Drop, Restart, consumer
<1>3. TabInv' /\ TabTypeOK' /\ shown' = shown
  BY <1>1, <1>2, CloseKeeps
<1>4. CASE UNCHANGED <<announcing, loopCalls>>
  BY <1>1, <1>2, <1>3, <1>4, TabKeeps
<1>5. CASE announcing' = {} /\ loopCalls' = <<>>
  <2>1. PipeInv'
    BY <1>5 DEF PipeInv
  <2>2. ASSUME nakked' = {} PROVE PipeOrder'
    <3>1. PipeOrder
      BY <1>1, <1>2, <2>2
    <3> QED BY <1>2, <1>5, <3>1 DEF PipeOrder
  <2>3. faults' \in 0..MaxFaults /\ loopCalls' \in Seq(0..MaxSeq)
    BY <1>1, <1>2, <1>5, FaultsAre
  <2>4. RealtimeTypeOK'
    BY <1>1, <1>2, <1>3, <1>5, <2>3 DEF RealtimeTypeOK, ConsumerTypeOK, TabTypeOK
  <2> QED BY <1>3, <2>1, <2>2, <2>4 DEF RealtimeInv
<1>6. UNCHANGED <<announcing, loopCalls>> \/ (announcing' = {} /\ loopCalls' = <<>>)
  BY DEF WatchSession, Drop, Restart, consumer
<1> QED BY <1>4, <1>5, <1>6

\* On its way to live a connection is sent nothing but hello.
LEMMA OpeningKeeps ==
  ASSUME RealtimeInv, Connect \/ Register \/ Hello \/ Subscribe \/ ReadStream
  PROVE  RealtimeInv'
<1>1. /\ UNCHANGED <<last, projected, nakked, announcing, loopCalls, session>> /\ (Fault \/ faults' = faults)
      /\ UNCHANGED <<held, lastSeq, dirty, shown, got, early>>
  BY DEF Connect, Register, Hello, Subscribe, ReadStream, Go, consumer, browser, history
<1>2. /\ TabTypeOK /\ shown \subseteq projected /\ NotLiveInv /\ HeldInv /\ LiveInv /\ last \in 0..MaxSeq
      /\ MaxSeq \in Nat /\ QueueSize \in Nat \ {0} /\ Published \subseteq 1..last /\ last \in Nat
  BY TypesTogether, TabTypes DEF RealtimeInv, TabInv, RealtimeTypeOK
<1>3. Published' = Published
  BY <1>1 DEF Published, ElementsOf
<1>4. phase # "live"
  BY DEF Connect, Register, Hello, Subscribe, ReadStream
<1>5. early = {} /\ early' = {} /\ \A k \in Seqs : PlacesOf(Arriving, k) = {}
  BY <1>1, <1>2, <1>4 DEF NotLiveInv
<1>6. SUFFICES TabInv' /\ TabTypeOK'
  BY <1>1, <1>2, TabKeeps
<1>7. CASE Connect
  <2>1. phase = "off" /\ phase' = "accepted" /\ resume' = lastSeq /\ UNCHANGED <<queue, replayed>>
    BY <1>7 DEF Connect, Go
  <2>2. Arriving' = Arriving /\ Holding' = FALSE /\ Holding = FALSE /\ phase' # "live" /\ phase' # "read" /\ phase # "read"
    BY <1>1, <2>1 DEF Arriving, Holding
  <2>3. NotLiveInv'
    BY <1>1, <1>2, <1>5, <2>1, <2>2 DEF NotLiveInv
  <2>4. HeldInv' /\ LiveInv' /\ NothingMissed'
    BY <2>2 DEF HeldInv, LiveInv, NothingMissed
  <2>5. "accepted" \in Phase
    BY DEF Phase
  <2>6. TabTypeOK'
    BY <1>1, <1>2, <2>1, <2>5 DEF TabTypeOK
  <2> QED BY <2>3, <2>4, <2>6 DEF TabInv
<1>8. CASE Register
  <2>1. phase = "accepted" /\ phase' = "connected" /\ UNCHANGED <<resume, queue, replayed>>
    BY <1>8 DEF Register, Go, browser
  <2>2. Arriving' = Arriving /\ Holding' = FALSE /\ Holding = FALSE /\ phase' # "live" /\ phase' # "read" /\ phase # "read"
    BY <1>1, <2>1 DEF Arriving, Holding
  <2>3. NotLiveInv'
    BY <1>1, <1>2, <1>5, <2>1, <2>2 DEF NotLiveInv
  <2>4. HeldInv' /\ LiveInv' /\ NothingMissed'
    BY <2>2 DEF HeldInv, LiveInv, NothingMissed
  <2>5. "connected" \in Phase
    BY DEF Phase
  <2>6. TabTypeOK'
    BY <1>1, <1>2, <2>1, <2>5 DEF TabTypeOK
  <2> QED BY <2>3, <2>4, <2>6 DEF TabInv
<1>9. CASE Hello
  <2>1. PICK S : S \in {{last}, {}} /\ queue' = Append(queue, [op |-> "hello", seq |-> S])
    BY <1>9 DEF Hello
  <2>2. phase = "connected" /\ phase' = "ready" /\ UNCHANGED <<resume, replayed>>
    BY <1>9 DEF Hello, browser
  <2>3. PICK m : m = [op |-> "hello", seq |-> S]
    OBVIOUS
  <2>4. m \in Message /\ \A k : m # EventOf(k)
    <3>1. S \in Optional
      BY <1>2, <2>1 DEF Optional
    <3> QED BY <2>3, <3>1, MessagesAre
  <2>5. queue = <<>>
    BY <1>2, <2>2 DEF NotLiveInv
  <2>6. queue' = <<m>> /\ queue' \in Seq(Message) /\ Len(queue') = 1
    BY <2>1, <2>3, <2>4, <2>5
  <2>7. \A k \in Seqs : PlacesOf(Arriving', k) = {}
    <3>1. PICK g, t : g = got /\ t = <<m>>
      OBVIOUS
    <3>2. g \in Seq(Message) /\ t \in Seq(Message) /\ Arriving' = g \o t /\ Arriving = g
      <4>1. g \in Seq(Message) /\ t \in Seq(Message)
        BY <1>2, <2>4, <3>1 DEF TabTypeOK
      <4>2. g \o <<>> = g
        BY <4>1, ConcatEmptySeq
      <4> QED BY <1>1, <2>5, <2>6, <3>1, <4>1, <4>2 DEF Arriving
    <3>3. \A k \in Seqs : PlacesOf(t, k) = {}
      BY <2>4, <3>1 DEF PlacesOf
    <3>4. ASSUME NEW k \in Seqs PROVE PlacesOf(g \o t, k) = {}
      <4>1. PlacesOf(g, k) = {}
        BY <1>5, <3>2
      <4>2. PlacesOf(g \o t, k) = PlacesOf(g, k) \cup {Len(g) + i : i \in PlacesOf(t, k)}
        BY <3>2, PlacesJoined
      <4> QED BY <3>3, <4>1, <4>2
    <3> QED BY <3>2, <3>4
  <2>8. Holding' = FALSE /\ Holding = FALSE /\ phase' # "live" /\ phase' # "read" /\ phase # "read"
        /\ phase' \notin {"off", "accepted", "connected"}
    BY <2>2 DEF Holding
  <2>9. NotLiveInv'
    BY <1>1, <1>2, <1>5, <2>2, <2>7, <2>8 DEF NotLiveInv
  <2>10. HeldInv' /\ LiveInv' /\ NothingMissed'
    BY <2>8 DEF HeldInv, LiveInv, NothingMissed
  <2>11. TabTypeOK'
    <3>1. "ready" \in Phase /\ 1 <= QueueSize
      BY <1>2 DEF Phase
    <3> QED BY <1>1, <1>2, <2>2, <2>6, <3>1 DEF TabTypeOK
  <2> QED BY <2>9, <2>10, <2>11 DEF TabInv
<1>10. CASE Subscribe
  <2>1. /\ phase = "ready" /\ phase' = IF resume = {} THEN "live" ELSE "replay"
        /\ UNCHANGED <<resume, queue, replayed>>
    BY <1>10 DEF Subscribe, Go, browser
  <2>2. Arriving' = Arriving /\ phase' \notin {"off", "accepted", "connected", "read"} /\ phase # "read" /\ ~Holding
    BY <1>1, <2>1 DEF Arriving, Holding
  <2>3. held = <<>> /\ replayed = {}
    BY <1>2, <2>2 DEF NotLiveInv
  <2>4. TabTypeOK'
    <3>1. "live" \in Phase /\ "replay" \in Phase
      BY DEF Phase
    <3> QED BY <1>1, <1>2, <2>1, <3>1 DEF TabTypeOK
  <2>5. CASE resume = {}
    <3>1. phase' = "live" /\ Holding' = FALSE
      BY <2>1, <2>5 DEF Holding
    <3>2. NotLiveInv' /\ HeldInv'
      BY <1>1, <1>2, <2>1, <2>2, <2>3, <3>1 DEF NotLiveInv, HeldInv
    <3>3. NothingMissed'
      BY <2>1, <2>5 DEF NothingMissed
    <3>4. \A k \in Seqs : Cardinality(PlacesOf(Arriving, k)) = 0
      BY <1>5, FS_EmptySet
    <3>5. \A k \in Seqs :
            Cardinality(PlacesOf(Arriving', k)) <=
              (IF k \in Published' THEN 1 ELSE 0) + (IF k \in early' THEN 1 ELSE 0)
      BY <2>2, <3>4
    <3>6. InOrder(Arriving)'
      BY <1>5, <2>2 DEF InOrder
    <3>7. LiveInv'
      BY <1>5, <3>5, <3>6 DEF LiveInv
    <3> QED BY <2>4, <3>2, <3>3, <3>7 DEF TabInv
  <2>6. CASE resume # {}
    <3>1. phase' = "replay" /\ Holding'
      BY <2>1, <2>6 DEF Holding
    <3>2. NotLiveInv'
      BY <1>1, <1>2, <1>5, <2>1, <2>2, <2>3, <2>6, <3>1 DEF NotLiveInv
    <3>3. held' = <<>> /\ replayed' = {}
      BY <1>1, <2>1, <2>3
    <3>4. HeldInv'
      BY <3>3 DEF HeldInv
    <3>5. LiveInv' /\ NothingMissed'
      BY <3>1 DEF LiveInv, NothingMissed
    <3> QED BY <2>4, <3>2, <3>4, <3>5 DEF TabInv
  <2> QED BY <2>5, <2>6
<1>11. CASE ReadStream
  <2>1. /\ phase = "replay" /\ phase' = "read" /\ UNCHANGED <<resume, queue>>
        /\ replayed' = {last} \/ replayed' = {}
    BY <1>11 DEF ReadStream, browser
  <2>2. Arriving' = Arriving /\ Holding /\ Holding'
    BY <1>1, <2>1 DEF Arriving, Holding
  <2>3. TabTypeOK'
    <3>1. "read" \in Phase /\ replayed' \in Optional
      BY <1>2, <2>1 DEF Phase, Optional
    <3> QED BY <1>1, <1>2, <2>1, <3>1 DEF TabTypeOK
  <2>4. NotLiveInv'
    BY <1>1, <1>2, <1>5, <2>1, <2>2 DEF NotLiveInv
  <2>5. HeldInv'
    <3>1. \A n \in replayed' : n <= last /\ \A k \in Published : k <= n
      BY <1>2, <2>1
    <3> QED BY <1>1, <1>2, <1>3, <2>2, <3>1 DEF HeldInv
  <2>6. LiveInv' /\ NothingMissed'
    BY <2>1 DEF LiveInv, NothingMissed
  <2> QED BY <2>3, <2>4, <2>5, <2>6 DEF TabInv
<1> QED BY <1>7, <1>8, <1>9, <1>10, <1>11

\* What is on its way arrives.
LEMMA WriterSendsKeeps ==
  ASSUME RealtimeInv, WriterSends
  PROVE  RealtimeInv'
<1>1. PICK m : /\ m = Head(queue) /\ queue # <<>> /\ queue' = Tail(queue) /\ got' = Append(got, m)
               /\ dirty' = (dirty \/ m.op \in {"event", "resync"})
               /\ lastSeq' = CASE m.op = "hello" /\ lastSeq = {} -> m.seq
                               [] m.op = "event" /\ \A s \in lastSeq, k \in m.seq : k > s -> m.seq
                               [] OTHER -> lastSeq
  BY DEF WriterSends
<1>2. /\ UNCHANGED <<last, projected, nakked, announcing, loopCalls, session, faults>>
      /\ UNCHANGED <<phase, held, replayed, resume, shown, early>>
  BY DEF WriterSends, consumer
<1>3. /\ TabTypeOK /\ shown \subseteq projected /\ NotLiveInv /\ HeldInv /\ LiveInv /\ NothingMissed
      /\ QueueSize \in Nat
  BY TypesTogether, TabTypes DEF RealtimeInv, TabInv
<1>4. Published' = Published /\ Holding' = Holding
  BY <1>2 DEF Published, ElementsOf, Holding
<1>5. PICK q, u, g : q = queue /\ u = queue' /\ g = got
  OBVIOUS
<1>6. /\ q \in Seq(Message) /\ q # <<>> /\ u = Tail(q) /\ m = Head(q) /\ g \in Seq(Message) /\ Len(q) <= QueueSize
  BY <1>1, <1>3, <1>5 DEF TabTypeOK
<1>7. /\ m \in Message /\ u \in Seq(Message) /\ Len(u) = Len(q) - 1 /\ Len(q) \in Nat \ {0}
      /\ \A i \in 1..Len(u) : u[i] = q[i + 1]
      /\ q[1] = m
  BY <1>6, HeadTailProperties, EmptySeq
<1>8. <<m>> \o u = q
  <2>1. <<m>> \in Seq(Message) /\ Len(<<m>>) = 1 /\ <<m>>[1] = m
    BY <1>7
  <2>2. /\ <<m>> \o u \in Seq(Message) /\ Len(<<m>> \o u) = 1 + Len(u)
        /\ \A i \in 1..(1 + Len(u)) : (<<m>> \o u)[i] = IF i <= 1 THEN <<m>>[i] ELSE u[i - 1]
    BY <1>7, <2>1, ConcatProperties
  <2>3. ASSUME NEW i \in 1..(1 + Len(u)) PROVE (<<m>> \o u)[i] = q[i]
    <3>1. CASE i = 1
      BY <1>7, <2>1, <2>2, <3>1
    <3>2. CASE i # 1
      <4>1. i - 1 \in 1..Len(u) /\ (i - 1) + 1 = i /\ ~(i <= 1)
        BY <1>7, <3>2
      <4> QED BY <1>7, <2>2, <4>1
    <3> QED BY <3>1, <3>2
  <2>4. Len(<<m>> \o u) = Len(q)
    BY <1>7, <2>2
  <2>5. \A i \in 1..Len(<<m>> \o u) : (<<m>> \o u)[i] = q[i]
    BY <2>2, <2>3
  <2> QED BY <1>6, <2>2, <2>4, <2>5, SeqEqual
<1>9. Arriving' = Arriving
  <2>1. Append(g, m) = g \o <<m>> /\ <<m>> \in Seq(Message)
    BY <1>6, <1>7, AppendIsConcat
  <2>2. (g \o <<m>>) \o u = g \o (<<m>> \o u)
    BY <1>6, <1>7, <2>1, ConcatAssociative
  <2> QED BY <1>1, <1>5, <1>8, <2>1, <2>2 DEF Arriving
<1>10. TabTypeOK'
  <2>1. got' \in Seq(Message)
    <3>1. Append(g, m) \in Seq(Message)
      BY <1>6, <1>7, AppendProperties
    <3> QED BY <1>1, <1>5, <3>1
  <2>2. m.seq \in Optional
    BY <1>7 DEF Message
  <2>3. lastSeq' = m.seq \/ lastSeq' = lastSeq
    BY <1>1
  <2>4. lastSeq' \in Optional /\ dirty' \in BOOLEAN
    BY <1>1, <1>3, <2>2, <2>3 DEF TabTypeOK
  <2>5. queue' \in Seq(Message) /\ Len(queue') <= QueueSize
    BY <1>3, <1>5, <1>6, <1>7
  <2> QED BY <1>2, <1>3, <2>1, <2>4, <2>5 DEF TabTypeOK
<1>11. NotLiveInv' /\ HeldInv' /\ LiveInv'
  <2>1. NotLiveInv'
    BY <1>1, <1>2, <1>3, <1>4, <1>9 DEF NotLiveInv
  <2>2. HeldInv'
    BY <1>2, <1>3, <1>4 DEF HeldInv
  <2>3. LiveInv'
    BY <1>2, <1>3, <1>4, <1>9 DEF LiveInv, InOrder
  <2> QED BY <2>1, <2>2, <2>3
<1>12. NothingMissed'
  <2>1. SUFFICES ASSUME phase = "live", NEW r \in resume, NEW k \in Published, k > r, k \notin shown, ~dirty'
                 PROVE  \E i \in 1..Len(u) : u[i] \in {EventOf(k), Resync}
    BY <1>2, <1>4, <1>5 DEF NothingMissed
  <2>2. ~dirty /\ m.op \notin {"event", "resync"}
    BY <1>1, <2>1
  <2>3. PICK i \in 1..Len(q) : q[i] \in {EventOf(k), Resync}
    BY <1>3, <1>5, <2>1, <2>2 DEF NothingMissed
  <2>4. i # 1
    <3>1. EventOf(k).op = "event" /\ Resync.op = "resync"
      BY DEF EventOf, Resync
    <3> QED BY <1>7, <2>2, <2>3, <3>1
  <2>5. i - 1 \in 1..Len(u) /\ u[i - 1] = q[i]
    <3>1. i - 1 \in 1..Len(u) /\ (i - 1) + 1 = i
      BY <1>7, <2>4
    <3> QED BY <1>7, <3>1
  <2> QED BY <2>3, <2>5
<1> QED BY <1>2, <1>3, <1>10, <1>11, <1>12, TabKeeps DEF TabInv

\* The view reads all that was projected.
LEMMA ViewReloadsKeeps ==
  ASSUME RealtimeInv, ViewReloads
  PROVE  RealtimeInv'
<1>1. /\ UNCHANGED <<last, projected, nakked, announcing, loopCalls, session, faults>>
      /\ UNCHANGED <<phase, held, queue, replayed, resume, lastSeq, got, early>>
      /\ dirty' = FALSE /\ shown' = projected
  BY DEF ViewReloads, consumer, client, history
<1>2. TabTypeOK /\ NotLiveInv /\ HeldInv /\ LiveInv /\ Published \subseteq projected
  BY TypesTogether, TabTypes DEF RealtimeInv, TabInv
<1>3. Published' = Published /\ Holding' = Holding /\ Arriving' = Arriving
  BY <1>1 DEF Published, ElementsOf, Holding, Arriving
<1>4. NotLiveInv' /\ HeldInv' /\ LiveInv'
  <2>1. NotLiveInv'
    BY <1>1, <1>2, <1>3 DEF NotLiveInv
  <2>2. HeldInv'
    BY <1>1, <1>2, <1>3 DEF HeldInv
  <2>3. LiveInv'
    BY <1>1, <1>2, <1>3 DEF LiveInv, InOrder
  <2> QED BY <2>1, <2>2, <2>3
<1>5. NothingMissed'
  BY <1>1, <1>2, <1>3 DEF NothingMissed
<1>6. TabTypeOK'
  BY <1>1, <1>2 DEF TabTypeOK
<1> QED BY <1>1, <1>4, <1>5, <1>6, TabKeeps DEF TabInv

LEMMA EndReplayStep ==
  ASSUME RealtimeInv, EndReplay
  PROVE  RealtimeInv'
<1>1. TabInv' /\ TabTypeOK' /\ shown' = shown
  BY EndReplayKeeps
<1>2. UNCHANGED <<last, projected, nakked, announcing, loopCalls, session, faults>> /\ shown \subseteq projected
  BY TypesTogether DEF EndReplay, consumer, RealtimeInv
<1> QED BY <1>1, <1>2, TabKeeps

LEMMA RealtimeInitInv == RealtimeInit => RealtimeInv
<1> SUFFICES ASSUME RealtimeInit PROVE RealtimeInv
  OBVIOUS
<1>1. /\ last = 0 /\ projected = {} /\ nakked = {} /\ announcing = {} /\ loopCalls = <<>> /\ session = TRUE
      /\ phase = "off" /\ held = <<>> /\ queue = <<>> /\ replayed = {} /\ resume = {} /\ lastSeq = {}
      /\ dirty = TRUE /\ shown = {} /\ got = <<>> /\ early = {} /\ faults = 0
  BY DEF RealtimeInit
<1>2. MaxSeq \in Nat /\ QueueSize \in Nat /\ MaxFaults \in Nat
  BY RealtimeAssumption, FaultsAssumption
<1>3. ConsumerTypeOK
  <2>1. loopCalls \in Seq(0..MaxSeq)
    BY <1>1
  <2> QED BY <1>1, <1>2, <2>1 DEF ConsumerTypeOK
<1>4. TabTypeOK
  <2>1. {} \in Optional /\ "off" \in Phase
    BY DEF Optional, Phase
  <2>2. held \in Seq(Seqs) /\ Len(held) <= QueueSize
    BY <1>1, <1>2
  <2>3. queue \in Seq(Message) /\ Len(queue) <= QueueSize /\ got \in Seq(Message)
    BY <1>1, <1>2
  <2> QED BY <1>1, <2>1, <2>2, <2>3 DEF TabTypeOK
<1>5. PipeInv /\ PipeOrder
  BY <1>1 DEF PipeInv, PipeOrder
<1>6. Arriving = <<>> /\ Holding = FALSE
  BY <1>1 DEF Arriving, Holding
<1>7. \A k \in Seqs : PlacesOf(Arriving, k) = {}
  BY <1>6 DEF PlacesOf
<1>8. NotLiveInv
  BY <1>1, <1>6, <1>7 DEF NotLiveInv
<1>9. HeldInv /\ LiveInv /\ NothingMissed
  BY <1>1, <1>6 DEF HeldInv, LiveInv, NothingMissed
<1>10. shown \subseteq projected /\ faults \in 0..MaxFaults
  BY <1>1, <1>2
<1> QED BY <1>3, <1>4, <1>5, <1>8, <1>9, <1>10, TypesTogether DEF RealtimeInv, TabInv

LEMMA RealtimeNextInv == RealtimeInv /\ [RealtimeNext]_realtimeVars => RealtimeInv'
<1> SUFFICES ASSUME RealtimeInv, [RealtimeNext]_realtimeVars PROVE RealtimeInv'
  OBVIOUS
<1>1. 1 \in Seqs
  BY RealtimeAssumption DEF Seqs
<1>2. CASE Emit \/ Announce \/ EndSession
  BY <1>1, <1>2, ConsumerKeeps
<1>3. CASE \E k \in Seqs : Dispatch(k) \/ DispatchFails(k)
  BY <1>3, ConsumerKeeps
<1>4. CASE LoopCall
  BY <1>4, LoopCallKeeps
<1>5. CASE Connect \/ Register \/ Hello \/ Subscribe \/ ReadStream
  BY <1>5, OpeningKeeps
<1>6. CASE EndReplay
  BY <1>6, EndReplayStep
<1>7. CASE WatchSession \/ Drop \/ Restart
  BY <1>7, EndsKeep
<1>8. CASE WriterSends
  BY <1>8, WriterSendsKeeps
<1>9. CASE ViewReloads
  BY <1>9, ViewReloadsKeeps
<1>10. CASE UNCHANGED realtimeVars
  <2>1. /\ UNCHANGED <<last, projected, nakked, announcing, loopCalls, session, faults>>
        /\ UNCHANGED <<phase, held, queue, replayed, resume, lastSeq, dirty, shown, got, early>>
    BY <1>10 DEF realtimeVars, realtimeState, consumer, client, browser, history
  <2>2. TabTypeOK /\ shown \subseteq projected /\ last \in Nat
    BY TypesTogether, TabTypes DEF RealtimeInv
  <2>3. Published' = Published
    BY <2>1 DEF Published, ElementsOf
  <2>4. TabInv'
    BY <2>1, <2>2, <2>3, TabStays
  <2>5. TabTypeOK'
    BY <2>1, <2>2 DEF TabTypeOK
  <2> QED BY <2>1, <2>2, <2>4, <2>5, TabKeeps
<1> QED BY <1>2, <1>3, <1>4, <1>5, <1>6, <1>7, <1>8, <1>9, <1>10 DEF RealtimeNext, Consumer, Endpoint

LEMMA TabIsRight == RealtimeInv => TabFollows
<1> SUFFICES ASSUME RealtimeInv PROVE TabFollows
  OBVIOUS
<1>1. NotLiveInv /\ LiveInv /\ NothingMissed
  BY DEF RealtimeInv, TabInv
<1>2. CASE phase = "live"
  <2>1. \A k \in Seqs : Cardinality(PlacesOf(Arriving, k)) <= (IF k \in early THEN 2 ELSE 1)
    <3>1. SUFFICES ASSUME NEW k \in Seqs
                   PROVE  Cardinality(PlacesOf(Arriving, k)) <= (IF k \in early THEN 2 ELSE 1)
      OBVIOUS
    <3>2. PICK c : c = Cardinality(PlacesOf(Arriving, k))
      OBVIOUS
    <3>3. c \in Nat
      <4>1. PICK a : a = Arriving
        OBVIOUS
      <4>2. a \in Seq(Message)
        BY <4>1, TabTypes DEF RealtimeInv
      <4>3. PlacesOf(a, k) \in SUBSET (1..Len(a)) /\ Len(a) \in Nat
        BY <4>2, LenProperties DEF PlacesOf
      <4> QED BY <3>2, <4>1, <4>3, CountedNumbers
    <3>4. c <= (IF k \in Published THEN 1 ELSE 0) + (IF k \in early THEN 1 ELSE 0)
      BY <1>1, <1>2, <3>2 DEF LiveInv
    <3> QED BY <3>2, <3>3, <3>4
  <2> QED BY <1>1, <1>2, <2>1 DEF TabFollows, OrderedOnce, LiveInv
<1>3. CASE phase # "live"
  <2>1. \A k \in Seqs : PlacesOf(Arriving, k) = {}
    BY <1>1, <1>3 DEF NotLiveInv
  <2>2. \A k \in Seqs : Cardinality(PlacesOf(Arriving, k)) = 0
    BY <2>1, FS_EmptySet
  <2>3. \A k \in Seqs : Cardinality(PlacesOf(Arriving, k)) <= (IF k \in early THEN 2 ELSE 1)
    BY <2>2
  <2>4. InOrder(Arriving)
    BY <2>1 DEF InOrder
  <2> QED BY <1>1, <2>3, <2>4 DEF TabFollows, OrderedOnce
<1> QED BY <1>2, <1>3

\* Whatever the order of events, callbacks, replays, faults and reconnects, the invariant holds.
THEOREM RealtimeInvariant == RealtimeSpec => []RealtimeInv
BY RealtimeInitInv, RealtimeNextInv, PTL DEF RealtimeSpec

\* Every reachable state has its types: a slow tab holds no more than its queue allows.
THEOREM RealtimeTypes == RealtimeSpec => []RealtimeTypeOK
<1>1. RealtimeInv => RealtimeTypeOK
  BY DEF RealtimeInv
<1> QED BY <1>1, RealtimeInvariant, PTL

\* Nothing is missed, swapped or doubled between replay and live.
THEOREM TabFollowsAll == RealtimeSpec => []TabFollows
BY TabIsRight, RealtimeInvariant, PTL
===============================================================================
