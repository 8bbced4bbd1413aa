------------------------------ MODULE Profiles --------------------------------
(***************************************************************************)
(* The scoring profile "Standard": its versions and activations in         *)
(* PostgreSQL (nothing is ever changed, only added), the requests that      *)
(* save and activate, and the editor page of several tabs.                 *)
(*                                                                         *)
(*   services/scoring/src/va_scoring/adapters/postgres/repository.py       *)
(*   services/scoring/src/va_scoring/entrypoints/rpc.py                    *)
(*   services/web-api/src/va_web_api/{rpc.py,api/scoring.py}               *)
(*   frontend/src/app/profiles/profile-editor-page.ts                      *)
(*                                                                         *)
(* A statement sees what is committed when it begins (READ COMMITTED), so  *)
(* a request is two steps: the one up to its last check, and the rest of   *)
(* its transaction with the commit.  The parameters of a profile are a     *)
(* value.  That a profile was saved or activated is announced without an   *)
(* outbox; no table and no page depends on it, so it is left out.          *)
(***************************************************************************)
EXTENDS Naturals, Sequences, FiniteSets

CONSTANTS Tab,
          Param,          \* parameter sets
          Start,          \* those from the environment, for version 1
          MaxCalls        \* bound on requests

ASSUME ProfilesAssumption == Start \in Param /\ MaxCalls \in Nat

VARIABLES
  versions,     \* scoring.profile_version, by number
  activations,  \* scoring.profile_activation, with the time their transaction began
  calls,        \* the requests sent so far
  page          \* the editor of each tab

profilesVars == <<versions, activations, calls, page>>

CallId == 1..MaxCalls
Number == 0..(MaxCalls + 1)     \* of a version; 0: none
\* comment: the request, whose text it is.
Version == [params : Param, parent : Number, comment : Number]
Activation == [at : Number, version : Number]
Call == [op : {"save", "activate"}, params : Param, based : Number, at : Number,
         step : {"sent", "checked", "done"}, result : {"none", "ok", "conflict"}, number : Number]

\* load: the GET for the profile, got: the newest version in its answer.
Page == [based : Number, base : Param, model : Param, waits : Number, conflict : BOOLEAN,
         force : BOOLEAN, load : {"none", "asked", "answered"}, got : Number]

NewPage == [based |-> 0, base |-> Start, model |-> Start, waits |-> 0, conflict |-> FALSE,
            force |-> FALSE, load |-> "asked", got |-> 0]

ProfilesInit ==
  /\ versions = <<>>
  /\ activations = {}
  /\ calls = <<>>
  /\ page = [t \in Tab |-> NewPage]

Newest == Len(versions)
Latest(S) == CHOOSE n \in S : \A m \in S : m <= n

\* get_active_profile_version: the youngest activation.
Active == (CHOOSE a \in activations : \A b \in activations : b.at <= a.at).version

\* now() of a transaction that begins: after all that began before.
Now == 1 + Latest({0} \cup {a.at : a \in activations} \cup {calls[c].at : c \in DOMAIN calls})

------------------------------------------------------------------------------
(* scoring.                                                                  *)

\* ensure_profile, by the first run that is scored: profile, version 1 and its
\* activation in one transaction.  Later calls find an active version.
EnsureProfile ==
  /\ versions = <<>>
  /\ versions' = <<[params |-> Start, parent |-> 0, comment |-> 0]>>
  /\ activations' = {[at |-> Now, version |-> 1]}
  /\ UNCHANGED <<calls, page>>

Reply(c, result, n) ==
  calls' = [calls EXCEPT ![c].step = "done", ![c].result = result, ![c].number = n]

\* save, up to the comparison of the newest version with the one the change is based on.
SaveCheck(c) ==
  /\ calls[c].op = "save" /\ calls[c].step = "sent"
  /\ IF Newest = calls[c].based
       THEN calls' = [calls EXCEPT ![c].step = "checked"]
       ELSE Reply(c, "conflict", Newest)
  /\ UNCHANGED <<versions, activations, page>>

NewVersion(c) == [params |-> calls[c].params, parent |-> calls[c].based, comment |-> c]

SaveWrite_Upsert(c) ==
  /\ calls[c].op = "save" /\ calls[c].step = "checked"
  /\ LET n == calls[c].based + 1 IN
       /\ versions' = [k \in 1..Latest({n, Newest}) |-> IF k = n THEN NewVersion(c) ELSE versions[k]]
       /\ Reply(c, "ok", n)
  /\ UNCHANGED <<activations, page>>

\* write_profile_version asks for the newest version again and takes the next
\* number.  If another transaction that had asked at the same time commits first,
\* the key is taken and the answer a conflict; if it has committed before, the
\* next number is free.
SaveWrite(c) ==
  /\ calls[c].op = "save" /\ calls[c].step = "checked"
  /\ \/ /\ versions' = Append(versions, NewVersion(c))
        /\ Reply(c, "ok", Newest + 1)
     \/ /\ Newest > calls[c].based
        /\ Reply(c, "conflict", calls[c].based + 1)
        /\ UNCHANGED versions
  /\ UNCHANGED <<activations, page>>

\* activate: any version there is, an older one too.  activated_at is the time the
\* transaction began.
ActivateCheck(c) ==
  /\ calls[c].op = "activate" /\ calls[c].step = "sent"
  /\ calls[c].based \in DOMAIN versions
  /\ calls' = [calls EXCEPT ![c].step = "checked", ![c].at = Now]
  /\ UNCHANGED <<versions, activations, page>>

ActivateWrite(c) ==
  /\ calls[c].op = "activate" /\ calls[c].step = "checked"
  /\ activations' = activations \cup {[at |-> calls[c].at, version |-> calls[c].based]}
  /\ Reply(c, "ok", calls[c].based)
  /\ UNCHANGED <<versions, page>>

------------------------------------------------------------------------------
(* The editor page.                                                          *)

Change(t, p) == page' = [page EXCEPT ![t] = p]

\* The answer to the page's GET: profile with all versions, newest first.
GetProfile(t) ==
  /\ page[t].load = "asked" /\ versions # <<>>
  /\ Change(t, [page[t] EXCEPT !.load = "answered", !.got = Newest])
  /\ UNCHANGED <<versions, activations, calls>>

Loaded_BaseOnly(t) ==
  /\ page[t].load = "answered"
  /\ LET n == page[t].got  p == versions[n].params IN
       Change(t, [page[t] EXCEPT !.base = p, !.model = p, !.force = FALSE, !.load = "none", !.got = 0,
                  !.based = IF page[t].based = 0 \/ page[t].force THEN n ELSE @])
  /\ UNCHANGED <<versions, activations, calls>>

\* The effect on profile(): another newest version, or a forced reset, replaces
\* base, form and basedOn.
Loaded(t) ==
  /\ page[t].load = "answered"
  /\ LET n == page[t].got  p == versions[n].params IN
       IF page[t].force \/ page[t].based # n
         THEN Change(t, [page[t] EXCEPT !.base = p, !.model = p, !.based = n,
                                        !.force = FALSE, !.load = "none", !.got = 0])
         ELSE Change(t, [page[t] EXCEPT !.load = "none", !.got = 0])
  /\ UNCHANGED <<versions, activations, calls>>

\* An error instead: the page shows it and has to be opened again.
GetFails(t) ==
  /\ page[t].load # "none" /\ page[t].based # 0
  /\ Change(t, NewPage)
  /\ UNCHANGED <<versions, activations, calls>>

Edit(t, p) ==
  /\ page[t].based # 0 /\ p # page[t].model
  /\ Change(t, [page[t] EXCEPT !.model = p])
  /\ UNCHANGED <<versions, activations, calls>>

Discard(t) ==
  /\ page[t].model # page[t].base
  /\ Change(t, [page[t] EXCEPT !.model = page[t].base])
  /\ UNCHANGED <<versions, activations, calls>>

SendCall(t, op, based) ==
  /\ Len(calls) < MaxCalls
  /\ calls' = Append(calls, [op |-> op, params |-> page[t].model, based |-> based, at |-> 0,
                             step |-> "sent", result |-> "none", number |-> 0])

\* canSave: based on a version, changed, not busy.
Save(t) ==
  /\ page[t].based # 0 /\ page[t].model # page[t].base /\ page[t].waits = 0
  /\ SendCall(t, "save", page[t].based)
  /\ Change(t, [page[t] EXCEPT !.waits = Len(calls) + 1, !.conflict = FALSE])
  /\ UNCHANGED <<versions, activations>>

\* A version in the list of the page.
Activate(t, n) ==
  /\ page[t].based # 0 /\ n \in 1..page[t].based /\ page[t].waits = 0
  /\ SendCall(t, "activate", n)
  /\ Change(t, [page[t] EXCEPT !.waits = Len(calls) + 1])
  /\ UNCHANGED <<versions, activations>>

\* After a success the profile is loaded again.
Replied(t) ==
  /\ page[t].waits # 0 /\ calls[page[t].waits].step = "done"
  /\ Change(t, IF calls[page[t].waits].result = "ok"
                 THEN [page[t] EXCEPT !.waits = 0, !.load = "asked", !.got = 0]
                 ELSE [page[t] EXCEPT !.waits = 0, !.conflict = TRUE])
  /\ UNCHANGED <<versions, activations, calls>>

\* No answer in time (ScoringUnavailable, 503): scoring may still be at work.
TimesOut(t) ==
  /\ page[t].waits # 0
  /\ Change(t, [page[t] EXCEPT !.waits = 0])
  /\ UNCHANGED <<versions, activations, calls>>

\* "Neu laden" after a conflict.
ReloadPage(t) ==
  /\ page[t].conflict
  /\ Change(t, [page[t] EXCEPT !.conflict = FALSE, !.force = TRUE, !.load = "asked", !.got = 0])
  /\ UNCHANGED <<versions, activations, calls>>

------------------------------------------------------------------------------
ProfilesNext ==
  \/ EnsureProfile
  \/ \E c \in DOMAIN calls : SaveCheck(c) \/ SaveWrite(c) \/ ActivateCheck(c) \/ ActivateWrite(c)
  \/ \E t \in Tab :
       \/ GetProfile(t) \/ Loaded(t) \/ GetFails(t) \/ Discard(t) \/ Save(t)
       \/ Replied(t) \/ TimesOut(t) \/ ReloadPage(t)
       \/ \E p \in Param : Edit(t, p)
       \/ \E n \in DOMAIN versions : Activate(t, n)

ProfilesSpec == ProfilesInit /\ [][ProfilesNext]_profilesVars

------------------------------------------------------------------------------
(* Properties.                                                               *)

ProfilesTypeOK ==
  /\ versions \in Seq(Version)
  /\ activations \subseteq Activation
  /\ calls \in Seq(Call)
  /\ page \in [Tab -> Page]

\* "Version n gespeichert": what a tab was told is there, with the parameters it
\* sent on top of the version it named, and no other tab's version took its place;
\* an activation it was told of is there, and what is active is a version.
AnswersAreTrue ==
  /\ \A c \in DOMAIN calls : calls[c].result = "ok" =>
       IF calls[c].op = "save"
         THEN calls[c].number \in DOMAIN versions /\ versions[calls[c].number] = NewVersion(c)
         ELSE \E a \in activations : a = [at |-> calls[c].at, version |-> calls[c].number]
  /\ versions # <<>> => Active \in DOMAIN versions

\* If-Match and the form belong together: the version a tab names when it saves is
\* the one its form started from and "Verwerfen" returns to, through reloads,
\* conflicts and late answers.
FormIsOfItsVersion ==
  \A t \in Tab : page[t].based # 0 =>
    page[t].based \in DOMAIN versions /\ page[t].base = versions[page[t].based].params

\* scoring-profile.md: when another tab has saved meanwhile the answer is 409.  So
\* every version is based on the one before it, and nobody's change is missing in it.
SavedOnNewest ==
  \A n \in DOMAIN versions : versions[n].parent = n - 1
==============================================================================
