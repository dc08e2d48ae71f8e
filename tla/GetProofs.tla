------------------------------ MODULE GetProofs ------------------------------
(***************************************************************************)
(* Proofs about Get for every policy, portal, list of commands, number of  *)
(* pages and concurrency, under interruptions, crashes and failed writes:  *)
(* surveys keep to their bound and clean up, status agrees with the summary*)
(* of the get before it, and a refresh leaves a complete details cache.    *)
(***************************************************************************)
EXTENDS Get, SurveyProofs

\* The pool runs exactly in the two phases that survey.
Phases == PoolInv /\ (main # "off" <=> at \in {"managed", "undeclared"})

-------------------------------------------------------------------------------
(* Tabs. *)

\* Steps that leave the pool as it is and stay outside the surveys.
LEMMA QuietPreserves ==
  ASSUME Phases, UNCHANGED poolVars,
         at \notin {"managed", "undeclared"},
         at' \notin {"managed", "undeclared"}
  PROVE  Phases'
<1>1. PoolInv'
  BY PoolStutters DEF Phases, poolVars
<1> QED
  BY <1>1 DEF Phases, poolVars

LEMMA PhasesInit == Init => Phases
<1> SUFFICES ASSUME Init PROVE Phases
  OBVIOUS
<1>1. /\ main = "off" /\ jobs = <<>> /\ next = 1 /\ sem = 0 /\ wg = 0
      /\ worker = [i \in Job |-> "none"] /\ at = "idle"
  BY DEF Init, PoolInit
<1>2. Holding = {} /\ Live = {}
  BY <1>1 DEF Holding, Live, InState
<1>3. Cardinality(Holding) = 0 /\ Cardinality(Live) = 0
  BY <1>2, FS_EmptySet
<1>4. Shape
  BY <1>1, SurveyAssumption DEF Shape, WorkerState
<1>5. Counters /\ AtRest
  BY <1>1, <1>2, <1>3, SurveyAssumption DEF Counters, AtRest
<1> QED
  BY <1>1, <1>4, <1>5 DEF Phases, PoolInv

LEMMA PhasesNext == Phases /\ [Next]_vars => Phases'
<1> SUFFICES ASSUME Phases, [Next]_vars PROVE Phases'
  OBVIOUS
<1>1. ASSUME NEW c \in Commands, Start(c) PROVE Phases'
  <2>1. at = "idle" /\ at' \in {"login", "listing"} /\ UNCHANGED poolVars
    BY <1>1 DEF Start, surveyVars
  <2> QED
    BY <2>1, QuietPreserves
<1>2. CASE LoginReady \/ ListReply
  BY <1>2, QuietPreserves DEF LoginReady, ListReply, surveyVars
<1>3. CASE ListRefused \/ ListGiveUp \/ Leave \/ PolicyFails
  <2>1. /\ at \in {"login", "listing", "leave", "plan"}
        /\ at' = "idle" /\ UNCHANGED poolVars
    BY <1>3 DEF ListRefused, ListGiveUp, Leave, PolicyFails, Exit, Forget
  <2> QED
    BY <2>1, QuietPreserves
<1>4. CASE ListExpire
  BY <1>4, QuietPreserves DEF ListExpire, surveyVars
<1>5. CASE TruncateList \/ WriteList \/ LoseList
  <2>1. /\ at \in {"saveList", "writeList"}
        /\ at' \in {"writeList", "plan", "leave"}
        /\ UNCHANGED poolVars
    BY <1>5 DEF TruncateList, WriteList, LoseList, AfterList, surveyVars
  <2> QED
    BY <2>1, QuietPreserves
<1>6. CASE TruncateDetails \/ WriteDetails \/ LoseDetails
  <2>1. /\ at \in {"saveDetails", "writeDetails"}
        /\ at' \in {"writeDetails", "print"}
        /\ UNCHANGED poolVars
    BY <1>6 DEF TruncateDetails, WriteDetails, LoseDetails, surveyVars
  <2> QED
    BY <2>1, QuietPreserves
<1>7. CASE ReadCache
  BY <1>7, QuietPreserves DEF ReadCache, surveyVars
<1>8. CASE SurveyManaged
  BY <1>8, LaunchEstablishes DEF SurveyManaged, Phases
<1>9. CASE CollectManaged
  <2>1. CASE Launch(Undeclared(Processed)) /\ at' = "undeclared"
    BY <2>1, LaunchEstablishes DEF Phases
  <2>2. CASE Collect /\ at' = "saveDetails"
    BY <2>2, CollectPreserves DEF Phases
  <2> QED
    BY <1>9, <2>1, <2>2 DEF CollectManaged
<1>10. CASE CollectUndeclared
  BY <1>10, CollectPreserves DEF CollectUndeclared, Phases
<1>11. CASE Summarise
  <2>1. at = "print" /\ at' = "idle" /\ UNCHANGED poolVars
    BY <1>11 DEF Summarise, Forget
  <2> QED
    BY <2>1, QuietPreserves
<1>12. CASE Surveying /\ Survey
  BY <1>12, SurveyPreserves DEF Surveying, Phases
<1>13. CASE Cancel \/ Terminated \/ UNCHANGED vars
  <2>1. UNCHANGED <<at, main, jobs, next, sem, wg, worker>>
    BY <1>13 DEF Cancel, Terminated, vars, surveyVars, poolVars
  <2> QED
    BY <2>1, PoolStutters DEF Phases
<1>14. CASE Die
  BY <1>14, PoolOffEstablishes DEF Die, Forget, Phases
<1> QED
  BY <1>1, <1>2, <1>3, <1>4, <1>5, <1>6, <1>7, <1>8, <1>9, <1>10, <1>11,
     <1>12, <1>13, <1>14 DEF Next, Proceed

\* The counters of the pool count the workers they stand for, and goroutines of
\* a survey live in the two surveying phases only (get.go:233-272).
THEOREM PoolInvariance == Spec => []Phases
BY PhasesInit, PhasesNext, PTL DEF Spec

\* Never more than "concurrency" survey tabs are open, and none outside the
\* surveys, however visits fail, expire or are interrupted (get.go:234-272,
\* cdp.go:884-885).
THEOREM SurveysCleanUp == Spec => []TabsComeAndGo
<1>1. Phases => TabsComeAndGo
  BY TabsBounded, NoTabsAtRest DEF Phases, TabsComeAndGo
<1> QED
  BY <1>1, PoolInvariance, PTL

-------------------------------------------------------------------------------
(* The summary and the status. *)

\* What status does not find the summary does not find either, over the same
\* memberships and details; what only status finds is written in another case.
LEMMA JoinsAgree ==
  ASSUME rules \in PolicyRules, NEW ms, NEW ds, NEW i \in DOMAIN rules
  PROVE  /\ ~Check(rules[i], ms, ds) => i \in Missing(ms, ds)
         /\ i \in Missing(ms, ds) /\ Check(rules[i], ms, ds) => ~rules[i].exact
<1> DEFINE r == rules[i]
           names == {ms[k].res : k \in DOMAIN ms}
           ids == {ms[k].res : k \in {n \in DOMAIN ms : ms[n].id}}
           NameOf == NamedFor(r, ds) \/ (r.by = "name" /\ r.exact)
<1>1. r.res # Empty
  <2>1. r \in RuleType
    BY GetAssumption
  <2> QED
    BY <2>1, SurveyAssumption DEF RuleType
<1>2. i \in Missing(ms, ds) <=>
        /\ ~(NameOf /\ r.res \in names)
        /\ ~(r.by = "id" /\ r.exact /\ r.res \in ids)
  BY DEF Missing
<1>3. r.res \in names <=> \E k \in DOMAIN ms : ms[k].res = r.res
  OBVIOUS
<1>4. r.res \in ids <=> \E k \in DOMAIN ms : ms[k].id /\ ms[k].res = r.res
  OBVIOUS
<1>5. Check(r, ms, ds) <=>
        \E k \in DOMAIN ms :
           \/ ms[k].res = r.res /\ (NamedFor(r, ds) \/ r.by = "name")
           \/ ms[k].id /\ ms[k].res = r.res /\ r.by = "id"
  BY <1>1 DEF Check, IdOf
<1> HIDE DEF r, names, ids
<1>6. ~Check(r, ms, ds) => i \in Missing(ms, ds)
  BY <1>2, <1>3, <1>4, <1>5
<1>7. i \in Missing(ms, ds) /\ Check(r, ms, ds) => ~r.exact
  BY <1>2, <1>3, <1>4, <1>5
<1> QED
  BY <1>6, <1>7 DEF r

LEMMA StatusUnchanged ==
  UNCHANGED <<rules, memFile, detFile>> => StatusMissing' = StatusMissing
BY DEF StatusMissing, Check, NamedFor, Named, IdOf

\* While a command runs it has printed no summary; what it has listed and found
\* is in the files by the time it prints, unless it could not write it.
Saved ==
  /\ rules \in PolicyRules
  /\ at # "idle" => ~printed.shown
  /\ at \in {"plan", "managed", "undeclared", "saveDetails", "writeDetails",
             "print"} /\ "list" \notin lost => memFile.list = listed
  /\ at = "print" /\ "details" \notin lost => detFile.list = details

Kept == Saved /\ StatusAgrees

LEMMA KeptInit == Init => Kept
BY DEF Init, Kept, Saved, StatusAgrees, NoSummary

\* A step inside a command prints nothing.
LEMMA KeptInside ==
  ASSUME at' # "idle", Saved'
  PROVE  Kept'
BY DEF Kept, StatusAgrees

\* Nor does one that ends it early.
LEMMA KeptOutside ==
  ASSUME Saved, at # "idle", at' = "idle", UNCHANGED <<rules, printed>>
  PROVE  Kept'
BY DEF Kept, Saved, StatusAgrees

LEMMA KeptNext == Kept /\ [Next]_vars => Kept'
<1> SUFFICES ASSUME Kept, [Next]_vars PROVE Kept'
  OBVIOUS
<1>0. Saved
  BY DEF Kept
<1>1. ASSUME NEW c \in Commands, Start(c) PROVE Kept'
  BY <1>0, <1>1, KeptInside DEF Start, Saved, NoSummary
<1>2. CASE LoginReady \/ ListReply \/ ListExpire
  <2>1. /\ at' \in {"listing", "saveList"}
        /\ at # "idle" /\ UNCHANGED <<rules, printed>>
    BY <1>2 DEF LoginReady, ListReply, ListExpire, command
  <2> QED
    BY <1>0, <2>1, KeptInside DEF Saved
<1>3. CASE ListRefused \/ ListGiveUp \/ Leave \/ PolicyFails \/ Die
  <2>1. /\ at # "idle" /\ at' = "idle" /\ UNCHANGED <<rules, printed>>
    BY <1>3 DEF ListRefused, ListGiveUp, Leave, PolicyFails, Die, Exit, Forget
  <2> QED
    BY <1>0, <2>1, KeptOutside
<1>4. CASE TruncateList
  BY <1>0, <1>4, KeptInside DEF TruncateList, Saved, command
<1>5. CASE WriteList
  BY <1>0, <1>5, KeptInside DEF WriteList, AfterList, Saved, command, Whole
<1>6. CASE LoseList
  BY <1>0, <1>6, KeptInside DEF LoseList, AfterList, Saved
<1>7. CASE TruncateDetails
  BY <1>0, <1>7, KeptInside DEF TruncateDetails, Saved, command
<1>8. CASE WriteDetails
  BY <1>0, <1>8, KeptInside DEF WriteDetails, Saved, command, Whole
<1>9. CASE LoseDetails
  BY <1>0, <1>9, KeptInside DEF LoseDetails, Saved, files
<1>10. CASE ReadCache
  BY <1>0, <1>10, KeptInside DEF ReadCache, Saved, files
<1>11. CASE SurveyManaged \/ CollectManaged \/ CollectUndeclared
  <2>1. /\ at \in {"plan", "managed", "undeclared"}
        /\ at' \in {"managed", "undeclared", "saveDetails"}
        /\ UNCHANGED <<rules, listed, lost, printed, memFile>>
    BY <1>11 DEF SurveyManaged, CollectManaged, CollectUndeclared, files
  <2> QED
    BY <1>0, <2>1, KeptInside DEF Saved
<1>12. CASE Summarise
  <2>1. /\ at = "print" /\ at' = "idle"
        /\ UNCHANGED <<rules, lost, memFile, detFile>>
    BY <1>12 DEF Summarise, Forget, files
  <2>2. Saved'
    BY <1>0, <2>1 DEF Saved
  <2>3. CASE printed' = NoSummary
    BY <2>2, <2>3 DEF Kept, StatusAgrees, NoSummary
  <2>4. CASE printed' = [shown |-> TRUE, missing |-> Missing(listed, details)]
    <3> SUFFICES ASSUME lost' = {}
                 PROVE  /\ StatusMissing' \subseteq printed'.missing
                        /\ \A i \in printed'.missing \ StatusMissing' :
                              ~rules'[i].exact
      BY <2>2 DEF Kept, StatusAgrees
    <3>1. memFile.list = listed /\ detFile.list = details
      BY <1>0, <2>1 DEF Saved
    <3>2. /\ StatusMissing' = StatusMissing /\ rules' = rules
          /\ printed'.missing = Missing(memFile.list, detFile.list)
      BY <2>1, <2>4, <3>1, StatusUnchanged
    <3>3. /\ StatusMissing \subseteq Missing(memFile.list, detFile.list)
          /\ \A i \in Missing(memFile.list, detFile.list) \ StatusMissing :
                ~rules[i].exact
      <4>1. Missing(memFile.list, detFile.list) \subseteq DOMAIN rules
        BY DEF Missing
      <4>2. \A i \in DOMAIN rules :
              i \in StatusMissing <=>
                ~Check(rules[i], memFile.list, detFile.list)
        BY DEF StatusMissing
      <4>3. StatusMissing \subseteq DOMAIN rules
        BY DEF StatusMissing
      <4> QED
        BY <1>0, <4>1, <4>2, <4>3, JoinsAgree DEF Saved
    <3> QED
      BY <3>2, <3>3
  <2> QED
    BY <1>12, <2>3, <2>4 DEF Summarise
<1>13. CASE Surveying /\ Survey
  BY <1>0, <1>13, KeptInside DEF Surveying, Saved, command, files
<1>14. CASE Cancel
  BY <1>0, <1>14, KeptInside DEF Cancel, Saved, command, files
<1>15. CASE Terminated \/ UNCHANGED vars
  <2>1. UNCHANGED <<rules, at, listed, details, lost, printed, memFile, detFile>>
    BY <1>15 DEF Terminated, vars, command, files
  <2>2. StatusMissing' = StatusMissing
    BY <2>1, StatusUnchanged
  <2>3. StatusAgrees'
    BY <2>1, <2>2 DEF Kept, StatusAgrees
  <2> QED
    BY <1>0, <2>1, <2>3 DEF Kept, Saved
<1> QED
  BY <1>1, <1>2, <1>3, <1>4, <1>5, <1>6, <1>7, <1>8, <1>9, <1>10, <1>11,
     <1>12, <1>13, <1>14, <1>15 DEF Next, Proceed

\* After a get that could write what it had, status finds the same rules missing
\* as its summary, up to rules written in another letter case (get.go:515-524,
\* provider_cdp.go:193-207), for any policy, table, details cache and history
\* of commands, crashes and failed writes.
THEOREM StatusConfirmsGet == Spec => []StatusAgrees
<1>1. Kept => StatusAgrees
  BY DEF Kept
<1> QED
  BY <1>1, KeptInit, KeptNext, PTL DEF Spec

-------------------------------------------------------------------------------
(* Types. *)

Visited == [link : Res, seen : BOOLEAN]

LEMMA ListedType ==
  ASSUME NEW table \in Listings
  PROVE  Listed(table) \in Seq(MembershipType)
<1>1. table \in Seq(MembershipType)
  BY GetAssumption
<1>2. News(table) \in SUBSET (DOMAIN table)
  BY DEF News
<1>3. Subsequence(table, News(table)) \in Seq(MembershipType)
  BY <1>1, <1>2, SubsequenceType
<1> QED
  BY <1>1, <1>3 DEF Listed

\* An argument that is known gives an address, or the empty one.
LEMMA LinkForType ==
  ASSUME rules \in Seq(RuleType), NEW a \in ArgType, Known(a)
  PROVE  LinkFor(a) \in Res \cup {Empty}
<1>1. CASE a.by = "url"
  BY <1>1 DEF LinkFor, ArgType
<1>2. CASE a.by # "url"
  <2>1. Meant(a) # {} /\ Meant(a) \in SUBSET (1..Len(rules)) /\ Len(rules) \in Nat
    BY <1>2 DEF Known, Meant, ByKey, ByCachedName
  <2>2. \E i \in Meant(a) : \A k \in Meant(a) : k <= i
    BY <2>1, Greatest
  <2> DEFINE i == CHOOSE i \in Meant(a) : \A k \in Meant(a) : k <= i
  <2>3. i \in Meant(a)
    BY <2>2
  <2>4. LinkFor(a) = LinkOf(rules[i])
    BY <1>2 DEF LinkFor
  <2> HIDE DEF i
  <2>5. rules[i] \in RuleType
    BY <2>1, <2>3
  <2> QED
    BY <2>4, <2>5 DEF LinkOf, RuleType
<1> QED
  BY <1>1, <1>2

LEMMA WantedType ==
  ASSUME rules \in PolicyRules, cmd \in Commands,
         \A k \in DOMAIN cmd.args : Known(cmd.args[k])
  PROVE  Wanted \in Seq(Res \cup {Empty})
<1>1. rules \in Seq(RuleType) /\ cmd.args \in Seq(ArgType)
  BY GetAssumption DEF CommandType
<1>2. CASE cmd.args = <<>>
  <2>1. \A i \in DOMAIN rules : LinkOf(rules[i]) \in Res \cup {Empty}
    <3>1. \A i \in DOMAIN rules : rules[i] \in RuleType
      BY <1>1
    <3> QED
      BY <3>1 DEF LinkOf, RuleType
  <2>2. Wanted = [i \in 1..Len(rules) |-> LinkOf(rules[i])]
    BY <1>1, <1>2 DEF Wanted
  <2>3. Wanted \in [1..Len(rules) -> Res \cup {Empty}] /\ Len(rules) \in Nat
    BY <1>1, <2>1, <2>2
  <2> QED
    BY <2>3
<1>3. CASE cmd.args # <<>>
  <2>1. \A k \in DOMAIN cmd.args : LinkFor(cmd.args[k]) \in Res \cup {Empty}
    <3>1. \A k \in DOMAIN cmd.args : cmd.args[k] \in ArgType
      BY <1>1
    <3> QED
      BY <1>1, <3>1, LinkForType
  <2>2. Wanted = [k \in 1..Len(cmd.args) |-> LinkFor(cmd.args[k])]
    BY <1>1, <1>3 DEF Wanted
  <2>3. /\ Wanted \in [1..Len(cmd.args) -> Res \cup {Empty}]
        /\ Len(cmd.args) \in Nat
    BY <1>1, <2>1, <2>2
  <2> QED
    BY <2>3
<1> QED
  BY <1>2, <1>3

LEMMA PagesType ==
  ASSUME listed \in Seq(MembershipType), NEW I \in SUBSET (DOMAIN listed)
  PROVE  Pages(I) \in Seq(Res)
<1>1. /\ Cardinality(I) \in Nat
      /\ DOMAIN Subsequence(listed, I) = 1..Cardinality(I)
      /\ Subsequence(listed, I) \in Seq(MembershipType)
  BY SubsequenceType
<1>2. \A j \in 1..Cardinality(I) : Subsequence(listed, I)[j] \in MembershipType
  BY <1>1
<1>3. Pages(I) \in [1..Cardinality(I) -> Res]
  BY <1>2 DEF Pages, MembershipType
<1> QED
  BY <1>1, <1>3

LEMMA UndeclaredType ==
  ASSUME listed \in Seq(MembershipType), NEW es
  PROVE  Undeclared(es) \in Seq(Res)
<1> DEFINE I == {k \in DOMAIN listed : /\ IdOf(listed[k]) \notin SeenIds(es)
                                       /\ listed[k].link}
<1>1. I \in SUBSET (DOMAIN listed)
  OBVIOUS
<1>2. Pages(I) \in Seq(Res)
  BY <1>1, PagesType
<1> QED
  BY <1>2 DEF Undeclared

LEMMA JudgedType ==
  ASSUME NEW es \in Seq(Visited), NEW m \in BOOLEAN
  PROVE  /\ Judged(es, m) \in Seq(Detail)
         /\ Len(Judged(es, m)) = Len(es)
<1>1. \A i \in 1..Len(es) : es[i] \in Visited
  OBVIOUS
<1>2. Judged(es, m) = [i \in 1..Len(es) |-> [link |-> es[i].link,
                                             seen |-> es[i].seen,
                                             managed |-> m]]
  BY DEF Judged
<1>3. Judged(es, m) \in [1..Len(es) -> Detail] /\ Len(es) \in Nat
  BY <1>1, <1>2 DEF Visited, Detail
<1> QED
  BY <1>3

LEMMA ConcatType ==
  ASSUME NEW T, NEW s \in Seq(T), NEW t \in Seq(T)
  PROVE  /\ s \o t \in Seq(T) /\ Len(s \o t) = Len(s) + Len(t)
         /\ \A i \in 1..Len(s) : (s \o t)[i] = s[i]
         /\ \A i \in 1..Len(t) : (s \o t)[Len(s) + i] = t[i]
OBVIOUS

LEMMA ConcatEmpty ==
  ASSUME NEW T, NEW s \in Seq(T)
  PROVE  s \o <<>> = s
OBVIOUS

\* With the survey's own invariant the shape of the state is inductive.
GetIInv == SurveyIInv /\ Phases /\ GetTypeOK

LEMMA ListOf ==
  ASSUME NEW T, NEW l \in Seq(T)
  PROVE  Absent \in Cache(T) /\ Torn \in Cache(T) /\ Whole(l) \in Cache(T)
<1>1. <<>> \in Seq(T)
  OBVIOUS
<1> QED
  BY <1>1 DEF Absent, Torn, Whole, Cache

LEMMA GetIInvInit == Init => GetIInv
<1> SUFFICES ASSUME Init PROVE GetIInv
  OBVIOUS
<1>1. Phases
  BY PhasesInit
<1>2. main = "off" /\ cancelled = FALSE /\ jobs = <<>> /\ next = 1
      /\ expired = {} /\ found = [i \in Job |-> Zero]
      /\ results = [i \in Job |-> Zero]
  BY DEF Init, PoolInit
<1>3. Typed
  <2>1. jobs \in Seq(Res \cup {Empty}) /\ next <= MaxJobs + 1
    BY <1>2, SurveyAssumption
  <2>2. cancelled \in BOOLEAN /\ expired \subseteq Job
    BY <1>2
  <2>3. found \in [Job -> Entry] /\ results \in [Job -> Entry]
    BY <1>2, ZeroType
  <2> QED
    BY <2>1, <2>2, <2>3 DEF Typed
<1>4. SurveyIInv
  BY <1>1, <1>2, <1>3 DEF SurveyIInv, Phases, Carried
<1>5. cmd \in Commands
  BY GetAssumption DEF Init
<1>6. Absent \in Cache(MembershipType) /\ Absent \in Cache(Detail)
  <2>1. <<>> \in Seq(MembershipType) /\ <<>> \in Seq(Detail)
    OBVIOUS
  <2> QED
    BY <2>1, ListOf
<1>7. GetTypeOK
  <2>1. SurveyTypeOK
    BY <1>4, SurveyWellTyped
  <2>2. printed \in [shown : BOOLEAN, missing : SUBSET (DOMAIN rules)]
    BY DEF Init, NoSummary
  <2>3. listed \in Seq(MembershipType) /\ details \in Seq(Detail)
    BY DEF Init
  <2>4. given \in 0..MaxCommands /\ lost \subseteq {"list", "details"}
    BY GetAssumption DEF Init
  <2> QED
    BY <1>5, <1>6, <2>1, <2>2, <2>3, <2>4 DEF Init, GetTypeOK, At
<1> QED
  BY <1>1, <1>4, <1>7 DEF GetIInv

\* The survey, whatever the command around it does.
LEMMA SurveyIInvNext == GetIInv /\ [Next]_vars => SurveyIInv'
<1> SUFFICES ASSUME GetIInv, [Next]_vars PROVE SurveyIInv'
  OBVIOUS
<1>0. /\ SurveyIInv /\ cancelled \in BOOLEAN
      /\ (main # "off" <=> at \in {"managed", "undeclared"})
  BY DEF GetIInv, SurveyIInv, Typed, Phases
<1>1. ASSUME NEW c \in Commands, Start(c) PROVE SurveyIInv'
  BY <1>0, <1>1, QuietCarries DEF Start, surveyVars
<1>2. CASE LoginReady \/ ListReply \/ ListExpire
  BY <1>0, <1>2, QuietCarries DEF LoginReady, ListReply, ListExpire, surveyVars
<1>3. CASE ListRefused \/ ListGiveUp \/ Leave \/ PolicyFails
  <2>1. /\ at \in {"login", "listing", "leave", "plan"}
        /\ UNCHANGED poolVars /\ cancelled' = FALSE
    BY <1>3 DEF ListRefused, ListGiveUp, Leave, PolicyFails, Exit, Forget
  <2> QED
    BY <1>0, <2>1, QuietCarries
<1>4. CASE TruncateList \/ WriteList \/ LoseList
           \/ TruncateDetails \/ WriteDetails \/ LoseDetails \/ ReadCache
  <2>1. UNCHANGED surveyVars
    BY <1>4 DEF TruncateList, WriteList, LoseList, TruncateDetails,
                WriteDetails, LoseDetails, ReadCache
  <2> QED
    BY <1>0, <2>1, QuietCarries DEF surveyVars
<1>5. CASE SurveyManaged
  <2>1. /\ Launch(Wanted) /\ cancelled' = cancelled
        /\ \A k \in DOMAIN cmd.args : Known(cmd.args[k])
    BY <1>5 DEF SurveyManaged
  <2>2. Wanted \in Seq(Res \cup {Empty})
    BY <2>1, WantedType DEF GetIInv, GetTypeOK
  <2> QED
    BY <1>0, <2>1, <2>2, LaunchCarries
<1>6. CASE CollectManaged
  <2>1. CASE Launch(Undeclared(Processed)) /\ UNCHANGED cancelled
    <3>1. Undeclared(Processed) \in Seq(Res)
      BY UndeclaredType DEF GetIInv, GetTypeOK
    <3>2. Undeclared(Processed) \in Seq(Res \cup {Empty})
      BY <3>1
    <3> QED
      BY <1>0, <2>1, <3>2, LaunchCarries
  <2>2. CASE Collect /\ UNCHANGED cancelled
    BY <1>0, <2>2, CollectCarries
  <2> QED
    BY <1>6, <2>1, <2>2 DEF CollectManaged
<1>7. CASE CollectUndeclared
  BY <1>0, <1>7, CollectCarries DEF CollectUndeclared
<1>8. CASE Summarise
  <2>1. at = "print" /\ UNCHANGED poolVars /\ cancelled' = FALSE
    BY <1>8 DEF Summarise, Forget
  <2> QED
    BY <1>0, <2>1, QuietCarries
<1>9. CASE Surveying /\ Survey
  BY <1>0, <1>9, SurveyCarries DEF Surveying
<1>10. CASE Cancel
  BY <1>0, <1>10, QuietCarries DEF Cancel
<1>11. CASE Terminated \/ UNCHANGED vars
  BY <1>0, <1>11, QuietCarries DEF Terminated, vars, surveyVars
<1>12. CASE Die
  BY <1>12, PoolOffCarries DEF Die, Forget
<1> QED
  BY <1>1, <1>2, <1>3, <1>4, <1>5, <1>6, <1>7, <1>8, <1>9, <1>10, <1>11, <1>12
  DEF Next, Proceed

LEMMA MissingType == \A ms, ds : Missing(ms, ds) \subseteq DOMAIN rules
BY DEF Missing

LEMMA GetIInvNext == GetIInv /\ [Next]_vars => GetIInv'
<1> SUFFICES ASSUME GetIInv, [Next]_vars PROVE GetIInv'
  OBVIOUS
<1>0. SurveyIInv' /\ Phases' /\ SurveyTypeOK'
  <2>1. SurveyIInv'
    BY SurveyIInvNext
  <2>2. Phases'
    BY PhasesNext DEF GetIInv
  <2>3. SurveyTypeOK'
    BY <2>1, SurveyWellTyped, PTL
  <2> QED
    BY <2>1, <2>2, <2>3
<1>00. SUFFICES GetTypeOK'
  BY <1>0 DEF GetIInv
<1> DEFINE M == MembershipType
<1>a. /\ rules \in PolicyRules /\ given \in 0..MaxCommands
      /\ cmd \in Commands /\ at \in At /\ listExpired \in BOOLEAN
      /\ listed \in Seq(M) /\ deep \in BOOLEAN
      /\ details \in Seq(Detail) /\ lost \subseteq {"list", "details"}
      /\ printed \in [shown : BOOLEAN, missing : SUBSET (DOMAIN rules)]
      /\ memFile \in Cache(M) /\ detFile \in Cache(Detail)
  BY DEF GetIInv, GetTypeOK
<1>b. <<>> \in Seq(M) /\ <<>> \in Seq(Detail)
  OBVIOUS
<1>c. NoSummary \in [shown : BOOLEAN, missing : SUBSET (DOMAIN rules)]
  BY DEF NoSummary
<1> HIDE DEF M
<1>d. SUFFICES /\ rules' \in PolicyRules /\ given' \in 0..MaxCommands
               /\ cmd' \in Commands /\ at' \in At /\ listExpired' \in BOOLEAN
               /\ listed' \in Seq(M) /\ deep' \in BOOLEAN
               /\ details' \in Seq(Detail) /\ lost' \subseteq {"list", "details"}
               /\ printed' \in [shown : BOOLEAN, missing : SUBSET (DOMAIN rules')]
               /\ memFile' \in Cache(M) /\ detFile' \in Cache(Detail)
  BY <1>0 DEF GetTypeOK, M
<1>1. ASSUME NEW c \in Commands, Start(c) PROVE GetTypeOK'
  <2>1. given' \in 0..MaxCommands
    BY <1>a, <1>1, GetAssumption DEF Start
  <2> QED
    BY <1>0, <1>a, <1>c, <1>1, <2>1 DEF Start, files, At, GetTypeOK, M
<1>2. CASE LoginReady
  BY <1>a, <1>2 DEF LoginReady, command, files, At
<1>3. CASE ListReply
  <2>1. listed' \in Seq(M)
    BY <1>3, ListedType DEF ListReply, M
  <2> QED
    BY <1>a, <1>3, <2>1 DEF ListReply, files, At
<1>4. CASE ListExpire
  BY <1>a, <1>4 DEF ListExpire, files
<1>5. CASE ListRefused \/ ListGiveUp \/ Leave \/ PolicyFails \/ Die
  <2>1. Forget /\ UNCHANGED <<lost, printed>>
    BY <1>5 DEF ListRefused, ListGiveUp, Leave, PolicyFails, Exit, Die
  <2> QED
    BY <1>a, <1>b, <2>1 DEF Forget, files, At
<1>6. CASE TruncateList
  <2>1. Torn \in Cache(M)
    BY <1>b, ListOf
  <2> QED
    BY <1>a, <1>6, <2>1 DEF TruncateList, command, At
<1>7. CASE WriteList
  <2>1. Whole(listed) \in Cache(M)
    BY <1>a, ListOf
  <2> QED
    BY <1>a, <1>7, <2>1 DEF WriteList, AfterList, command, At
<1>8. CASE LoseList
  BY <1>a, <1>8 DEF LoseList, AfterList, files, At
<1>9. CASE TruncateDetails
  <2>1. Torn \in Cache(Detail)
    BY <1>b, ListOf
  <2> QED
    BY <1>a, <1>9, <2>1 DEF TruncateDetails, command, At
<1>10. CASE WriteDetails
  <2>1. Whole(details) \in Cache(Detail)
    BY <1>a, ListOf
  <2> QED
    BY <1>a, <1>10, <2>1 DEF WriteDetails, command, At
<1>11. CASE LoseDetails
  BY <1>a, <1>11 DEF LoseDetails, files, At
<1>12. CASE ReadCache
  <2>1. detFile.list \in Seq(Detail)
    BY <1>a DEF Cache
  <2> QED
    BY <1>a, <1>12, <2>1 DEF ReadCache, files, At
<1>13. CASE SurveyManaged
  BY <1>a, <1>13 DEF SurveyManaged, files, At
<1>14. CASE CollectManaged
  <2>1. Judged(Processed, TRUE) \in Seq(Detail)
    BY ProcessedType, JudgedType DEF GetIInv, Visited
  <2> QED
    BY <1>a, <1>14, <2>1 DEF CollectManaged, files, At
<1>15. CASE CollectUndeclared
  <2>1. Judged(Processed, FALSE) \in Seq(Detail)
    BY ProcessedType, JudgedType DEF GetIInv, Visited
  <2>2. details \o Judged(Processed, FALSE) \in Seq(Detail)
    BY <1>a, <2>1, ConcatType
  <2> QED
    BY <1>a, <1>15, <2>2 DEF CollectUndeclared, files, At
<1>16. CASE Summarise
  <2>1. \A ms, ds : [shown |-> TRUE, missing |-> Missing(ms, ds)]
                     \in [shown : BOOLEAN, missing : SUBSET (DOMAIN rules)]
    BY MissingType
  <2>2. printed' \in [shown : BOOLEAN, missing : SUBSET (DOMAIN rules)]
    BY <1>16, <1>c, <2>1 DEF Summarise
  <2> QED
    BY <1>a, <1>b, <1>16, <2>2 DEF Summarise, Forget, files, At
<1>17. CASE Surveying /\ Survey
  BY <1>a, <1>17 DEF Surveying, command, files
<1>18. CASE Cancel
  BY <1>a, <1>18 DEF Cancel, command, files
<1>19. CASE Terminated \/ UNCHANGED vars
  BY <1>a, <1>19 DEF Terminated, vars, command, files
<1> QED
  BY <1>1, <1>2, <1>3, <1>4, <1>5, <1>6, <1>7, <1>8, <1>9, <1>10, <1>11, <1>12,
     <1>13, <1>14, <1>15, <1>16, <1>17, <1>18, <1>19
  DEF Next, Proceed, GetTypeOK, M

\* Commands, files and surveys keep their shape, and no counter of a survey
\* leaves its range, for any portal, policy and history of failures.
THEOREM GetTypeCorrect == Spec => []GetTypeOK
<1>1. GetIInv => GetTypeOK
  BY DEF GetIInv
<1> QED
  BY <1>1, GetIInvInit, GetIInvNext, PTL DEF Spec

-------------------------------------------------------------------------------
(* What a refresh brings together. *)

Addresses(es) == [j \in DOMAIN es |-> es[j].link]

LEMMA RulesTyped ==
  ASSUME rules \in PolicyRules
  PROVE  /\ rules \in Seq(RuleType)
         /\ \A i \in DOMAIN rules : rules[i].res \in Res /\ rules[i].link \in BOOLEAN
         /\ \A i \in DOMAIN rules : LinkOf(rules[i]) # Empty <=> rules[i].link
         /\ \A i \in DOMAIN rules : rules[i].link => LinkOf(rules[i]) = rules[i].res
<1>1. rules \in Seq(RuleType)
  BY GetAssumption
<1>2. \A i \in DOMAIN rules : rules[i] \in RuleType
  BY <1>1
<1> QED
  BY <1>1, <1>2, SurveyAssumption DEF RuleType, LinkOf

\* An uninterrupted survey of the rules returns the rules with a page, in order.
LEMMA ManagedVisited ==
  ASSUME SurveyIInv, Collectable, ~cancelled, rules \in PolicyRules,
         jobs = [i \in DOMAIN rules |-> LinkOf(rules[i])]
  PROVE  Addresses(Processed) = Links(rules, {})
<1> DEFINE I == {i \in DOMAIN jobs : HasLink(results[i])}
           L == {i \in DOMAIN rules : rules[i].link /\ rules[i].res \notin {}}
<1>1. /\ DOMAIN jobs = DOMAIN rules
      /\ \A i \in DOMAIN rules : results[i].link = LinkOf(rules[i])
  BY AllRecorded
<1>2. I = L
  BY <1>1, RulesTyped DEF HasLink
<1>3. /\ Cardinality(L) \in Nat
      /\ \A j \in 1..Cardinality(L) : /\ Nth(L, j) \in L
                                      /\ Subsequence(rules, L)[j] = rules[Nth(L, j)]
  <2>1. L \in SUBSET (DOMAIN rules) /\ rules \in Seq(RuleType)
    BY RulesTyped
  <2> HIDE DEF L
  <2> QED
    BY <2>1, SubsequenceType
<1>4. Processed = [j \in 1..Cardinality(L) |-> results[Nth(L, j)]]
  BY <1>2 DEF Processed, Subsequence
<1>5. Addresses(Processed) = [j \in 1..Cardinality(L) |-> results[Nth(L, j)].link]
  BY <1>4 DEF Addresses
<1>6. Links(rules, {}) = [j \in 1..Cardinality(L) |-> Subsequence(rules, L)[j].res]
  BY DEF Links
<1>7. \A i \in L : results[i].link = rules[i].res
  BY <1>1, RulesTyped
<1> HIDE DEF L
<1>8. \A j \in 1..Cardinality(L) :
        results[Nth(L, j)].link = Subsequence(rules, L)[j].res
  BY <1>3, <1>7
<1> QED
  BY <1>5, <1>6, <1>8

\* One of pages that all have an address returns every one of them.
LEMMA UndeclaredVisited ==
  ASSUME SurveyIInv, Collectable, ~cancelled, jobs \in Seq(Res)
  PROVE  Addresses(Processed) = jobs
<1> DEFINE I == {i \in DOMAIN jobs : HasLink(results[i])}
<1>1. /\ DOMAIN jobs = 1..Len(jobs) /\ Len(jobs) \in Nat
      /\ \A i \in DOMAIN jobs : results[i].link = jobs[i]
  BY AllRecorded
<1>2. \A i \in DOMAIN jobs : jobs[i] # Empty
  BY SurveyAssumption
<1>3. I = (0 + 1)..Len(jobs)
  BY <1>1, <1>2 DEF HasLink
<1>4. /\ Cardinality(I) = Len(jobs)
      /\ \A j \in 1..Len(jobs) : Nth(I, j) = j
  <2>1. /\ Cardinality((0 + 1)..Len(jobs)) = Len(jobs) - 0
        /\ \A j \in 1..(Len(jobs) - 0) : Nth((0 + 1)..Len(jobs), j) = 0 + j
    <3>1. 0 \in Nat /\ 0 <= Len(jobs)
      BY <1>1
    <3> QED
      BY <1>1, <3>1, NthOfInterval
  <2>2. Len(jobs) - 0 = Len(jobs) /\ \A j \in 1..Len(jobs) : 0 + j = j
    BY <1>1
  <2> HIDE DEF I
  <2> QED
    BY <1>3, <2>1, <2>2
<1>5. Processed = [j \in 1..Cardinality(I) |-> results[Nth(I, j)]]
  BY DEF Processed, Subsequence
<1> HIDE DEF I
<1>6. Processed = [j \in 1..Len(jobs) |-> results[j]]
  BY <1>4, <1>5
<1>7. Addresses(Processed) = [j \in 1..Len(jobs) |-> jobs[j]]
  BY <1>1, <1>6 DEF Addresses
<1> QED
  BY <1>1, <1>7

\* Where the entries of two lists end up when one is appended to the other.
LEMMA Joined ==
  ASSUME NEW p \in Seq(Detail), NEW q \in Seq(Detail),
         NEW m, m = Len(p), NEW k, k = Len(q)
  PROVE  /\ m \in Nat /\ k \in Nat /\ DOMAIN p = 1..m /\ DOMAIN q = 1..k
         /\ DOMAIN (p \o q) = 1..(m + k)
         /\ \A i \in 1..m : (p \o q)[i] = p[i]
         /\ \A i \in 1..k : (p \o q)[m + i] = q[i]
         /\ \A i \in 1..(m + k) : i > m => (p \o q)[i] = q[i - m]
<1>1. /\ m \in Nat /\ k \in Nat /\ DOMAIN p = 1..m /\ DOMAIN q = 1..k
  OBVIOUS
<1>2. /\ p \o q \in Seq(Detail) /\ Len(p \o q) = m + k
      /\ \A i \in 1..m : (p \o q)[i] = p[i]
      /\ \A i \in 1..k : (p \o q)[m + i] = q[i]
  BY ConcatType
<1>3. DOMAIN (p \o q) = 1..(m + k)
  BY <1>2
<1>4. \A i \in 1..(m + k) : i > m => i - m \in 1..k /\ m + (i - m) = i
  BY <1>1
<1>5. \A i \in 1..(m + k) : i > m => (p \o q)[i] = q[i - m]
  <2> SUFFICES ASSUME NEW i \in 1..(m + k), i > m
               PROVE  (p \o q)[i] = q[i - m]
    OBVIOUS
  <2>1. i - m \in 1..k /\ m + (i - m) = i
    BY <1>4
  <2>2. (p \o q)[m + (i - m)] = q[i - m]
    BY <1>2, <2>1
  <2> QED
    BY <2>1, <2>2
<1> QED
  BY <1>1, <1>2, <1>3, <1>5

\* Taking the two lists of details apart again.
LEMMA Apart ==
  ASSUME NEW p \in Seq(Detail), NEW q \in Seq(Detail),
         \A i \in DOMAIN p : p[i].managed = TRUE,
         \A i \in DOMAIN q : q[i].managed = FALSE
  PROVE  /\ LinksOf(p \o q, TRUE) = Addresses(p)
         /\ LinksOf(p \o q, FALSE) = Addresses(q)
<1> DEFINE m == Len(p)
           k == Len(q)
           ds == p \o q
<1>1. /\ m \in Nat /\ k \in Nat /\ DOMAIN p = 1..m /\ DOMAIN q = 1..k
      /\ DOMAIN ds = 1..(m + k)
      /\ \A i \in 1..m : ds[i] = p[i]
      /\ \A i \in 1..k : ds[m + i] = q[i]
      /\ \A i \in 1..(m + k) : i > m => ds[i] = q[i - m]
  BY Joined
<1> HIDE DEF m, k, ds
<1>2. /\ \A i \in 1..m : ds[i].managed = TRUE
      /\ \A i \in 1..(m + k) : i > m => ds[i].managed = FALSE
  <2>1. \A i \in 1..(m + k) : i > m => \E h \in DOMAIN q : ds[i] = q[h]
    <3>1. \A i \in 1..(m + k) : i > m => i - m \in 1..k
      BY <1>1
    <3> QED
      BY <1>1, <3>1
  <2>2. \A i \in 1..m : i \in DOMAIN p /\ ds[i] = p[i]
    BY <1>1
  <2> QED
    BY <2>1, <2>2, Zenon
<1>3. LinksOf(ds, TRUE) = Addresses(p)
  <2> DEFINE I == {i \in DOMAIN ds : ds[i].managed = TRUE}
  <2>1. I = (0 + 1)..m
    BY <1>1, <1>2
  <2>2. Cardinality(I) = m /\ \A j \in 1..m : Nth(I, j) = j
    <3>1. /\ Cardinality((0 + 1)..m) = m - 0
          /\ \A j \in 1..(m - 0) : Nth((0 + 1)..m, j) = 0 + j
      <4>1. 0 \in Nat /\ 0 <= m
        BY <1>1
      <4> QED
        BY <1>1, <4>1, NthOfInterval
    <3>2. m - 0 = m /\ \A j \in 1..m : 0 + j = j
      BY <1>1
    <3> HIDE DEF I
    <3> QED
      BY <2>1, <3>1, <3>2
  <2>3. LinksOf(ds, TRUE) =
          [j \in 1..Cardinality(I) |-> Subsequence(ds, I)[j].link]
    BY DEF LinksOf
  <2> HIDE DEF I
  <2>4. \A j \in 1..m : Subsequence(ds, I)[j].link = p[j].link
    BY <1>1, <2>2 DEF Subsequence
  <2>5. LinksOf(ds, TRUE) = [j \in 1..m |-> p[j].link]
    BY <2>2, <2>3, <2>4
  <2>6. Addresses(p) = [j \in 1..m |-> p[j].link]
    BY <1>1 DEF Addresses
  <2> QED
    BY <2>5, <2>6
<1>4. LinksOf(ds, FALSE) = Addresses(q)
  <2> DEFINE I == {i \in DOMAIN ds : ds[i].managed = FALSE}
  <2>1. I = (m + 1)..(m + k)
    BY <1>1, <1>2
  <2>2. Cardinality(I) = k /\ \A j \in 1..k : Nth(I, j) = m + j
    <3>1. m + k \in Nat /\ m <= m + k /\ (m + k) - m = k
      BY <1>1
    <3>2. /\ Cardinality((m + 1)..(m + k)) = (m + k) - m
          /\ \A j \in 1..((m + k) - m) : Nth((m + 1)..(m + k), j) = m + j
      BY <1>1, <3>1, NthOfInterval
    <3> HIDE DEF I
    <3> QED
      BY <2>1, <3>1, <3>2
  <2>3. LinksOf(ds, FALSE) =
          [j \in 1..Cardinality(I) |-> Subsequence(ds, I)[j].link]
    BY DEF LinksOf
  <2> HIDE DEF I
  <2>4. \A j \in 1..k : Subsequence(ds, I)[j].link = q[j].link
    BY <1>1, <2>2 DEF Subsequence
  <2>5. LinksOf(ds, FALSE) = [j \in 1..k |-> q[j].link]
    BY <2>2, <2>3, <2>4
  <2>6. Addresses(q) = [j \in 1..k |-> q[j].link]
    BY <1>1 DEF Addresses
  <2> QED
    BY <2>5, <2>6
<1> QED
  BY <1>3, <1>4 DEF ds

LEMMA JudgedApart ==
  ASSUME NEW es \in Seq(Visited), NEW fs \in Seq(Visited)
  PROVE  LET ds == Judged(es, TRUE) \o Judged(fs, FALSE)
         IN  /\ LinksOf(ds, TRUE) = Addresses(es)
             /\ LinksOf(ds, FALSE) = Addresses(fs)
             /\ (\A i \in DOMAIN ds : ds[i].seen) =>
                  \A i \in DOMAIN es : es[i].seen
<1> DEFINE p == Judged(es, TRUE)
           q == Judged(fs, FALSE)
           m == Len(p)
           k == Len(q)
<1>1. p \in Seq(Detail)
  BY JudgedType
<1>2. q \in Seq(Detail)
  BY JudgedType
<1>3. /\ DOMAIN p = DOMAIN es
      /\ \A i \in DOMAIN es : p[i].seen = es[i].seen /\ p[i].managed = TRUE
      /\ Addresses(p) = Addresses(es)
  BY DEF Judged, Addresses
<1>4. /\ DOMAIN q = DOMAIN fs /\ \A i \in DOMAIN fs : q[i].managed = FALSE
      /\ Addresses(q) = Addresses(fs)
  BY DEF Judged, Addresses
<1> HIDE DEF p, q
<1>5. LinksOf(p \o q, TRUE) = Addresses(p) /\ LinksOf(p \o q, FALSE) = Addresses(q)
  BY <1>1, <1>2, <1>3, <1>4, Apart
<1>6. /\ m \in Nat /\ k \in Nat /\ DOMAIN p = 1..m
      /\ DOMAIN (p \o q) = 1..(m + k)
      /\ \A i \in 1..m : (p \o q)[i] = p[i]
  BY <1>1, <1>2, Joined
<1>7. \A i \in 1..m : i \in 1..(m + k)
  BY <1>6
<1> HIDE DEF m, k
<1>8. (\A i \in DOMAIN (p \o q) : (p \o q)[i].seen) => \A i \in DOMAIN es : es[i].seen
  BY <1>3, <1>6, <1>7
<1> QED
  BY <1>3, <1>4, <1>5, <1>8 DEF p, q

\* Every rule with a page is there as managed; every other membership as not
\* managed, if pages and table have told their IDs.
Complete(ds, rs, ms, P) ==
  /\ LinksOf(ds, TRUE) = Links(rs, {})
  /\ (\A i \in DOMAIN ds : ds[i].seen) /\ (\A k \in DOMAIN ms : ms[k].id)
       => LinksOf(ds, FALSE) = Links(ms, P)

\* If every page of the first survey gave its ID, those IDs are the policy's.
LEMMA SeenIsPolicy ==
  ASSUME rules \in PolicyRules, NEW es \in Seq(Visited),
         Addresses(es) = Links(rules, {}), \A i \in DOMAIN es : es[i].seen
  PROVE  SeenIds(es) = InPolicy
<1> DEFINE L == {i \in DOMAIN rules : rules[i].link /\ rules[i].res \notin {}}
<1>1. L \in SUBSET (DOMAIN rules) /\ rules \in Seq(RuleType)
  BY RulesTyped
<1>2. Links(rules, {}) = [j \in 1..Cardinality(L) |-> Subsequence(rules, L)[j].res]
  BY DEF Links
<1>3. InPolicy = {rules[i].res : i \in L}
  BY DEF InPolicy
<1> HIDE DEF L
<1>4. /\ L \in SUBSET (1..Len(rules)) /\ Cardinality(L) \in Nat
      /\ Len(rules) \in Nat
      /\ \A j \in 1..Cardinality(L) : /\ Nth(L, j) \in L
                                      /\ Subsequence(rules, L)[j] = rules[Nth(L, j)]
  BY <1>1, SubsequenceType
<1>5. /\ DOMAIN es = 1..Cardinality(L)
      /\ \A j \in 1..Cardinality(L) : es[j].link = rules[Nth(L, j)].res
  <2>1. DOMAIN Addresses(es) = DOMAIN es
    BY DEF Addresses
  <2>2. \A j \in DOMAIN es : Addresses(es)[j] = es[j].link
    BY DEF Addresses
  <2> QED
    BY <1>2, <1>4, <2>1, <2>2
<1>6. SeenIds(es) = {es[j].link : j \in DOMAIN es}
  BY DEF SeenIds, PageId
<1>7. \A i \in L : Rank(L, i) \in 1..Cardinality(L) /\ Nth(L, Rank(L, i)) = i
  BY <1>4, RankType, NthOfRank
<1>8. SeenIds(es) \subseteq InPolicy
  BY <1>3, <1>4, <1>5, <1>6
<1>9. InPolicy \subseteq SeenIds(es)
  <2> SUFFICES ASSUME NEW i \in L PROVE rules[i].res \in SeenIds(es)
    BY <1>3
  <2>1. Rank(L, i) \in DOMAIN es /\ es[Rank(L, i)].link = rules[i].res
    BY <1>5, <1>7
  <2> QED
    BY <1>6, <2>1
<1> QED
  BY <1>8, <1>9

\* What the two surveys return is complete.
LEMMA TwoSurveysComplete ==
  ASSUME rules \in PolicyRules,
         NEW es \in Seq(Visited), NEW fs \in Seq(Visited),
         Addresses(es) = Links(rules, {}), Addresses(fs) = Undeclared(es)
  PROVE  Complete(Judged(es, TRUE) \o Judged(fs, FALSE), rules, listed, InPolicy)
<1> DEFINE ds == Judged(es, TRUE) \o Judged(fs, FALSE)
<1>1. /\ LinksOf(ds, TRUE) = Addresses(es)
      /\ LinksOf(ds, FALSE) = Addresses(fs)
      /\ (\A i \in DOMAIN ds : ds[i].seen) => \A i \in DOMAIN es : es[i].seen
  BY JudgedApart
<1> HIDE DEF ds
<1>2. ASSUME \A i \in DOMAIN ds : ds[i].seen, \A k \in DOMAIN listed : listed[k].id
      PROVE  Undeclared(es) = Links(listed, InPolicy)
  <2>1. SeenIds(es) = InPolicy
    BY <1>1, <1>2, SeenIsPolicy
  <2>2. {k \in DOMAIN listed : /\ IdOf(listed[k]) \notin SeenIds(es)
                               /\ listed[k].link}
          = {k \in DOMAIN listed : /\ listed[k].link
                                   /\ listed[k].res \notin InPolicy}
    BY <1>2, <2>1 DEF IdOf
  <2> QED
    BY <2>2 DEF Undeclared, Pages, Links
<1>3. Complete(ds, rules, listed, InPolicy)
  BY <1>1, <1>2 DEF Complete
<1> QED
  BY <1>3 DEF ds

\* How far a refresh without arguments that nobody has interrupted has got: it
\* visits all the rules, then holds a complete first half, then a complete whole.
Surveyed ==
  /\ at \in {"idle", "login", "listing", "saveList", "writeList", "plan",
             "leave"} => ~deep
  /\ deep /\ ~cancelled /\ cmd.args = <<>> =>
       /\ at = "managed" => jobs = [i \in DOMAIN rules |-> LinkOf(rules[i])]
       /\ at = "undeclared" =>
            \E es \in Seq(Visited) : /\ Addresses(es) = Links(rules, {})
                                     /\ details = Judged(es, TRUE)
                                     /\ jobs = Undeclared(es)
       /\ at \in {"saveDetails", "writeDetails", "print"} =>
            Complete(details, rules, listed, InPolicy)

\* Steps that leave the work of the command as it is.
LEMMA SurveyedStutters ==
  ASSUME Surveyed, cancelled' = cancelled \/ cancelled',
         UNCHANGED <<rules, cmd, at, jobs, listed, deep, details>>
  PROVE  Surveyed'
<1>1. CASE ~cancelled'
  <2>1. ~cancelled
    BY <1>1
  <2>2. InPolicy' = InPolicy /\ (\A es : Undeclared(es)' = Undeclared(es))
    BY DEF InPolicy, Undeclared, Pages, IdOf
  <2>3. Complete(details, rules, listed, InPolicy)'
          <=> Complete(details, rules, listed, InPolicy)
    BY <2>2
  <2>4. ASSUME deep', cmd'.args = <<>>, at' = "undeclared"
        PROVE  (\E es \in Seq(Visited) : /\ Addresses(es) = Links(rules, {})
                                         /\ details = Judged(es, TRUE)
                                         /\ jobs = Undeclared(es))'
    <3>1. PICK es \in Seq(Visited) : /\ Addresses(es) = Links(rules, {})
                                     /\ details = Judged(es, TRUE)
                                     /\ jobs = Undeclared(es)
      BY <2>1, <2>4 DEF Surveyed
    <3>2. /\ Addresses(es) = Links(rules', {})
          /\ details' = Judged(es, TRUE)
          /\ jobs' = Undeclared(es)'
      BY <2>2, <3>1
    <3> QED
      BY <3>2
  <2> QED
    BY <2>1, <2>3, <2>4 DEF Surveyed
<1>2. CASE cancelled'
  BY <1>2 DEF Surveyed
<1> QED
  BY <1>1, <1>2

\* A survey does not touch its jobs, and no signal comes from within it.
LEMMA SurveyKeepsJobs == Survey => UNCHANGED <<jobs, cancelled>>
BY DEF Survey, Loop, Dispatch, Abort, EndLoop, Prompt, Page, Visit, GiveUp,
       Record, Release, Done, PageReady, DialogReady, Refused, Expire, Step

\* Outside the part of a command that surveys.
LEMMA SurveyedOutside ==
  ASSUME at' \in {"idle", "login", "listing", "saveList", "writeList", "plan",
                  "leave"},
         ~deep'
  PROVE  Surveyed'
BY DEF Surveyed

LEMMA SurveyedInit == Init => Surveyed
BY DEF Init, Surveyed

LEMMA SurveyedCollectManaged ==
  ASSUME GetIInv, Surveyed, CollectManaged
  PROVE  Surveyed'
<1> DEFINE es == Processed
<1>0. SUFFICES ASSUME ~cancelled, deep, cmd.args = <<>>
               PROVE  Surveyed'
  <2>1. /\ at' \in {"undeclared", "saveDetails"}
        /\ UNCHANGED <<cancelled, cmd, deep>>
    BY DEF CollectManaged
  <2>2. ~(deep /\ ~cancelled /\ cmd.args = <<>>) => Surveyed'
    BY <2>1 DEF Surveyed
  <2> QED
    BY <2>2
<1>1. /\ at = "managed" /\ Collectable /\ details' = Judged(es, TRUE)
      /\ UNCHANGED <<rules, cmd, listed, deep>>
  BY DEF CollectManaged
<1>2. SurveyIInv /\ rules \in PolicyRules /\ listed \in Seq(MembershipType)
  BY DEF GetIInv, GetTypeOK
<1>3. jobs = [i \in DOMAIN rules |-> LinkOf(rules[i])]
  BY <1>0, <1>1 DEF Surveyed
<1>4. es \in Seq(Visited)
  BY <1>2, ProcessedType DEF Visited
<1>5. Addresses(es) = Links(rules, {})
  BY <1>0, <1>1, <1>2, <1>3, ManagedVisited
<1>6. InPolicy' = InPolicy /\ (\A fs : Undeclared(fs)' = Undeclared(fs))
  BY <1>1 DEF InPolicy, Undeclared, Pages, IdOf
<1> HIDE DEF es
<1>7. CASE Launch(Undeclared(es)) /\ at' = "undeclared"
  <2>1. jobs' = Undeclared(es)
    BY <1>7 DEF Launch, Reset
  <2>3. \E fs \in Seq(Visited) : /\ Addresses(fs) = Links(rules', {})
                                 /\ details' = Judged(fs, TRUE)
                                 /\ jobs' = Undeclared(fs)'
    <3>1. \A fs : Undeclared(fs)' = Undeclared(fs)
      BY <1>6
    <3>2. \E fs \in Seq(Visited) : /\ Addresses(fs) = Links(rules', {})
                                   /\ details' = Judged(fs, TRUE)
                                   /\ jobs' = Undeclared(fs)
      BY <1>1, <1>4, <1>5, <2>1
    <3> QED
      BY <3>1, <3>2
  <2> QED
    BY <1>7, <2>3 DEF Surveyed
<1>8. CASE Undeclared(es) = <<>> /\ at' = "saveDetails"
  <2>1. <<>> \in Seq(Visited) /\ Addresses(<<>>) = <<>>
    BY DEF Addresses
  <2>2. Judged(es, TRUE) \in Seq(Detail)
    BY <1>4, JudgedType
  <2>3. Judged(<<>>, FALSE) = <<>>
    BY DEF Judged
  <2>4. Judged(es, TRUE) \o Judged(<<>>, FALSE) = Judged(es, TRUE)
    BY <2>2, <2>3, ConcatEmpty
  <2>5. Complete(Judged(es, TRUE) \o Judged(<<>>, FALSE), rules, listed, InPolicy)
    BY <1>2, <1>4, <1>5, <1>8, <2>1, TwoSurveysComplete
  <2>6. Complete(details', rules', listed', InPolicy')
    BY <1>1, <1>6, <2>4, <2>5
  <2> QED
    BY <1>8, <2>6 DEF Surveyed
<1> QED
  BY <1>7, <1>8 DEF CollectManaged, es

LEMMA SurveyedCollectUndeclared ==
  ASSUME GetIInv, Surveyed, CollectUndeclared
  PROVE  Surveyed'
<1> DEFINE fs == Processed
<1>0. SUFFICES ASSUME ~cancelled, deep, cmd.args = <<>>
               PROVE  Surveyed'
  BY DEF CollectUndeclared, Surveyed
<1>1. /\ at = "undeclared" /\ Collectable /\ at' = "saveDetails"
      /\ details' = details \o Judged(fs, FALSE)
      /\ UNCHANGED <<rules, cmd, listed, deep>>
  BY DEF CollectUndeclared, Collect
<1>2. SurveyIInv /\ rules \in PolicyRules /\ listed \in Seq(MembershipType)
  BY DEF GetIInv, GetTypeOK
<1>3. PICK es \in Seq(Visited) : /\ Addresses(es) = Links(rules, {})
                                 /\ details = Judged(es, TRUE)
                                 /\ jobs = Undeclared(es)
  BY <1>0, <1>1 DEF Surveyed
<1>4. jobs \in Seq(Res)
  BY <1>2, <1>3, UndeclaredType
<1>5. fs \in Seq(Visited)
  BY <1>2, ProcessedType DEF Visited
<1>6. Addresses(fs) = Undeclared(es)
  BY <1>0, <1>1, <1>2, <1>3, <1>4, UndeclaredVisited
<1>7. InPolicy' = InPolicy
  BY <1>1 DEF InPolicy
<1> HIDE DEF fs
<1>8. Complete(Judged(es, TRUE) \o Judged(fs, FALSE), rules, listed, InPolicy)
  BY <1>2, <1>3, <1>5, <1>6, TwoSurveysComplete
<1>9. Complete(details', rules', listed', InPolicy')
  BY <1>1, <1>3, <1>7, <1>8
<1> QED
  BY <1>1, <1>9 DEF Surveyed

LEMMA SurveyedNext == GetIInv /\ Surveyed /\ [Next]_vars => Surveyed'
<1> SUFFICES ASSUME GetIInv, Surveyed, [Next]_vars PROVE Surveyed'
  OBVIOUS
<1>1. ASSUME NEW c \in Commands, Start(c) PROVE Surveyed'
  <2>1. at = "idle" /\ at' \in {"login", "listing"} /\ deep' = deep
    BY <1>1 DEF Start
  <2>2. ~deep'
    BY <2>1 DEF Surveyed
  <2> QED
    BY <2>1, <2>2, SurveyedOutside
<1>2. CASE LoginReady \/ ListReply
  <2>1. /\ at \in {"login", "listing"} /\ at' \in {"listing", "saveList"}
        /\ deep' = deep
    BY <1>2 DEF LoginReady, ListReply, command
  <2>2. ~deep'
    BY <2>1 DEF Surveyed
  <2> QED
    BY <2>1, <2>2, SurveyedOutside
<1>3. CASE ListRefused \/ ListGiveUp \/ Leave \/ PolicyFails \/ Die
  BY <1>3, SurveyedOutside
  DEF ListRefused, ListGiveUp, Leave, PolicyFails, Exit, Die, Forget
<1>4. CASE TruncateList \/ WriteList \/ LoseList
  <2>1. /\ at \in {"saveList", "writeList"} /\ deep' = deep
        /\ at' \in {"writeList", "plan", "leave"}
    BY <1>4 DEF TruncateList, WriteList, LoseList, AfterList, command
  <2>2. ~deep'
    BY <2>1 DEF Surveyed
  <2> QED
    BY <2>1, <2>2, SurveyedOutside
<1>5. CASE ListExpire \/ Terminated \/ UNCHANGED vars \/ Cancel
  <2>1. /\ cancelled' = cancelled \/ cancelled'
        /\ UNCHANGED <<rules, cmd, at, jobs, listed, deep, details>>
    BY <1>5 DEF ListExpire, Terminated, vars, Cancel, surveyVars, poolVars,
                command
  <2> QED
    BY <2>1, SurveyedStutters
<1>6. CASE TruncateDetails \/ WriteDetails \/ LoseDetails
  <2>1. /\ at \in {"saveDetails", "writeDetails"}
        /\ at' \in {"writeDetails", "print"}
        /\ UNCHANGED <<cancelled, rules, cmd, listed, deep, details>>
    BY <1>6 DEF TruncateDetails, WriteDetails, LoseDetails, surveyVars, command
  <2>2. InPolicy' = InPolicy
    BY <2>1 DEF InPolicy
  <2>3. Complete(details, rules, listed, InPolicy)'
          <=> Complete(details, rules, listed, InPolicy)
    BY <2>1, <2>2
  <2> QED
    BY <2>1, <2>3 DEF Surveyed
<1>7. CASE ReadCache
  <2>1. ~deep' /\ at' = "print"
    BY <1>7 DEF ReadCache, Surveyed
  <2> QED
    BY <2>1 DEF Surveyed
<1>8. CASE SurveyManaged
  <2>1. at' = "managed" /\ jobs' = Wanted /\ UNCHANGED <<rules, cmd>>
    BY <1>8 DEF SurveyManaged, Launch, Reset
  <2>2. cmd'.args = <<>> =>
          jobs' = [i \in DOMAIN rules' |-> LinkOf(rules'[i])]
    BY <2>1 DEF Wanted
  <2> QED
    BY <2>1, <2>2 DEF Surveyed
<1>9. CASE CollectManaged
  BY <1>9, SurveyedCollectManaged
<1>10. CASE CollectUndeclared
  BY <1>10, SurveyedCollectUndeclared
<1>11. CASE Summarise
  BY <1>11, SurveyedOutside DEF Summarise, Forget
<1>12. CASE Surveying /\ Survey
  <2>1. UNCHANGED <<cancelled, rules, cmd, at, jobs, listed, deep, details>>
    BY <1>12, SurveyKeepsJobs DEF Surveying, command
  <2> QED
    BY <2>1, SurveyedStutters
<1> QED
  BY <1>1, <1>2, <1>3, <1>4, <1>5, <1>6, <1>7, <1>8, <1>9, <1>10, <1>11, <1>12
  DEF Next, Proceed

\* An uninterrupted refresh without arguments leaves a complete details cache
\* (get.go:135-193), for any policy, table, order of pages and goroutines,
\* number of them, timeouts, and whatever the commands before it left behind.
THEOREM RefreshCompletes == Spec => []RefreshIsComplete
<1>1. Saved /\ Surveyed => RefreshIsComplete
  <2> SUFFICES ASSUME Saved, Surveyed, FullRefresh
               PROVE  Complete(detFile.list, rules, listed, InPolicy)
    BY DEF RefreshIsComplete, Complete
  <2>1. Complete(details, rules, listed, InPolicy) /\ detFile.list = details
    BY DEF FullRefresh, Saved, Surveyed
  <2> QED
    BY <2>1
<1>2. GetIInv /\ Surveyed /\ Kept /\ [Next]_vars
        => GetIInv' /\ Surveyed' /\ Kept'
  BY GetIInvNext, SurveyedNext, KeptNext
<1>3. Init => GetIInv /\ Surveyed /\ Kept
  BY GetIInvInit, SurveyedInit, KeptInit
<1>4. Kept => Saved
  BY DEF Kept
<1> QED
  BY <1>1, <1>2, <1>3, <1>4, PTL DEF Spec
=============================================================================
