--------------------------------- MODULE Get ---------------------------------
(***************************************************************************)
(* "authzer get" and the two cache files (cmd/get.go).  A get lists the    *)
(* memberships through its backend, writes memberships-cache.yaml, then    *)
(* surveys the pages of the policy's resources and of the memberships no   *)
(* rule declares, or reads details-cache.yaml instead, and prints how the  *)
(* memberships comply with the policy.  An apply begins in the same way:   *)
(* it lists and writes the memberships (the rest is Reconcile and          *)
(* ApplyRun).  status answers from the two files alone.                    *)
(*                                                                         *)
(* One user runs one command after the other.  A command may be            *)
(* interrupted (SIGINT, which the code handles) or die (SIGKILL, power) at *)
(* any step; files are written in place.                                   *)
(***************************************************************************)
EXTENDS Survey

CONSTANTS
  Role,          \* roles a membership may carry
  PolicyRules,   \* what Policy.Resolve may have returned
  Listings,      \* tables of memberships the portal may show
  Commands,      \* commands the user may give
  MaxCommands    \* bound: commands in a behaviour

\* A rule names its resource by ID or by display name, exactly or in another
\* letter case.
RuleType == [res : Res, by : {"id", "name"}, exact : BOOLEAN, link : BOOLEAN]

\* id and link: whether the portal's table tells them.  The name it always does.
MembershipType == [res : Res, id : BOOLEAN, link : BOOLEAN, role : Role]

\* A RESOURCE argument: the ID, the display name or the address of a resource.
ArgType == [res : Res, by : {"id", "name", "url"}]

CommandType == [kind : {"get", "apply"}, backend : {"cdp", "api"},
                refresh : BOOLEAN, args : Seq(ArgType)]

ASSUME GetAssumption ==
  /\ PolicyRules \subseteq Seq(RuleType)
  /\ Listings \subseteq Seq(MembershipType)
  /\ Commands \subseteq CommandType /\ Commands # {}
  /\ MaxCommands \in Nat
  /\ \A r \in PolicyRules : Len(r) <= MaxJobs
  /\ \A l \in Listings : Len(l) <= MaxJobs
  /\ \A c \in Commands : Len(c.args) <= MaxJobs

\* A cache file: never written, cut off by its own rewriting, or a list.
Absent == [state |-> "absent", list |-> <<>>]
Torn == [state |-> "torn", list |-> <<>>]
Whole(l) == [state |-> "whole", list |-> l]

VARIABLES
  rules,         \* the policy's rules for the group
  given,         \* how many commands the user has given
  cmd,           \* the last one
  at,            \* how far it has got
  listExpired,   \* the timeout of listMemberships has passed
  listed,        \* its memberships
  deep,          \* it has surveyed rather than read the details cache
  details,       \* its details
  lost,          \* the files it could not write
  printed,       \* the compliance summary: was one printed, which rules miss
  memFile,       \* memberships-cache.yaml
  detFile        \* details-cache.yaml

command == <<given, cmd, listExpired, listed, deep, details, lost, printed>>
files == <<memFile, detFile>>
vars == <<surveyVars, rules, at, command, files>>

At == {"idle", "login", "listing", "saveList", "writeList", "plan", "managed",
       "undeclared", "saveDetails", "writeDetails", "print", "leave"}

NoSummary == [shown |-> FALSE, missing |-> {}]

Init ==
  /\ PoolInit
  /\ cancelled = FALSE
  /\ rules \in PolicyRules
  /\ given = 0
  /\ cmd = CHOOSE c \in Commands : TRUE
  /\ at = "idle"
  /\ listExpired = FALSE
  /\ listed = <<>>
  /\ deep = FALSE
  /\ details = <<>>
  /\ lost = {}
  /\ printed = NoSummary
  /\ memFile = Absent
  /\ detFile = Absent

\* The next command begins in a process of its own.  The API backend opens a
\* tab on the portal first; both then ask for the memberships.
Start(c) ==
  /\ at = "idle"
  /\ given < MaxCommands
  /\ given' = given + 1
  /\ cmd' = c
  /\ at' = IF c.backend = "api" THEN "login" ELSE "listing"
  /\ lost' = {}
  /\ printed' = NoSummary
  /\ UNCHANGED <<surveyVars, rules, listExpired, listed, deep, details, files>>

\* The process ends, and its memory with it.
Forget ==
  /\ at' = "idle"
  /\ cancelled' = FALSE
  /\ listExpired' = FALSE
  /\ listed' = <<>>
  /\ deep' = FALSE
  /\ details' = <<>>
  /\ UNCHANGED <<rules, given, cmd, files>>

Exit == Forget /\ UNCHANGED <<poolVars, lost, printed>>

-------------------------------------------------------------------------------
(* Provider.List. *)

\* Only the browser backend's listing has a timeout.
ListAlive == ~cancelled /\ ~listExpired

\* ensureTab: the login page has loaded; the wait for the redirects of single
\* sign-on is bounded, and the request is made whether they settled or not.
LoginReady ==
  /\ at = "login"
  /\ ListAlive
  /\ at' = "listing"
  /\ UNCHANGED <<surveyVars, rules, command, files>>

\* The ID a provider reports for a membership.
IdOf(m) == IF m.id THEN m.res ELSE Empty

\* The API backend drops an entry whose ID and role it has seen before.
SameEntry(m, n) == IdOf(m) = IdOf(n) /\ m.role = n.role
News(table) ==
  {i \in DOMAIN table : ~\E h \in 1..(i - 1) : SameEntry(table[h], table[i])}
Listed(table) ==
  IF cmd.backend = "api" THEN Subsequence(table, News(table)) ELSE table

ListReply ==
  /\ at = "listing"
  /\ ListAlive
  /\ \E table \in Listings : listed' = Listed(table)
  /\ at' = "saveList"
  /\ UNCHANGED <<surveyVars, rules, given, cmd, listExpired, deep, details,
                 lost, printed, files>>

\* No browser, no backend configuration, an error of the page or of the script;
\* in apply, which looks at it first, a policy that does not resolve.
ListRefused == at \in {"login", "listing"} /\ Exit

ListExpire ==
  /\ at = "listing"
  /\ cmd.backend = "cdp"
  /\ HasTimeout
  /\ ~listExpired
  /\ listExpired' = TRUE
  /\ UNCHANGED <<surveyVars, rules, at, given, cmd, listed, deep, details,
                 lost, printed, files>>

ListGiveUp == at \in {"login", "listing"} /\ ~ListAlive /\ Exit

-------------------------------------------------------------------------------
(* The files: os.WriteFile truncates, then writes.  A failure before the      *)
(* first leaves the old file, one between the two a torn one; the commands    *)
(* warn (or, in apply, do not even that) and go on.                           *)

AfterList == IF cmd.kind = "get" THEN "plan" ELSE "leave"

\* What apply does from here on does not touch the files.
Leave == at = "leave" /\ Exit

TruncateList ==
  /\ at = "saveList"
  /\ memFile' = Torn
  /\ at' = "writeList"
  /\ UNCHANGED <<surveyVars, rules, command, detFile>>

WriteList ==
  /\ at = "writeList"
  /\ memFile' = Whole(listed)
  /\ at' = AfterList
  /\ UNCHANGED <<surveyVars, rules, command, detFile>>

LoseList ==
  /\ at \in {"saveList", "writeList"}
  /\ lost' = lost \cup {"list"}
  /\ at' = AfterList
  /\ UNCHANGED <<surveyVars, rules, given, cmd, listExpired, listed, deep,
                 details, printed, files>>

TruncateDetails ==
  /\ at = "saveDetails"
  /\ detFile' = Torn
  /\ at' = "writeDetails"
  /\ UNCHANGED <<surveyVars, rules, command, memFile>>

WriteDetails ==
  /\ at = "writeDetails"
  /\ detFile' = Whole(details)
  /\ at' = "print"
  /\ UNCHANGED <<surveyVars, rules, command, memFile>>

LoseDetails ==
  /\ at \in {"saveDetails", "writeDetails"}
  /\ lost' = lost \cup {"details"}
  /\ at' = "print"
  /\ UNCHANGED <<surveyVars, rules, given, cmd, listExpired, listed, deep,
                 details, printed, files>>

-------------------------------------------------------------------------------
(* The details: from the cache, or from the pages. *)

\* The resources whose name a list of details knows (buildNameLookup).
Named(ds) == {ds[i].link : i \in {k \in DOMAIN ds : ds[k].seen}}

\* They give the ID of rule r a name; the lookup is by the very letters.
NamedFor(r, ds) == r.by = "id" /\ r.exact /\ r.res \in Named(ds)

\* The API backend never surveys; an unreadable file counts as an empty one.
NeedDeep == cmd.backend # "api" /\ (cmd.refresh \/ detFile.state = "absent")

ReadCache ==
  /\ at = "plan"
  /\ ~NeedDeep
  /\ details' = detFile.list
  /\ at' = "print"
  /\ UNCHANGED <<surveyVars, rules, given, cmd, listExpired, listed, deep,
                 lost, printed, files>>

LinkOf(r) == IF r.link THEN r.res ELSE Empty

\* The rules an argument means: those whose own key it is, or else those whose
\* ID it names in the words of the cache.
ByKey(a) == {i \in DOMAIN rules : rules[i].res = a.res /\ rules[i].by = a.by}
ByCachedName(a) ==
  {i \in DOMAIN rules : /\ rules[i].res = a.res
                        /\ a.by = "name"
                        /\ NamedFor(rules[i], detFile.list)}
Meant(a) == IF ByKey(a) # {} THEN ByKey(a) ELSE ByCachedName(a)

\* filterRules: the pages to visit for the arguments; an address is taken as
\* it is, an argument that means no rule refuses the command.
Known(a) == a.by = "url" \/ Meant(a) # {}
LinkFor(a) ==
  IF a.by = "url"
    THEN a.res
    ELSE LinkOf(rules[CHOOSE i \in Meant(a) : \A k \in Meant(a) : k <= i])

Wanted ==
  IF cmd.args = <<>>
    THEN [i \in DOMAIN rules |-> LinkOf(rules[i])]
    ELSE [k \in DOMAIN cmd.args |-> LinkFor(cmd.args[k])]

SurveyManaged ==
  /\ at = "plan"
  /\ NeedDeep
  /\ \A k \in DOMAIN cmd.args : Known(cmd.args[k])
  /\ Launch(Wanted)
  /\ deep' = TRUE
  /\ at' = "managed"
  /\ UNCHANGED <<cancelled, rules, given, cmd, listExpired, listed, details,
                 lost, printed, files>>

\* No group, a policy that cannot be read or resolved, an unknown argument.
PolicyFails == at = "plan" /\ NeedDeep /\ Exit

Judged(es, m) ==
  [i \in DOMAIN es |-> [link |-> es[i].link, seen |-> es[i].seen,
                        managed |-> m]]

\* The IDs that the first survey has seen; a page that failed has the empty one.
PageId(e) == IF e.seen THEN e.link ELSE Empty
SeenIds(es) == {PageId(es[i]) : i \in DOMAIN es}

\* The addresses of the memberships at the indices in I.
Pages(I) == [j \in 1..Cardinality(I) |-> Subsequence(listed, I)[j].res]

\* Fault: every membership with an address is taken for undeclared.
AllLinked(es) == Pages({k \in DOMAIN listed : listed[k].link})

\* The pages of the memberships that no surveyed rule accounts for.
Undeclared(es) ==
  Pages({k \in DOMAIN listed : /\ IdOf(listed[k]) \notin SeenIds(es)
                               /\ listed[k].link})

CollectManaged ==
  /\ at = "managed"
  /\ Collectable
  /\ details' = Judged(Processed, TRUE)
  /\ \/ /\ Undeclared(Processed) # <<>>
        /\ Launch(Undeclared(Processed))
        /\ at' = "undeclared"
        /\ UNCHANGED cancelled
     \/ /\ Undeclared(Processed) = <<>>
        /\ Collect
        /\ at' = "saveDetails"
        /\ UNCHANGED cancelled
  /\ UNCHANGED <<rules, given, cmd, listExpired, listed, deep, lost, printed,
                 files>>

CollectUndeclared ==
  /\ at = "undeclared"
  /\ Collect
  /\ details' = details \o Judged(Processed, FALSE)
  /\ at' = "saveDetails"
  /\ UNCHANGED <<cancelled, rules, given, cmd, listExpired, listed, deep, lost,
                 printed, files>>

\* One of the two surveys is under way.
Surveying ==
  /\ at \in {"managed", "undeclared"}
  /\ UNCHANGED <<rules, at, command, files>>

-------------------------------------------------------------------------------
(* The summary of a get, and the answer of a later status. *)

\* The summary compares names and IDs letter by letter.
Missing(ms, ds) ==
  LET names == {ms[k].res : k \in DOMAIN ms}
      ids == {ms[k].res : k \in {n \in DOMAIN ms : ms[n].id}}
      NameOf(r) == NamedFor(r, ds) \/ (r.by = "name" /\ r.exact)
  IN  {i \in DOMAIN rules :
         LET r == rules[i]
         IN  /\ ~(NameOf(r) /\ r.res \in names)
             /\ ~(r.by = "id" /\ r.exact /\ r.res \in ids)}

\* Fault: the summary does not look at the details.
SummariseUnnamed ==
  /\ at = "print"
  /\ \/ printed' = NoSummary
     \/ /\ cmd.args = <<>>
        /\ printed' = [shown |-> TRUE, missing |-> Missing(listed, <<>>)]
  /\ Forget
  /\ UNCHANGED <<poolVars, lost>>

\* With arguments there is no summary, nor without a policy that resolves.
Summarise ==
  /\ at = "print"
  /\ \/ printed' = NoSummary
     \/ /\ cmd.args = <<>>
        /\ printed' = [shown |-> TRUE, missing |-> Missing(listed, details)]
  /\ Forget
  /\ UNCHANGED <<poolVars, lost>>

\* CacheOnlyProvider.Check: the first membership that has the name or the ID, in
\* any letter case.
Check(r, ms, ds) ==
  \E k \in DOMAIN ms :
     \/ ms[k].res = r.res /\ (NamedFor(r, ds) \/ r.by = "name")
     \/ IdOf(ms[k]) = r.res /\ r.by = "id"

\* What status would answer from the files as they are; one it cannot read
\* counts as empty.
StatusMissing ==
  {i \in DOMAIN rules : ~Check(rules[i], memFile.list, detFile.list)}

-------------------------------------------------------------------------------
(* SIGINT or SIGTERM; SIGKILL. *)

Cancel ==
  /\ at # "idle"
  /\ ~cancelled
  /\ cancelled' = TRUE
  /\ UNCHANGED <<poolVars, rules, at, command, files>>

Die ==
  /\ at # "idle"
  /\ Forget
  /\ PoolOff
  /\ UNCHANGED <<lost, printed>>

-------------------------------------------------------------------------------
\* What the process does whatever the portal does.
Proceed ==
  \/ ListGiveUp
  \/ TruncateList \/ WriteList \/ LoseList \/ Leave
  \/ ReadCache \/ SurveyManaged \/ PolicyFails
  \/ CollectManaged \/ CollectUndeclared
  \/ TruncateDetails \/ WriteDetails \/ LoseDetails
  \/ Summarise

Terminated == at = "idle" /\ given = MaxCommands /\ UNCHANGED vars

Next ==
  \/ \E c \in Commands : Start(c)
  \/ LoginReady \/ ListReply \/ ListRefused \/ ListExpire
  \/ Proceed
  \/ Surveying /\ Survey
  \/ Cancel
  \/ Die
  \/ Terminated

Spec == Init /\ [][Next]_vars

\* Goroutines and timers run; waits on a dead context return.  Nothing is
\* assumed of pages, replies, signals or the user.
Fairness ==
  /\ WF_vars(Proceed)
  /\ WF_vars(ListExpire)
  /\ WF_vars(Surveying /\ Loop)
  /\ \A i \in Job : /\ WF_vars(Surveying /\ Prompt(i))
                    /\ WF_vars(Surveying /\ Expire(i))

FairSpec == Spec /\ Fairness

-------------------------------------------------------------------------------
(* Properties. *)

Detail == [link : Res, seen : BOOLEAN, managed : BOOLEAN]
Cache(T) == {f \in [state : {"absent", "torn", "whole"}, list : Seq(T)] :
               f.state # "whole" => f.list = <<>>}

\* Shape of the state; the counters of the survey never go negative.
GetTypeOK ==
  /\ SurveyTypeOK
  /\ rules \in PolicyRules
  /\ given \in 0..MaxCommands
  /\ cmd \in Commands
  /\ at \in At
  /\ listExpired \in BOOLEAN
  /\ listed \in Seq(MembershipType)
  /\ deep \in BOOLEAN
  /\ details \in Seq(Detail)
  /\ lost \subseteq {"list", "details"}
  /\ printed \in [shown : BOOLEAN, missing : SUBSET (DOMAIN rules)]
  /\ memFile \in Cache(MembershipType)
  /\ detFile \in Cache(Detail)

\* The survey keeps to its bound and cleans up (get.go:234-272, cdp.go:884-885):
\* never more than "concurrency" of its tabs are open, in either of the two
\* surveys of a get, and none is left when the command goes on or ends,
\* whatever failed, expired or was interrupted on the way.
TabsComeAndGo ==
  /\ Cardinality(OpenTabs) <= Concurrency
  /\ at \notin {"managed", "undeclared"} => OpenTabs = {}

\* The addresses in the details, managed or not, and those the rules or the
\* memberships give, but for the ones in X, each in the order of its list.
LinksOf(ds, m) ==
  LET mine == {i \in DOMAIN ds : ds[i].managed = m}
  IN  [j \in 1..Cardinality(mine) |-> Subsequence(ds, mine)[j].link]

Links(rs, X) ==
  LET linked == {i \in DOMAIN rs : rs[i].link /\ rs[i].res \notin X}
  IN  [j \in 1..Cardinality(linked) |-> Subsequence(rs, linked)[j].res]

InPolicy == {rules[i].res : i \in {k \in DOMAIN rules : rules[k].link}}

FullRefresh == deep /\ at = "print" /\ cmd.args = <<>> /\ ~cancelled /\ lost = {}

\* A refresh without arguments that nobody interrupts leaves a complete details
\* cache (get.go:135-193), whatever crash, interruption or narrowed refresh the
\* files come from: every rule with a page has its entry, as managed, even if
\* the page failed.  If the pages gave their IDs and the table did, the
\* memberships outside the policy have theirs too, as not managed, and no
\* resource has two entries on account of being both.
RefreshIsComplete ==
  FullRefresh =>
    /\ LinksOf(detFile.list, TRUE) = Links(rules, {})
    /\ (/\ \A i \in DOMAIN detFile.list : detFile.list[i].seen
        /\ \A k \in DOMAIN listed : listed[k].id)
       => LinksOf(detFile.list, FALSE) = Links(listed, InPolicy)

\* status, which sees the two files only, tells the user of the same missing
\* rules as the summary of the get before it, if that get could write what it
\* had and no other command came between.  The two are copies of one join
\* (get.go:515-524, provider_cdp.go:193-207) and part only where a rule is
\* written in another letter case: status may find it held, the summary does
\* not.
StatusAgrees ==
  at = "idle" /\ printed.shown /\ lost = {} =>
    /\ StatusMissing \subseteq printed.missing
    /\ \A i \in printed.missing \ StatusMissing : ~rules[i].exact

\* A command comes to its end (get.go:242-272, cdp.go:800-804, 856-860): with
\* the browser backend and a timeout even if no page ever shows, with any
\* backend once the user interrupts.
GetEnds ==
  /\ (/\ at # "idle" /\ cmd.backend = "cdp"
      /\ HasTimeout /\ Concurrency > 0) ~> at = "idle"
  /\ (at # "idle" /\ cancelled) ~> at = "idle"
=============================================================================
