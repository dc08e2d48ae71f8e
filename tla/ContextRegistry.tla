---------------------------- MODULE ContextRegistry ----------------------------
(***************************************************************************)
(* The registry of contexts and trusted sources (contexts.yaml) and the     *)
(* directories that "config import" fills, under commands that are          *)
(* processes of their own: import, use, trust, untrust (cmd/context.go,     *)
(* config.go, import.go, trust.go).  Nothing locks the file.  A command      *)
(* loads it, changes what it has in memory, truncates it and writes it; it  *)
(* may be killed, or fail, between any two of these steps.                  *)
(*                                                                         *)
(* A registry that is absent, empty or without entries reads the same for   *)
(* every command, so there is one value, Fresh, for all three.  The paths   *)
(* that import registers are the names.  The three lists of trusted         *)
(* domains, keys and identities are one set of trustees with a method each. *)
(* Files that an earlier pack had and a later one of the same context has   *)
(* not stay in the directory; they are not among the files of the model.    *)
(***************************************************************************)
EXTENDS Integers, FiniteSets

CONSTANTS
  Process,
  Context,       \* names of contexts
  NoContext,     \* current-context is empty
  Pack,          \* versions of a site pack
  NumFiles,      \* files of a pack, values.yaml last
  Trustee,       \* what can be trusted: [method, name]
  Source         \* where packs come from: SourceType

NoPack == "absent"     \* a file that does not exist
Torn == "torn"         \* a file cut off by a crash

Method == {"sigstore", "ssh", "domain"}

\* kind "local": a path, or --insecure-skip-source-verify; "remote": a URL whose
\* evidence is its host and the signatures that could be fetched beside it.
IsSource(s) ==
  /\ s.kind \in {"local", "remote"}
  /\ \A e \in s.evidence : e.method \in Method

ASSUME RegistryAssumption ==
  /\ NoContext \notin Context
  /\ NumFiles \in Nat \ {0}
  /\ NoPack \notin Pack /\ Torn \notin Pack
  /\ \A t \in Trustee : t.method \in Method
  /\ \A s \in Source : IsSource(s)

VARIABLES
  serial,        \* commands never overlap (the user runs one at a time)
  registry,      \* what contexts.yaml reads as
  files,         \* files[c][f]: the pack that file f of context c is from
  at,            \* at[p]: where p's command is
  cmd,           \* cmd[p]: the command
  source,        \* source[p]: where an import takes its pack from
  held,          \* held[p]: the registry in p's memory
  first,         \* first[p]: isFirst of an import
  wrote          \* wrote[p]: how many files an import has written

vars == <<serial, registry, files, at, cmd, source, held, first, wrote>>

File == 1..NumFiles

RegistryType == [contexts : SUBSET Context,
                 current : Context \cup {NoContext},
                 trusted : SUBSET Trustee]

Fresh == [contexts |-> {}, current |-> NoContext, trusted |-> {}]

NoCommand == [op |-> "none"]

Command ==
       [op : {"import"}, context : Context, pack : Pack]
  \cup [op : {"use"}, context : Context]
  \cup [op : {"trust", "distrust"}, trustee : Trustee]

Place == {"idle", "verify", "prompt", "files", "first", "load", "save", "write"}

Local == [kind |-> "local", evidence |-> {}]

Init ==
  /\ serial \in BOOLEAN
  /\ registry = Fresh
  /\ files = [c \in Context |-> [f \in File |-> NoPack]]
  /\ at = [p \in Process |-> "idle"]
  /\ cmd = [p \in Process |-> NoCommand]
  /\ source = [p \in Process |-> Local]
  /\ held = [p \in Process |-> Fresh]
  /\ first = [p \in Process |-> FALSE]
  /\ wrote = [p \in Process |-> 0]

-------------------------------------------------------------------------------
(* Source verification. *)

\* A verifier joins the chain when something is trusted for it; a signature
\* verifier without a signature passes on; the first one that has an opinion
\* decides.  The host is always there.
Configured(T, m) == \E t \in T : t.method = m
Signed(s, m) == \E e \in s.evidence : e.method = m
Vouched(T, s, m) == \E e \in s.evidence : e.method = m /\ e \in T
Asked(T, s) == {m \in Method : Configured(T, m) /\ Signed(s, m)}

\* The order in which the verifiers are tried.
Rank == [sigstore |-> 1, ssh |-> 2, domain |-> 3]

\* Fault: a failed verification passes on to the next verifier.
VerifiesAny(T, s) == \E m \in Asked(T, s) : Vouched(T, s, m)

Verifies(T, s) ==
  \E m \in Asked(T, s) :
    /\ \A n \in Asked(T, s) : Rank[m] <= Rank[n]
    /\ Vouched(T, s, m)

-------------------------------------------------------------------------------
(* A command. *)

Go(p, place) == at' = [at EXCEPT ![p] = place]

\* The process ends and takes its memory with it.
Exit(p) ==
  /\ at' = [at EXCEPT ![p] = "idle"]
  /\ cmd' = [cmd EXCEPT ![p] = NoCommand]
  /\ source' = [source EXCEPT ![p] = Local]
  /\ held' = [held EXCEPT ![p] = Fresh]
  /\ first' = [first EXCEPT ![p] = FALSE]
  /\ wrote' = [wrote EXCEPT ![p] = 0]

\* initConfig resolves the current context, if any; a command gets no further
\* when the list has contexts and not that one.  That it may not start for other
\* reasons (a config.yaml cut off, say) is a Start that does not happen.
Resolves(r) ==
  r.current = NoContext \/ r.contexts = {} \/ r.current \in r.contexts

Start(p) ==
  /\ at[p] = "idle"
  /\ serial => \A q \in Process : at[q] = "idle"
  /\ Resolves(registry)
  /\ \E c \in Command :
       /\ cmd' = [cmd EXCEPT ![p] = c]
       /\ \/ /\ c.op = "import"
             /\ \E s \in Source : source' = [source EXCEPT ![p] = s]
             /\ Go(p, "verify")
          \/ /\ c.op # "import"
             /\ Go(p, "load")
             /\ UNCHANGED source
  /\ UNCHANGED <<serial, registry, files, held, first, wrote>>

\* A remote manifest is verified against the registry as it is now, a local one
\* is not verified.
Verify(p) ==
  /\ at[p] = "verify"
  /\ \/ /\ source[p].kind = "remote" => Verifies(registry.trusted, source[p])
        /\ held' = [held EXCEPT ![p] = IF source[p].kind = "remote" THEN registry ELSE @]
        /\ Go(p, "prompt")
        /\ UNCHANGED <<cmd, source, first, wrote>>
     \/ /\ source[p].kind = "remote" /\ ~Verifies(registry.trusted, source[p])
        /\ Exit(p)
  /\ UNCHANGED <<serial, registry, files>>

\* The user has answered the prompts for values; source and registry are of no
\* further use.
Prompted(p) ==
  /\ at[p] = "prompt"
  /\ held' = [held EXCEPT ![p] = Fresh]
  /\ source' = [source EXCEPT ![p] = Local]
  /\ Go(p, "files")
  /\ UNCHANGED <<serial, registry, files, cmd, first, wrote>>

\* Fault: values.yaml, the last file, is kept when there is one.
ContentKept(p, f) ==
  LET old == files[cmd[p].context][f] IN
  IF f = NumFiles /\ old # NoPack THEN old ELSE cmd[p].pack

\* What goes into file f, whatever was there.
Content(p, f) == cmd[p].pack

\* Fault: an off-by-one at the end of the list.
WriteFileBeyond(p) ==
  /\ at[p] = "files"
  /\ LET c == cmd[p].context  f == wrote[p] + 1 IN
     /\ files' = IF f \in File THEN [files EXCEPT ![c][f] = cmd[p].pack] ELSE files
     /\ wrote' = [wrote EXCEPT ![p] = f]
     /\ Go(p, IF f > NumFiles THEN "first" ELSE "files")
  /\ UNCHANGED <<serial, registry, cmd, source, held, first>>

\* Templates, data files, then values.yaml.
WriteFile(p) ==
  /\ at[p] = "files"
  /\ LET c == cmd[p].context  f == wrote[p] + 1 IN
     /\ files' = [files EXCEPT ![c][f] = Content(p, f)]
     /\ wrote' = [wrote EXCEPT ![p] = f]
     /\ Go(p, IF f = NumFiles THEN "first" ELSE "files")
  /\ UNCHANGED <<serial, registry, cmd, source, held, first>>

\* runImport looks whether the context will be the first, before
\* registerContext loads the registry once more.
First(p) ==
  /\ at[p] = "first"
  /\ first' = [first EXCEPT ![p] = registry.contexts = {}]
  /\ Go(p, "load")
  /\ UNCHANGED <<serial, registry, files, cmd, source, held, wrote>>

\* What each command makes of the registry it has loaded, as the set of what to
\* save: one registry, or none when the command fails.
Registered(r, c, setCurrent) ==
  {[r EXCEPT !.contexts = @ \cup {c},
             !.current = IF setCurrent \/ r.current = NoContext THEN c ELSE @]}

\* Fault: the name is not looked up.
UsedUnchecked(r, c) == {[r EXCEPT !.current = c]}

Used(r, c) == {[r EXCEPT !.current = d] : d \in {c} \cap r.contexts}

\* Fault: a new registry is made even when there is one.
TrustedAnew(r, t) == {[Fresh EXCEPT !.trusted = {t}]}

Trusted(r, t) == {[r EXCEPT !.trusted = @ \cup {u}] : u \in {t} \ r.trusted}
Distrusted(r, t) == {[r EXCEPT !.trusted = @ \ {u}] : u \in {t} \cap r.trusted}

Changed(p, r) ==
  CASE cmd[p].op = "import" -> Registered(r, cmd[p].context, first[p])
    [] cmd[p].op = "use" -> Used(r, cmd[p].context)
    [] cmd[p].op = "trust" -> Trusted(r, cmd[p].trustee)
    [] cmd[p].op = "distrust" -> Distrusted(r, cmd[p].trustee)

Load(p) ==
  /\ at[p] = "load"
  /\ \/ /\ \E r \in Changed(p, registry) : held' = [held EXCEPT ![p] = r]
        /\ Go(p, "save")
        /\ UNCHANGED <<cmd, source, first, wrote>>
     \/ /\ Changed(p, registry) = {}
        /\ Exit(p)
  /\ UNCHANGED <<serial, registry, files>>

\* os.WriteFile truncates the file ...
Truncate(p) ==
  /\ at[p] = "save"
  /\ registry' = Fresh
  /\ Go(p, "write")
  /\ UNCHANGED <<serial, files, cmd, source, held, first, wrote>>

\* ... and writes it.
Write(p) ==
  /\ at[p] = "write"
  /\ registry' = held[p]
  /\ Exit(p)
  /\ UNCHANGED <<serial, files>>

\* Fault: a process that dies takes the half-written context with it.
DieCleaning(p) ==
  /\ at[p] # "idle"
  /\ Exit(p)
  /\ files' = IF at[p] = "files"
                THEN [files EXCEPT ![cmd[p].context] = [f \in File |-> NoPack]]
                ELSE files
  /\ UNCHANGED <<serial, registry>>

\* The process is killed, a template does not render or a write fails.  A file
\* that was being written is cut off.
Die(p) ==
  /\ at[p] # "idle"
  /\ Exit(p)
  /\ \/ UNCHANGED files
     \/ /\ at[p] = "files"
        /\ files' = [files EXCEPT ![cmd[p].context][wrote[p] + 1] = Torn]
  /\ UNCHANGED <<serial, registry>>

Next ==
  \E p \in Process :
    \/ Start(p) \/ Verify(p) \/ Prompted(p) \/ WriteFile(p) \/ First(p)
    \/ Load(p) \/ Truncate(p) \/ Write(p) \/ Die(p)

Spec == Init /\ [][Next]_vars

-------------------------------------------------------------------------------
(* Properties. *)

\* Shape of the state.
TypeOK ==
  /\ serial \in BOOLEAN
  /\ registry \in RegistryType
  /\ files \in [Context -> [File -> Pack \cup {NoPack, Torn}]]
  /\ at \in [Process -> Place]
  /\ cmd \in [Process -> Command \cup {NoCommand}]
  /\ source \in [Process -> Source \cup {Local}]
  /\ held \in [Process -> RegistryType]
  /\ first \in [Process -> BOOLEAN]
  /\ wrote \in [Process -> 0..NumFiles]

\* No sequence or overlap of commands and crashes leaves a registry whose
\* current context is not in its list, which would end every later command,
\* import included, in initConfig (root.go:242-247).
CurrentExists == registry.current \in registry.contexts \cup {NoContext}

\* A registered context has all its files, whatever was lost or overtaken: the
\* registry is told last (import.go:151-196).  After a crash some of them may be
\* cut off or of another version, but none is missing.
RegisteredHasFiles ==
  \A c \in registry.contexts : \A f \in File : files[c][f] # NoPack

\* When commands do not overlap, an import leaves every file its manifest names as
\* the manifest has it, whatever an earlier or a broken off import of the context
\* had left there (import.go:151-188).
ImportIsWhole ==
  \A p \in Process :
    serial /\ at[p] # "idle" /\ cmd[p].op = "import" /\ wrote[p] = NumFiles =>
      \A f \in File : files[cmd[p].context][f] = cmd[p].pack

\* "hard verification failures are returned immediately" (trust.go:252-253): a
\* remote pack goes on to be written only when some method vouches for it and no
\* method of higher priority, for which something is trusted and a signature is
\* there, does not.
NoFallthrough ==
  \A p \in Process :
    at[p] = "prompt" /\ source[p].kind = "remote" =>
      \E m \in Method :
        /\ Vouched(held[p].trusted, source[p], m)
        /\ \A n \in Method :
             Rank[n] < Rank[m] =>
               ~Configured(held[p].trusted, n) \/ ~Signed(source[p], n)

\* What the user sees once a command has truncated the file is what it is about
\* to write, as far as one command at a time is concerned.
Seen ==
  IF \E p \in Process : at[p] = "write"
    THEN held[CHOOSE p \in Process : at[p] = "write"]
    ELSE registry

Atomic == INSTANCE AtomicRegistry WITH registry <- Seen

\* One at a time, commands change the registry as AtomicRegistry says, although
\* each loads it twice or three times and saves it in two steps: nothing that
\* another command registered, chose or trusted is lost (context.go:95-124).
SerialIsAtomic == Atomic!Init /\ [][serial => Atomic!Next]_Seen

-------------------------------------------------------------------------------
(* The inductive invariant (proved in ContextRegistryProofs). *)

Complete(c) == \A f \in File : files[c][f] # NoPack

\* A registry, on disk or in memory, names a current context of its own and only
\* contexts whose files are there.
Sound(r) ==
  /\ r.current \in r.contexts \cup {NoContext}
  /\ \A c \in r.contexts : Complete(c)

\* An import has written the files it has counted.
Progress(p) ==
  /\ at[p] = "idle" <=> cmd[p] = NoCommand
  /\ at[p] \in {"verify", "prompt", "files", "first"} => cmd[p].op = "import"
  /\ at[p] \in {"idle", "verify", "prompt"} => wrote[p] = 0
  /\ at[p] = "files" =>
       /\ wrote[p] < NumFiles
       /\ \A f \in 1..wrote[p] : files[cmd[p].context][f] # NoPack
  /\ at[p] \in {"first", "load"} /\ cmd[p].op = "import" =>
       Complete(cmd[p].context)

RegistryIInv ==
  /\ TypeOK
  /\ Sound(registry)
  /\ \A p \in Process : Sound(held[p]) /\ Progress(p)

-------------------------------------------------------------------------------
(* What help and README say and the code does not do. *)

\* "The context is registered and set as current" (import.go:35-36,
\* README.md:379-380): when an import has saved the registry, its context is the
\* current one.
ImportSetsCurrent ==
  \A p \in Process :
    at[p] = "write" /\ cmd[p].op = "import" => held[p].current = cmd[p].context
===============================================================================
