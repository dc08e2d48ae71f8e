------------------------- MODULE ContextRegistryProofs -------------------------
(***************************************************************************)
(* Proofs about ContextRegistry for any number of processes, contexts,      *)
(* packs, files, trustees and sources, with commands that overlap and die   *)
(* anywhere.                                                               *)
(***************************************************************************)
EXTENDS ContextRegistry, TLAPS

\* A fresh registry is sound and of the right shape.
LEMMA FreshIsSound == Sound(Fresh) /\ Fresh \in RegistryType
BY DEF Sound, Fresh, RegistryType

\* An import is told from the other commands by its op, and none of them is no
\* command.
LEMMA CommandFields ==
  ASSUME NEW c \in Command
  PROVE  /\ c # NoCommand
         /\ c.op \in {"import", "use", "trust", "distrust"}
         /\ c.op = "import" => c.context \in Context /\ c.pack \in Pack
         /\ c.op = "use" => c.context \in Context
         /\ c.op \in {"trust", "distrust"} => c.trustee \in Trustee
<1>1. CASE c \in [op : {"import"}, context : Context, pack : Pack]
  BY <1>1 DEF NoCommand
<1>2. CASE c \in [op : {"use"}, context : Context]
  BY <1>2 DEF NoCommand
<1>3. CASE c \in [op : {"trust", "distrust"}, trustee : Trustee]
  BY <1>3 DEF NoCommand
<1> QED
  BY <1>1, <1>2, <1>3 DEF Command

\* The initial states satisfy the invariant.
LEMMA InitIsSound == Init => RegistryIInv
<1> SUFFICES ASSUME Init PROVE RegistryIInv
  OBVIOUS
<1>1. TypeOK
  BY FreshIsSound, RegistryAssumption DEF Init, TypeOK, Place
<1>2. Sound(registry)
  BY FreshIsSound DEF Init
<1>3. ASSUME NEW p \in Process PROVE Sound(held[p]) /\ Progress(p)
  BY <1>3, FreshIsSound DEF Init, Progress, NoCommand
<1> QED
  BY <1>1, <1>2, <1>3 DEF RegistryIInv

-------------------------------------------------------------------------------
(* What a step leaves as it was. *)

\* No step makes a file disappear.
FilesGrow ==
  \A c \in Context : \A f \in File :
    files[c][f] # NoPack => files'[c][f] # NoPack

\* Nothing of process q changes.
Untouched(q) == UNCHANGED <<at[q], cmd[q], held[q], wrote[q]>>

\* A registry stays sound while files only appear.
LEMMA SoundStays ==
  ASSUME NEW r \in RegistryType, Sound(r), FilesGrow
  PROVE  Sound(r)'
BY DEF Sound, Complete, FilesGrow, RegistryType

\* So do the clauses of a process that the step does not touch.
LEMMA OthersStay ==
  ASSUME RegistryIInv, FilesGrow, NEW q \in Process, Untouched(q)
  PROVE  Sound(held[q])' /\ Progress(q)'
<1>1. held[q] \in RegistryType /\ Sound(held[q]) /\ Progress(q)
  BY DEF RegistryIInv, TypeOK
<1>2. Sound(held[q])'
  BY <1>1, SoundStays DEF Untouched, Sound, Complete
<1>3. cmd[q].op = "import" /\ at[q] # "idle" => cmd[q].context \in Context
  BY <1>1, CommandFields DEF RegistryIInv, TypeOK, Progress
<1>4. at[q] = "files" => 1..wrote[q] \subseteq File
  BY <1>1, RegistryAssumption DEF RegistryIInv, TypeOK, Progress, File
<1>5. Progress(q)'
  BY <1>1, <1>3, <1>4 DEF Progress, Complete, Untouched, FilesGrow
<1> QED
  BY <1>2, <1>5

\* A step of one process keeps the invariant if it keeps the shape of the state
\* and what concerns the registry and that process.
LEMMA StepKeeps ==
  ASSUME RegistryIInv, FilesGrow, NEW p \in Process,
         TypeOK', Sound(registry)', Sound(held[p])', Progress(p)',
         \A q \in Process \ {p} : Untouched(q)
  PROVE  RegistryIInv'
<1>1. ASSUME NEW q \in Process PROVE (Sound(held[q]) /\ Progress(q))'
  <2>1. CASE q = p
    BY <2>1
  <2>2. CASE q # p
    BY <2>2, OthersStay
  <2> QED
    BY <2>1, <2>2
<1> QED
  BY <1>1 DEF RegistryIInv

\* The end of a process touches no other and leaves its own clauses empty.
LEMMA ExitKeeps ==
  ASSUME RegistryIInv, NEW p \in Process, Exit(p)
  PROVE  /\ at' \in [Process -> Place]
         /\ cmd' \in [Process -> Command \cup {NoCommand}]
         /\ source' \in [Process -> Source \cup {Local}]
         /\ held' \in [Process -> RegistryType]
         /\ first' \in [Process -> BOOLEAN]
         /\ wrote' \in [Process -> 0..NumFiles]
         /\ Sound(held[p])' /\ Progress(p)'
         /\ \A q \in Process \ {p} : Untouched(q)
<1> USE DEF RegistryIInv, TypeOK, Exit
<1>1. /\ at' \in [Process -> Place]
      /\ cmd' \in [Process -> Command \cup {NoCommand}]
      /\ source' \in [Process -> Source \cup {Local}]
      /\ first' \in [Process -> BOOLEAN]
      /\ wrote' \in [Process -> 0..NumFiles]
  BY RegistryAssumption DEF Place
<1>2. held' \in [Process -> RegistryType]
  BY FreshIsSound
<1>3. held'[p] = Fresh /\ at'[p] = "idle" /\ cmd'[p] = NoCommand
  OBVIOUS
<1>4. Sound(held[p])'
  BY <1>3, FreshIsSound DEF Sound, Fresh
<1>5. Progress(p)'
  BY <1>3 DEF Progress, NoCommand
<1>6. \A q \in Process \ {p} : Untouched(q)
  BY DEF Untouched
<1> QED
  BY <1>1, <1>2, <1>4, <1>5, <1>6

-------------------------------------------------------------------------------
(* Each action keeps the invariant. *)

LEMMA StartKeeps == ASSUME RegistryIInv, NEW p \in Process, Start(p)
                    PROVE  RegistryIInv'
<1> USE DEF RegistryIInv, TypeOK
<1>1. PICK c \in Command :
        /\ cmd' = [cmd EXCEPT ![p] = c]
        /\ \/ /\ c.op = "import"
              /\ \E s \in Source : source' = [source EXCEPT ![p] = s]
              /\ Go(p, "verify")
           \/ /\ c.op # "import"
              /\ Go(p, "load")
              /\ UNCHANGED source
  BY DEF Start
<1>2. UNCHANGED <<serial, registry, files, held, first, wrote>>
  BY DEF Start
<1>3. TypeOK'
  BY <1>1, <1>2 DEF Go, Place
<1>4. FilesGrow
  BY <1>2 DEF FilesGrow
<1>5. Sound(registry)' /\ Sound(held[p])'
  BY <1>2, <1>4, SoundStays
<1>6. Progress(p)'
  <2>1. at[p] = "idle" /\ wrote'[p] = 0
    BY <1>2 DEF Start, Progress
  <2>2. cmd'[p] = c /\ c # NoCommand
    BY <1>1, CommandFields
  <2>3. \/ c.op = "import" /\ at'[p] = "verify"
        \/ c.op # "import" /\ at'[p] = "load"
    BY <1>1 DEF Go
  <2> QED
    BY <2>1, <2>2, <2>3 DEF Progress
<1>7. \A q \in Process \ {p} : Untouched(q)
  BY <1>1, <1>2 DEF Untouched, Go
<1> QED
  BY <1>3, <1>4, <1>5, <1>6, <1>7, StepKeeps

LEMMA VerifyKeeps == ASSUME RegistryIInv, NEW p \in Process, Verify(p)
                     PROVE  RegistryIInv'
<1> USE DEF RegistryIInv, TypeOK
<1>1. UNCHANGED <<serial, registry, files>>
  BY DEF Verify
<1>2. FilesGrow
  BY <1>1 DEF FilesGrow
<1>3. Sound(registry)'
  BY <1>1, <1>2, SoundStays
<1>4. CASE Exit(p)
  <2>1. TypeOK'
    BY <1>1, <1>4, ExitKeeps
  <2> QED
    BY <1>2, <1>3, <1>4, <2>1, ExitKeeps, StepKeeps
<1>5. ASSUME NEW r \in {registry, held[p]},
             /\ held' = [held EXCEPT ![p] = r]
             /\ Go(p, "prompt")
             /\ UNCHANGED <<cmd, source, first, wrote>>
      PROVE  RegistryIInv'
  <2>1. TypeOK'
    BY <1>1, <1>5 DEF Go, Place
  <2>2. Sound(held[p])'
    BY <1>1, <1>2, <1>5, SoundStays
  <2>3. Progress(p)'
    BY <1>5 DEF Progress, Go, Verify
  <2>4. \A q \in Process \ {p} : Untouched(q)
    BY <1>5 DEF Untouched, Go
  <2> QED
    BY <1>2, <1>3, <2>1, <2>2, <2>3, <2>4, StepKeeps
<1>6. \/ Exit(p)
      \/ \E r \in {registry, held[p]} :
           /\ held' = [held EXCEPT ![p] = r]
           /\ Go(p, "prompt")
           /\ UNCHANGED <<cmd, source, first, wrote>>
  <2>1. CASE source[p].kind = "remote"
    BY <2>1 DEF Verify
  <2>2. CASE source[p].kind # "remote"
    BY <2>2 DEF Verify
  <2> QED
    BY <2>1, <2>2
<1> QED
  BY <1>4, <1>5, <1>6

LEMMA PromptedKeeps == ASSUME RegistryIInv, NEW p \in Process, Prompted(p)
                       PROVE  RegistryIInv'
<1> USE DEF RegistryIInv, TypeOK, Prompted
<1>1. FilesGrow
  BY DEF FilesGrow
<1>2. Sound(registry)'
  BY <1>1, SoundStays
<1>3. TypeOK'
  <2>1. held' \in [Process -> RegistryType]
    BY FreshIsSound
  <2> QED
    BY <2>1 DEF Go, Place
<1>4. Sound(held[p])'
  BY FreshIsSound DEF Sound, Fresh
<1>5. \A q \in Process \ {p} : Untouched(q)
  BY DEF Untouched, Go
<1>6. Progress(p)'
  <2>1. wrote'[p] = 0 /\ 0 < NumFiles /\ 1..0 = {}
    BY RegistryAssumption DEF Progress
  <2> QED
    BY <2>1 DEF Progress, Go
<1> QED
  BY <1>1, <1>2, <1>3, <1>4, <1>5, <1>6, StepKeeps

LEMMA FirstKeeps == ASSUME RegistryIInv, NEW p \in Process, First(p)
                    PROVE  RegistryIInv'
<1> USE DEF RegistryIInv, TypeOK, First
<1>1. FilesGrow
  BY DEF FilesGrow
<1>2. Sound(registry)' /\ Sound(held[p])'
  BY <1>1, SoundStays
<1>3. TypeOK'
  BY DEF Go, Place
<1>4. \A q \in Process \ {p} : Untouched(q)
  BY DEF Untouched, Go
<1>5. Progress(p)'
  BY DEF Progress, Go, Complete
<1> QED
  BY <1>1, <1>2, <1>3, <1>4, <1>5, StepKeeps

\* Some file is written, none is lost, and once all are the context is complete.
LEMMA WriteFileKeeps == ASSUME RegistryIInv, NEW p \in Process, WriteFile(p)
                        PROVE  RegistryIInv'
<1> USE DEF RegistryIInv, TypeOK
<1> DEFINE c == cmd[p].context
           f == wrote[p] + 1
<1>1. /\ at[p] = "files"
      /\ files' = [files EXCEPT ![c][f] = cmd[p].pack]
      /\ wrote' = [wrote EXCEPT ![p] = f]
      /\ Go(p, IF f = NumFiles THEN "first" ELSE "files")
      /\ UNCHANGED <<serial, registry, cmd, source, held, first>>
  BY DEF WriteFile, Content
<1>2. /\ cmd[p] \in Command /\ cmd[p].op = "import"
      /\ wrote[p] \in Nat /\ wrote[p] < NumFiles
      /\ \A g \in 1..wrote[p] : files[c][g] # NoPack
  BY <1>1, RegistryAssumption DEF Progress
<1>3. c \in Context /\ cmd[p].pack \in Pack /\ f \in File
  BY <1>2, CommandFields, RegistryAssumption DEF File
<1>4. /\ \A d \in Context : \A g \in File :
           d # c \/ g # f => files'[d][g] = files[d][g]
      /\ files'[c][f] = cmd[p].pack
  BY <1>1, <1>3
<1>5. FilesGrow
  BY <1>3, <1>4, RegistryAssumption DEF FilesGrow
<1>6. Sound(registry)' /\ Sound(held[p])'
  BY <1>1, <1>5, SoundStays
<1>7. TypeOK'
  <2>1. files' \in [Context -> [File -> Pack \cup {NoPack, Torn}]]
    BY <1>1, <1>3
  <2>2. wrote' \in [Process -> 0..NumFiles]
    BY <1>1, <1>3, RegistryAssumption DEF File
  <2>3. at' \in [Process -> Place]
    BY <1>1 DEF Go, Place
  <2> QED
    BY <1>1, <2>1, <2>2, <2>3
<1>8. \A q \in Process \ {p} : Untouched(q)
  BY <1>1 DEF Untouched, Go
<1>9. Progress(p)'
  <2>1. wrote'[p] = f /\ cmd'[p] = cmd[p]
    BY <1>1
  <2>2. \A g \in 1..f : files'[c][g] # NoPack
    <3> SUFFICES ASSUME NEW g \in 1..f PROVE files'[c][g] # NoPack
      OBVIOUS
    <3>1. CASE g = f
      BY <1>3, <1>4, <3>1, RegistryAssumption
    <3>2. CASE g # f
      <4>1. g \in 1..wrote[p] /\ g \in File
        BY <1>2, <1>3, <3>2, RegistryAssumption DEF File
      <4> QED
        BY <1>2, <1>3, <1>4, <3>2, <4>1
    <3> QED
      BY <3>1, <3>2
  <2>3. CASE f = NumFiles
    <3>1. at'[p] = "first"
      BY <1>1, <2>3 DEF Go
    <3>2. Complete(c)'
      BY <2>1, <2>2, <2>3 DEF Complete, File
    <3> QED
      BY <1>1, <1>2, <2>1, <3>1, <3>2 DEF Progress
  <2>4. CASE f # NumFiles
    <3>1. at'[p] = "files"
      BY <1>1, <2>4 DEF Go
    <3>2. f < NumFiles
      BY <1>2, <2>4, RegistryAssumption
    <3> QED
      BY <1>1, <1>2, <2>1, <2>2, <3>1, <3>2 DEF Progress
  <2> QED
    BY <2>3, <2>4
<1> QED
  BY <1>5, <1>6, <1>7, <1>8, <1>9, StepKeeps

\* What a command makes of a sound registry is sound.
LEMMA ChangedIsSound ==
  ASSUME RegistryIInv, NEW p \in Process, at[p] = "load",
         NEW r \in Changed(p, registry)
  PROVE  r \in RegistryType /\ Sound(r)
<1> USE DEF RegistryIInv, TypeOK
<1>1. /\ cmd[p] \in Command
      /\ cmd[p].op \in {"import", "use", "trust", "distrust"}
      /\ cmd[p].op = "import" => cmd[p].context \in Context
                                 /\ Complete(cmd[p].context)
      /\ cmd[p].op \in {"trust", "distrust"} => cmd[p].trustee \in Trustee
  BY CommandFields DEF Progress
<1>2. registry \in RegistryType /\ Sound(registry)
  OBVIOUS
<1>3. CASE cmd[p].op = "import"
  <2>1. r \in Registered(registry, cmd[p].context, first[p])
    BY <1>3 DEF Changed
  <2> DEFINE c == cmd[p].context
             current == IF first[p] \/ registry.current = NoContext
                          THEN c ELSE registry.current
  <2>2. r = [registry EXCEPT !.contexts = registry.contexts \cup {c},
                             !.current = current]
    BY <2>1 DEF Registered
  <2>3. /\ r.contexts = registry.contexts \cup {c}
        /\ r.current = current
        /\ r \in [contexts : SUBSET (Context \cup {c}),
                  current : Context \cup {NoContext, c},
                  trusted : SUBSET Trustee]
    BY <1>2, <2>2 DEF RegistryType
  <2>4. c \in Context /\ Complete(c)
    BY <1>1, <1>3
  <2>5. r \in RegistryType
    BY <2>3, <2>4 DEF RegistryType
  <2>6. Sound(r)
    BY <1>2, <2>3, <2>4 DEF Sound
  <2> QED
    BY <2>5, <2>6
<1>4. CASE cmd[p].op = "use"
  <2>1. r \in Used(registry, cmd[p].context)
    BY <1>4 DEF Changed
  <2> QED
    BY <1>2, <2>1 DEF Used, RegistryType, Sound
<1>5. CASE cmd[p].op = "trust"
  <2>1. r \in Trusted(registry, cmd[p].trustee)
    BY <1>5 DEF Changed
  <2> QED
    BY <1>1, <1>2, <1>5, <2>1 DEF Trusted, RegistryType, Sound
<1>6. CASE cmd[p].op = "distrust"
  <2>1. r \in Distrusted(registry, cmd[p].trustee)
    BY <1>6 DEF Changed
  <2> QED
    BY <1>2, <2>1 DEF Distrusted, RegistryType, Sound
<1> QED
  BY <1>1, <1>3, <1>4, <1>5, <1>6

LEMMA LoadKeeps == ASSUME RegistryIInv, NEW p \in Process, Load(p)
                   PROVE  RegistryIInv'
<1> USE DEF RegistryIInv, TypeOK
<1>1. at[p] = "load" /\ UNCHANGED <<serial, registry, files>>
  BY DEF Load
<1>2. FilesGrow
  BY <1>1 DEF FilesGrow
<1>3. Sound(registry)'
  BY <1>1, <1>2, SoundStays
<1>4. CASE Exit(p)
  <2>1. TypeOK'
    BY <1>1, <1>4, ExitKeeps
  <2> QED
    BY <1>2, <1>3, <1>4, <2>1, ExitKeeps, StepKeeps
<1>5. ASSUME NEW r \in Changed(p, registry), held' = [held EXCEPT ![p] = r],
             Go(p, "save"), UNCHANGED <<cmd, source, first, wrote>>
      PROVE  RegistryIInv'
  <2>1. r \in RegistryType /\ Sound(r)
    BY <1>1, ChangedIsSound
  <2>2. TypeOK'
    BY <1>1, <1>5, <2>1 DEF Go, Place
  <2>3. Sound(held[p])'
    BY <1>1, <1>2, <1>5, <2>1 DEF Sound, Complete
  <2>4. Progress(p)'
    BY <1>1, <1>5 DEF Progress, Go
  <2>5. \A q \in Process \ {p} : Untouched(q)
    BY <1>5 DEF Untouched, Go
  <2> QED
    BY <1>2, <1>3, <2>2, <2>3, <2>4, <2>5, StepKeeps
<1> QED
  BY <1>4, <1>5 DEF Load

LEMMA TruncateKeeps == ASSUME RegistryIInv, NEW p \in Process, Truncate(p)
                       PROVE  RegistryIInv'
<1> USE DEF RegistryIInv, TypeOK, Truncate
<1>1. FilesGrow
  BY DEF FilesGrow
<1>2. Sound(registry)'
  BY FreshIsSound DEF Sound, Fresh
<1>3. Sound(held[p])'
  BY <1>1, SoundStays
<1>4. TypeOK'
  BY FreshIsSound DEF Go, Place
<1>5. Progress(p)'
  BY DEF Progress, Go
<1>6. \A q \in Process \ {p} : Untouched(q)
  BY DEF Untouched, Go
<1> QED
  BY <1>1, <1>2, <1>3, <1>4, <1>5, <1>6, StepKeeps

LEMMA WriteKeeps == ASSUME RegistryIInv, NEW p \in Process, Write(p)
                    PROVE  RegistryIInv'
<1> USE DEF RegistryIInv, TypeOK, Write
<1>1. FilesGrow
  BY DEF FilesGrow
<1>2. Sound(registry)'
  BY <1>1, SoundStays DEF Sound, Complete
<1>3. TypeOK'
  BY ExitKeeps
<1> QED
  BY <1>1, <1>2, <1>3, ExitKeeps, StepKeeps

\* A process that dies may cut one file off; the file is still there.
LEMMA DieKeeps == ASSUME RegistryIInv, NEW p \in Process, Die(p)
                  PROVE  RegistryIInv'
<1> USE DEF RegistryIInv, TypeOK
<1>1. Exit(p) /\ UNCHANGED <<serial, registry>>
  BY DEF Die
<1>2. FilesGrow /\ files' \in [Context -> [File -> Pack \cup {NoPack, Torn}]]
  <2>1. CASE UNCHANGED files
    BY <2>1 DEF FilesGrow
  <2>2. CASE /\ at[p] = "files"
             /\ files' = [files EXCEPT ![cmd[p].context][wrote[p] + 1] = Torn]
    <3>1. Torn # NoPack
      BY DEF Torn, NoPack
    <3> QED
      BY <2>2, <3>1 DEF FilesGrow
  <2> QED
    BY <2>1, <2>2 DEF Die
<1>3. Sound(registry)'
  BY <1>1, <1>2, SoundStays
<1>4. TypeOK'
  BY <1>1, <1>2, ExitKeeps
<1> QED
  BY <1>1, <1>2, <1>3, <1>4, ExitKeeps, StepKeeps

\* Every step keeps the invariant.
LEMMA NextKeeps == RegistryIInv /\ [Next]_vars => RegistryIInv'
<1> SUFFICES ASSUME RegistryIInv, [Next]_vars PROVE RegistryIInv'
  OBVIOUS
<1>1. CASE UNCHANGED vars
  BY <1>1 DEF vars, RegistryIInv, TypeOK, Sound, Complete, Progress
<1>2. ASSUME NEW p \in Process,
             \/ Start(p) \/ Verify(p) \/ Prompted(p) \/ WriteFile(p) \/ First(p)
             \/ Load(p) \/ Truncate(p) \/ Write(p) \/ Die(p)
      PROVE  RegistryIInv'
  BY <1>2, StartKeeps, VerifyKeeps, PromptedKeeps, WriteFileKeeps, FirstKeeps,
     LoadKeeps, TruncateKeeps, WriteKeeps, DieKeeps
<1> QED
  BY <1>1, <1>2 DEF Next

-------------------------------------------------------------------------------
(* The theorems. *)

THEOREM RegistryInvariance == Spec => []RegistryIInv
BY InitIsSound, NextKeeps, PTL DEF Spec

\* The state keeps its shape.
THEOREM RegistryTypeCorrect == Spec => []TypeOK
<1>1. RegistryIInv => TypeOK
  BY DEF RegistryIInv
<1> QED
  BY <1>1, RegistryInvariance, PTL

\* However many commands overlap and die, the registry never names a current
\* context it does not list.
THEOREM NobodyIsLockedOut == Spec => []CurrentExists
<1>1. RegistryIInv => CurrentExists
  BY DEF RegistryIInv, Sound, CurrentExists
<1> QED
  BY <1>1, RegistryInvariance, PTL

\* However many commands overlap and die, a registered context misses no file.
THEOREM RegisteredIsThere == Spec => []RegisteredHasFiles
<1>1. RegistryIInv => RegisteredHasFiles
  BY DEF RegistryIInv, Sound, Complete, RegisteredHasFiles
<1> QED
  BY <1>1, RegistryInvariance, PTL

\* Some method vouches for the source, and none that comes before it objects.
InOrder(T, s) ==
  \E m \in Method :
    /\ Vouched(T, s, m)
    /\ \A n \in Method : Rank[n] < Rank[m] => ~Configured(T, n) \/ ~Signed(s, n)

\* The method that decides is the first one with an opinion.
LEMMA VerifiesInOrder ==
  ASSUME NEW T \in SUBSET Trustee, NEW s \in Source \cup {Local}, Verifies(T, s)
  PROVE  InOrder(T, s)
<1>1. PICK m \in Asked(T, s) :
        /\ \A n \in Asked(T, s) : Rank[m] <= Rank[n]
        /\ Vouched(T, s, m)
  BY DEF Verifies
<1>2. \A n \in Method : Rank[n] \in Int
  BY DEF Rank, Method
<1>3. ASSUME NEW n \in Method, Rank[n] < Rank[m]
      PROVE  ~Configured(T, n) \/ ~Signed(s, n)
  BY <1>1, <1>2, <1>3 DEF Asked
<1> QED
  BY <1>1, <1>3 DEF Asked, InOrder

\* A remote pack is written only if the highest method with an opinion vouches.
THEOREM NoMethodIsBypassed == Spec => []NoFallthrough
<1>1. Init => NoFallthrough
  BY DEF Init, NoFallthrough
<1>2. RegistryIInv /\ NoFallthrough /\ [Next]_vars => NoFallthrough'
  <2> SUFFICES ASSUME RegistryIInv, NoFallthrough, [Next]_vars,
                      NEW q \in Process, at'[q] = "prompt",
                      source'[q].kind = "remote"
               PROVE  InOrder(held'[q].trusted, source'[q])
    BY DEF NoFallthrough, InOrder
  <2>1. \/ at[q] = "prompt" /\ held'[q] = held[q] /\ source'[q] = source[q]
        \/ Verify(q) /\ held'[q] = registry /\ source'[q] = source[q]
    <3> USE DEF RegistryIInv, TypeOK
    <3>1. CASE UNCHANGED vars
      BY <3>1 DEF vars
    <3>2. ASSUME NEW p \in Process,
                 \/ Start(p) \/ Prompted(p) \/ WriteFile(p) \/ First(p)
                 \/ Load(p) \/ Truncate(p) \/ Write(p) \/ Die(p)
          PROVE  at[q] = "prompt" /\ held'[q] = held[q] /\ source'[q] = source[q]
      BY <3>2 DEF Start, Prompted, WriteFile, First, Load, Truncate, Write, Die,
                  Exit, Go
    <3>3. ASSUME NEW p \in Process, Verify(p)
          PROVE  \/ at[q] = "prompt" /\ held'[q] = held[q] /\ source'[q] = source[q]
                 \/ Verify(q) /\ held'[q] = registry /\ source'[q] = source[q]
      BY <3>3 DEF Verify, Exit, Go
    <3> QED
      BY <3>1, <3>2, <3>3 DEF Next
  <2>2. CASE at[q] = "prompt" /\ held'[q] = held[q] /\ source'[q] = source[q]
    BY <2>2 DEF NoFallthrough, InOrder
  <2>3. CASE Verify(q) /\ held'[q] = registry /\ source'[q] = source[q]
    <3>1. /\ registry.trusted \in SUBSET Trustee
          /\ source[q] \in Source \cup {Local}
      BY DEF RegistryIInv, TypeOK, RegistryType
    <3>2. Verifies(registry.trusted, source[q])
      BY <2>3 DEF Verify, Exit, RegistryIInv, TypeOK
    <3> QED
      BY <2>3, <3>1, <3>2, VerifiesInOrder
  <2> QED
    BY <2>1, <2>2, <2>3
<1> QED
  BY <1>1, <1>2, RegistryInvariance, PTL DEF Spec

-------------------------------------------------------------------------------
(* Commands one after the other. *)

\* At most one process runs a command.
Alone == \A p, q \in Process : at[p] # "idle" /\ at[q] # "idle" => p = q

\* What a process may rely on when no other runs: the files it has written are
\* as it wrote them, and the registry is as it was when the process looked.
Undisturbed(p) ==
  /\ cmd[p].op = "import" =>
       \A f \in 1..wrote[p] : files[cmd[p].context][f] = cmd[p].pack
  /\ at[p] \in {"load", "save"} /\ cmd[p].op = "import" /\ first[p] =>
       registry.contexts = {}
  /\ at[p] = "save" => held[p] \in Changed(p, registry)
  /\ at[p] = "write" => registry = Fresh

SerialIInv == serial => Alone /\ \A p \in Process : Undisturbed(p)

\* A process without a command relies on nothing.
LEMMA IdleIsUndisturbed ==
  ASSUME NEW p \in Process, at[p] = "idle", cmd[p] = NoCommand
  PROVE  Undisturbed(p)
BY DEF Undisturbed, NoCommand

\* With one process at a time, only the clauses of the one that steps matter.
LEMMA SerialStep ==
  ASSUME RegistryIInv, NEW p \in Process, serial, Alone,
         at[p] # "idle" \/ \A q \in Process : at[q] = "idle",
         \A q \in Process \ {p} : Untouched(q),
         Undisturbed(p)'
  PROVE  (Alone /\ \A q \in Process : Undisturbed(q))'
<1>1. ASSUME NEW q \in Process \ {p} PROVE at'[q] = "idle" /\ cmd'[q] = NoCommand
  <2>1. at[q] = "idle"
    BY DEF Alone
  <2> QED
    BY <2>1 DEF RegistryIInv, Progress, Untouched
<1>2. Alone'
  BY <1>1 DEF Alone
<1>3. ASSUME NEW q \in Process \ {p} PROVE Undisturbed(q)'
  BY <1>1 DEF Undisturbed, NoCommand
<1> QED
  BY <1>2, <1>3

\* A process that ends is idle and relies on nothing any more.
LEMMA ExitIsUndisturbed ==
  ASSUME RegistryIInv, NEW p \in Process, Exit(p)
  PROVE  Undisturbed(p)'
<1>1. at'[p] = "idle" /\ cmd'[p] = NoCommand
  BY DEF Exit, RegistryIInv, TypeOK
<1> QED
  BY <1>1 DEF Undisturbed, NoCommand

\* The step of a process, told from the steps of the others.
LEMMA StepIsUndisturbed ==
  ASSUME RegistryIInv, NEW p \in Process, Undisturbed(p),
         \/ Start(p) \/ Verify(p) \/ Prompted(p) \/ WriteFile(p) \/ First(p)
         \/ Load(p) \/ Truncate(p) \/ Write(p) \/ Die(p)
  PROVE  Undisturbed(p)' /\ \A q \in Process \ {p} : Untouched(q)
<1> USE DEF RegistryIInv, TypeOK
<1>1. CASE Start(p)
  <2>1. PICK c \in Command :
          /\ cmd' = [cmd EXCEPT ![p] = c]
          /\ Go(p, "verify") \/ (Go(p, "load") /\ c.op # "import")
    BY <1>1 DEF Start
  <2>2. at[p] = "idle" /\ UNCHANGED <<registry, files, held, first, wrote>>
    BY <1>1 DEF Start
  <2>3. wrote'[p] = 0
    BY <2>2 DEF Progress
  <2>4. cmd'[p] = c /\ at'[p] \in {"verify", "load"}
        /\ (at'[p] = "load" => c.op # "import")
    BY <2>1 DEF Go
  <2>5. Undisturbed(p)'
    BY <2>3, <2>4 DEF Undisturbed
  <2>6. \A q \in Process \ {p} : Untouched(q)
    BY <2>1, <2>2 DEF Untouched, Go
  <2> QED
    BY <2>5, <2>6
<1>2. ASSUME Exit(p)
      PROVE  Undisturbed(p)' /\ \A q \in Process \ {p} : Untouched(q)
  BY <1>2, ExitKeeps, ExitIsUndisturbed
<1>3. CASE Verify(p) \/ Prompted(p)
  <2>1. CASE Exit(p)
    BY <1>2, <2>1
  <2>2. CASE ~Exit(p)
    <3>1. /\ at'[p] \in {"prompt", "files"}
          /\ UNCHANGED <<registry, files, cmd, first, wrote>>
          /\ \A q \in Process \ {p} : at'[q] = at[q] /\ held'[q] = held[q]
      BY <1>3, <2>2 DEF Verify, Prompted, Go
    <3>2. Undisturbed(p)'
      BY <3>1 DEF Undisturbed
    <3> QED
      BY <3>1, <3>2 DEF Untouched
  <2> QED
    BY <2>1, <2>2
<1>4. CASE WriteFile(p)
  <2> DEFINE c == cmd[p].context
             f == wrote[p] + 1
  <2>1. /\ at[p] = "files"
        /\ files' = [files EXCEPT ![c][f] = cmd[p].pack]
        /\ wrote' = [wrote EXCEPT ![p] = f]
        /\ at'[p] \in {"first", "files"}
        /\ \A q \in Process \ {p} : at'[q] = at[q]
        /\ UNCHANGED <<registry, cmd, held, first>>
    BY <1>4 DEF WriteFile, Content, Go
  <2>2. /\ cmd[p] \in Command /\ cmd[p].op = "import"
        /\ wrote[p] \in Nat /\ wrote[p] < NumFiles
    BY <2>1, RegistryAssumption DEF Progress
  <2>3. c \in Context /\ f \in File
    BY <2>2, CommandFields, RegistryAssumption DEF File
  <2>4. /\ files'[c][f] = cmd[p].pack
        /\ \A g \in File : g # f => files'[c][g] = files[c][g]
    BY <2>1, <2>3
  <2>5. wrote'[p] = f /\ cmd'[p] = cmd[p]
    BY <2>1
  <2>6. \A g \in 1..f : files'[c][g] = cmd[p].pack
    <3> SUFFICES ASSUME NEW g \in 1..f PROVE files'[c][g] = cmd[p].pack
      OBVIOUS
    <3>1. CASE g = f
      BY <2>4, <3>1
    <3>2. CASE g # f
      <4>1. g \in 1..wrote[p] /\ g \in File
        BY <2>2, <2>3, <3>2, RegistryAssumption DEF File
      <4>2. files[c][g] = cmd[p].pack
        BY <2>2, <4>1 DEF Undisturbed
      <4> QED
        BY <2>4, <3>2, <4>1, <4>2
    <3> QED
      BY <3>1, <3>2
  <2>7. Undisturbed(p)'
    BY <2>1, <2>5, <2>6 DEF Undisturbed
  <2>8. \A q \in Process \ {p} : Untouched(q)
    BY <2>1 DEF Untouched
  <2> QED
    BY <2>7, <2>8
<1>5. CASE First(p)
  <2>1. /\ UNCHANGED <<registry, files, cmd, held, wrote>>
        /\ first' = [first EXCEPT ![p] = registry.contexts = {}]
        /\ at'[p] = "load" /\ at[p] = "first"
        /\ \A q \in Process \ {p} : at'[q] = at[q]
    BY <1>5 DEF First, Go
  <2>2. first'[p] <=> registry.contexts = {}
    BY <2>1
  <2>3. Undisturbed(p)'
    BY <2>1, <2>2 DEF Undisturbed
  <2> QED
    BY <2>1, <2>3 DEF Untouched
<1>6. CASE Load(p)
  <2>1. ASSUME NEW r \in Changed(p, registry), held' = [held EXCEPT ![p] = r],
               Go(p, "save"), at[p] = "load",
               UNCHANGED <<registry, files, cmd, first, wrote>>
        PROVE  Undisturbed(p)' /\ \A q \in Process \ {p} : Untouched(q)
    <3>1. /\ at'[p] = "save" /\ held'[p] = r
          /\ \A q \in Process \ {p} : at'[q] = at[q] /\ held'[q] = held[q]
      BY <2>1 DEF Go
    <3>2. Changed(p, registry)' = Changed(p, registry)
      BY <2>1 DEF Changed, Registered, Used, Trusted, Distrusted
    <3>3. Undisturbed(p)'
      BY <2>1, <3>1, <3>2 DEF Undisturbed
    <3> QED
      BY <2>1, <3>1, <3>3 DEF Untouched
  <2> QED
    BY <1>2, <1>6, <2>1 DEF Load
<1>7. CASE Truncate(p)
  <2>1. /\ registry' = Fresh /\ at'[p] = "write"
        /\ UNCHANGED <<files, cmd, held, first, wrote>>
        /\ \A q \in Process \ {p} : at'[q] = at[q]
    BY <1>7 DEF Truncate, Go
  <2>2. Undisturbed(p)'
    BY <2>1 DEF Undisturbed
  <2> QED
    BY <2>1, <2>2 DEF Untouched
<1>8. CASE Write(p) \/ Die(p)
  BY <1>2, <1>8 DEF Write, Die
<1> QED
  BY <1>1, <1>3, <1>4, <1>5, <1>6, <1>7, <1>8

LEMMA SerialInit == Init => SerialIInv
<1> SUFFICES ASSUME Init PROVE Alone /\ \A p \in Process : Undisturbed(p)
  BY DEF SerialIInv
<1>1. \A p \in Process : at[p] = "idle" /\ cmd[p] = NoCommand
  BY DEF Init
<1> QED
  BY <1>1, IdleIsUndisturbed DEF Alone

LEMMA SerialNext == RegistryIInv /\ SerialIInv /\ [Next]_vars => SerialIInv'
<1> SUFFICES ASSUME RegistryIInv, SerialIInv, [Next]_vars, serial'
             PROVE  (Alone /\ \A p \in Process : Undisturbed(p))'
  BY DEF SerialIInv
<1>1. CASE UNCHANGED vars
  <2>1. UNCHANGED <<serial, registry, files, at, cmd, held, first, wrote>>
    BY <1>1 DEF vars
  <2>2. Alone'
    BY <2>1 DEF SerialIInv, Alone
  <2>3. ASSUME NEW p \in Process PROVE Undisturbed(p)'
    <3>1. Changed(p, registry)' = Changed(p, registry)
      BY <2>1 DEF Changed, Registered, Used, Trusted, Distrusted
    <3> QED
      BY <2>1, <3>1 DEF SerialIInv, Undisturbed
  <2> QED
    BY <2>2, <2>3
<1>2. ASSUME NEW p \in Process,
             \/ Start(p) \/ Verify(p) \/ Prompted(p) \/ WriteFile(p) \/ First(p)
             \/ Load(p) \/ Truncate(p) \/ Write(p) \/ Die(p)
      PROVE  (Alone /\ \A q \in Process : Undisturbed(q))'
  <2>1. serial
    BY <1>2 DEF Start, Verify, Prompted, WriteFile, First, Load, Truncate,
                Write, Die
  <2>2. Alone /\ Undisturbed(p)
    BY <2>1 DEF SerialIInv
  <2>3. at[p] # "idle" \/ \A q \in Process : at[q] = "idle"
    BY <1>2, <2>1 DEF Start, Verify, Prompted, WriteFile, First, Load, Truncate,
                      Write, Die
  <2>4. Undisturbed(p)' /\ \A q \in Process \ {p} : Untouched(q)
    BY <1>2, <2>2, StepIsUndisturbed
  <2> QED
    BY <2>1, <2>2, <2>3, <2>4, SerialStep
<1> QED
  BY <1>1, <1>2 DEF Next

THEOREM SerialInvariance == Spec => []SerialIInv
BY SerialInit, SerialNext, RegistryInvariance, PTL DEF Spec

\* One command at a time, an import leaves every file its manifest names as the
\* manifest has it, whatever crashed imports left there before (import.go:151-188).
THEOREM ImportsAreWhole == Spec => []ImportIsWhole
<1>1. SerialIInv => ImportIsWhole
  BY DEF SerialIInv, Undisturbed, ImportIsWhole, File
<1> QED
  BY <1>1, SerialInvariance, PTL

-------------------------------------------------------------------------------
(* One at a time, the commands implement AtomicRegistry. *)

\* While a process writes, the user sees what it writes.
LEMMA SeenWriting ==
  ASSUME Alone, NEW p \in Process, at[p] = "write"
  PROVE  Seen = held[p]
<1>1. \A q \in Process : at[q] = "write" <=> q = p
  BY DEF Alone
<1> QED
  BY <1>1 DEF Seen

LEMMA SeenWritingNext ==
  ASSUME Alone', NEW p \in Process, at'[p] = "write"
  PROVE  Seen' = held'[p]
<1>1. \A q \in Process : at'[q] = "write" <=> q = p
  BY DEF Alone
<1> QED
  BY <1>1 DEF Seen

\* Otherwise the file.
LEMMA SeenAtRest ==
  /\ (\A q \in Process : at[q] # "write") => Seen = registry
  /\ (\A q \in Process : at'[q] # "write") => Seen' = registry'
BY DEF Seen

\* A step of AtomicRegistry but Wipe, from registry s to registry t.
AtomicChange(s, t) ==
  \/ \E c \in Context :
       \/ t = [s EXCEPT !.contexts = @ \cup {c},
                        !.current = IF s.current = NoContext THEN c ELSE @]
       \/ c \in s.contexts /\ t = [s EXCEPT !.current = c]
  \/ \E u \in Trustee :
       \/ u \notin s.trusted /\ t = [s EXCEPT !.trusted = @ \cup {u}]
       \/ u \in s.trusted /\ t = [s EXCEPT !.trusted = @ \ {u}]

\* What a command is about to write is what the command means, atomically.
LEMMA ChangeIsAtomic ==
  ASSUME RegistryIInv, NEW p \in Process, Undisturbed(p), at[p] = "save"
  PROVE  AtomicChange(registry, held[p])
<1> USE DEF RegistryIInv, TypeOK
<1>1. cmd[p] \in Command /\ held[p] \in Changed(p, registry)
  BY DEF Progress, Undisturbed
<1>2. CASE cmd[p].op = "import"
  <2> DEFINE c == cmd[p].context
  <2>1. c \in Context
    BY <1>1, <1>2, CommandFields
  <2>2. held[p] = [registry EXCEPT
                     !.contexts = @ \cup {c},
                     !.current = IF first[p] \/ registry.current = NoContext
                                   THEN c ELSE @]
    BY <1>1, <1>2 DEF Changed, Registered
  <2>3. first[p] => registry.current = NoContext
    BY <1>2 DEF Undisturbed, Sound
  <2>4. held[p] = [registry EXCEPT
                     !.contexts = @ \cup {c},
                     !.current = IF registry.current = NoContext THEN c ELSE @]
    BY <2>2, <2>3
  <2> QED
    BY <2>1, <2>4 DEF AtomicChange
<1>3. CASE cmd[p].op = "use"
  <2>1. held[p] \in Used(registry, cmd[p].context)
    BY <1>1, <1>3 DEF Changed
  <2>2. /\ cmd[p].context \in Context
        /\ cmd[p].context \in registry.contexts
        /\ held[p] = [registry EXCEPT !.current = cmd[p].context]
    BY <1>1, <1>3, <2>1, CommandFields DEF Used
  <2> QED
    BY <2>2 DEF AtomicChange
<1>4. CASE cmd[p].op = "trust"
  <2>1. held[p] \in Trusted(registry, cmd[p].trustee)
    BY <1>1, <1>4 DEF Changed
  <2>2. /\ cmd[p].trustee \in Trustee
        /\ cmd[p].trustee \notin registry.trusted
        /\ held[p] = [registry EXCEPT !.trusted = @ \cup {cmd[p].trustee}]
    BY <1>1, <1>4, <2>1, CommandFields DEF Trusted
  <2> QED
    BY <2>2 DEF AtomicChange
<1>5. CASE cmd[p].op = "distrust"
  <2>1. held[p] \in Distrusted(registry, cmd[p].trustee)
    BY <1>1, <1>5 DEF Changed
  <2>2. /\ cmd[p].trustee \in Trustee
        /\ cmd[p].trustee \in registry.trusted
        /\ held[p] = [registry EXCEPT !.trusted = @ \ {cmd[p].trustee}]
    BY <1>1, <1>5, <2>1, CommandFields DEF Distrusted
  <2> QED
    BY <2>2 DEF AtomicChange
<1> QED
  BY <1>1, <1>2, <1>3, <1>4, <1>5, CommandFields

\* Truncating is the step that counts.
LEMMA TruncateSimulates ==
  ASSUME RegistryIInv, Alone, Alone', NEW p \in Process, Undisturbed(p),
         Truncate(p)
  PROVE  Atomic!Next
<1>1. /\ at[p] = "save" /\ at'[p] = "write" /\ held'[p] = held[p]
  BY DEF Truncate, Go, RegistryIInv, TypeOK
<1>2. \A q \in Process : at[q] # "write"
  BY <1>1 DEF Alone
<1>3. Seen = registry /\ Seen' = held[p]
  BY <1>1, <1>2, SeenAtRest, SeenWritingNext
<1>4. AtomicChange(registry, held[p])
  BY <1>1, ChangeIsAtomic
<1> QED
  BY <1>3, <1>4 DEF AtomicChange, Atomic!Next, Atomic!Import, Atomic!Use,
                    Atomic!Trust, Atomic!Distrust

\* A process that dies while it writes leaves the empty file; one that has
\* written leaves what was seen already; no other step is seen.
LEMMA OthersSimulate ==
  ASSUME RegistryIInv, Alone, Alone', NEW p \in Process, Undisturbed(p),
         at[p] # "idle" \/ \A q \in Process : at[q] = "idle",
         \/ Start(p) \/ Verify(p) \/ Prompted(p) \/ WriteFile(p) \/ First(p)
         \/ Load(p) \/ Write(p) \/ Die(p)
  PROVE  Atomic!Next \/ Seen' = Seen
<1> USE DEF RegistryIInv, TypeOK
<1>1. \A q \in Process \ {p} : at[q] = "idle" /\ at'[q] = at[q]
  BY StepIsUndisturbed DEF Alone, Untouched
<1>2. at'[p] # "write"
  BY DEF Start, Verify, Prompted, WriteFile, First, Load, Write, Die, Exit, Go
<1>3. Seen' = registry'
  BY <1>1, <1>2, SeenAtRest
<1>4. CASE at[p] # "write"
  <2>1. Seen = registry
    BY <1>1, <1>4, SeenAtRest
  <2>2. registry' = registry
    BY <1>4 DEF Start, Verify, Prompted, WriteFile, First, Load, Write, Die
  <2> QED
    BY <1>3, <2>1, <2>2
<1>5. CASE at[p] = "write"
  <2>1. Seen = held[p] /\ registry = Fresh
    BY <1>5, SeenWriting DEF Undisturbed
  <2>2. CASE Write(p)
    BY <1>3, <2>1, <2>2 DEF Write
  <2>3. CASE Die(p)
    <3>1. Seen' = Fresh
      BY <1>3, <2>1, <2>3 DEF Die
    <3> QED
      BY <3>1 DEF Fresh, Atomic!Next, Atomic!Wipe, Atomic!Fresh
  <2>4. Write(p) \/ Die(p)
    BY <1>5 DEF Start, Verify, Prompted, WriteFile, First, Load
  <2> QED
    BY <2>2, <2>3, <2>4
<1> QED
  BY <1>4, <1>5

\* One at a time, commands that load and save in several steps and may die
\* between them change the registry as AtomicRegistry says: nothing that another
\* command registered, chose or trusted is lost (context.go:95-124).
THEOREM SerialCommandsAreAtomic == Spec => SerialIsAtomic
<1>1. Init => Atomic!Init
  BY SeenAtRest DEF Init, Fresh, Atomic!Init, Atomic!Fresh
<1>2. /\ RegistryIInv /\ SerialIInv /\ SerialIInv' /\ [Next]_vars
      => [serial => Atomic!Next]_Seen
  <2> SUFFICES ASSUME RegistryIInv, SerialIInv, SerialIInv', [Next]_vars, serial
               PROVE  Atomic!Next \/ Seen' = Seen
    OBVIOUS
  <2>1. CASE UNCHANGED vars
    BY <2>1 DEF vars, Seen
  <2>2. ASSUME NEW p \in Process,
               \/ Start(p) \/ Verify(p) \/ Prompted(p) \/ WriteFile(p) \/ First(p)
               \/ Load(p) \/ Truncate(p) \/ Write(p) \/ Die(p)
        PROVE  Atomic!Next \/ Seen' = Seen
    <3>1. serial'
      BY <2>2 DEF Start, Verify, Prompted, WriteFile, First, Load, Truncate,
                  Write, Die
    <3>2. Alone /\ Alone' /\ Undisturbed(p)
      BY <3>1 DEF SerialIInv
    <3>3. at[p] # "idle" \/ \A q \in Process : at[q] = "idle"
      BY <2>2 DEF Start, Verify, Prompted, WriteFile, First, Load, Truncate,
                  Write, Die
    <3> QED
      BY <2>2, <3>2, <3>3, TruncateSimulates, OthersSimulate
  <2> QED
    BY <2>1, <2>2 DEF Next
<1> QED
  BY <1>1, <1>2, RegistryInvariance, SerialInvariance, PTL
     DEF Spec, SerialIsAtomic
================================================================================
