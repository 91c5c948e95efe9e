------------------------------ MODULE Startup ------------------------------
(***************************************************************************)
(* runMain up to the listeners: ensureConfig writes a first configuration  *)
(* when there is none, config.Load reads, completes and validates it,      *)
(* store.Open brings the schema up to date (Migrate), and the process      *)
(* serves.  Two processes may start on one path, the operator may write    *)
(* the file at any moment, and a process may be killed, or the machine     *)
(* lose power, between any two steps.                                      *)
(*                                                                         *)
(* The file is a whole document or a torn one.  A process that is killed   *)
(* in seedConfig leaves its temporary file behind, which nobody reads.     *)
(* The authored origin, bound between Open and the listeners, is Origin.   *)
(***************************************************************************)
EXTENDS Config, Migrate

CONSTANTS
  FlagSets,   \* the flags a process may be started with
  Documents,  \* documents the operator may write
  MaxEvents,  \* bound on writes of the operator and power losses
  NoFile,     \* no file at the path
  Torn,       \* a file that is not a whole document
  NoConfig    \* the process has not loaded a configuration

ASSUME StartupAssumption ==
  /\ MaxEvents \in Nat
  /\ Documents \subseteq DocumentType
  /\ NoFile # Torn
  /\ {NoFile, Torn} \cap Documents = {}
  /\ {NoFile, Torn} \cap {Seed(f) : f \in FlagSets} = {}
  /\ NoConfig \notin {ApplyDefaults(d) : d \in Documents \cup {Seed(f) : f \in FlagSets}}

VARIABLES
  file,     \* what is at the path of -config
  onDisk,   \* what may be there after a power loss
  stage,    \* stage[p]: the step of runMain the process is at
  flags,    \* flags[p]
  synced,   \* synced[p]: its temporary file is on disk
  cfg,      \* cfg[p]: the configuration it has loaded
  raced,    \* history: processes at their rename when the file appeared
  events

fileVars == <<file, onDisk>>
runVars == <<stage, flags, synced, cfg>>
startupVars == <<vars, fileVars, runVars, raced, events>>

NoFlags == [jwks_url |-> "", shared_secret |-> "", admin_listen |-> ""]

StartupInit ==
  /\ Init
  /\ file \in Documents \cup {NoFile}
  /\ onDisk = {file}
  /\ stage = [p \in Procs |-> "off"]
  /\ flags = [p \in Procs |-> NoFlags]
  /\ synced = [p \in Procs |-> FALSE]
  /\ cfg = [p \in Procs |-> NoConfig]
  /\ raced = {}
  /\ events = 0

Step(p, from, to) == stage[p] = from /\ stage' = [stage EXCEPT ![p] = to]

\* The processes in P that are about to rename.
Waiting(P) == {p \in P : stage[p] = "rename"}

Launch(p, f) ==
  /\ Step(p, "off", "look")
  /\ flags' = [flags EXCEPT ![p] = f]
  /\ UNCHANGED <<vars, fileVars, synced, cfg, raced, events>>
-----------------------------------------------------------------------------
(* ensureConfig *)

\* The first os.Stat and the look at the flags.  An existing file is taken as
\* it is, and without one authority there is nothing to seed (Stop).
Look(p) ==
  /\ \/ file # NoFile /\ Step(p, "look", "load")
     \/ file = NoFile /\ Seedable(flags[p]) /\ Step(p, "look", "seed")
  /\ UNCHANGED <<vars, fileVars, flags, synced, cfg, raced, events>>

\* seedConfig looks again, and writeFileAtomic fills a temporary file.
WriteTemp(p) ==
  /\ file = NoFile
  /\ Step(p, "seed", "sync")
  /\ UNCHANGED <<vars, fileVars, flags, synced, cfg, raced, events>>

\* Deviation of Sync: the temporary file is not synced.
SyncSkipped(p) ==
  /\ Step(p, "sync", "recheck")
  /\ UNCHANGED <<vars, fileVars, flags, synced, cfg, raced, events>>

Sync(p) ==
  /\ Step(p, "sync", "recheck")
  /\ synced' = [synced EXCEPT ![p] = TRUE]
  /\ UNCHANGED <<vars, fileVars, flags, cfg, raced, events>>

\* Deviation of Recheck: the file is not looked for again.
RecheckSkipped(p) ==
  /\ Step(p, "recheck", "rename")
  /\ UNCHANGED <<vars, fileVars, flags, synced, cfg, raced, events>>

\* The last os.Stat of writeFileAtomic; a file that is there now ends the run.
Recheck(p) ==
  /\ file = NoFile
  /\ Step(p, "recheck", "rename")
  /\ UNCHANGED <<vars, fileVars, flags, synced, cfg, raced, events>>

\* os.Rename replaces whatever is there.  Nobody syncs the directory, so that the
\* name may still stand for what it stood for before; and for a part of the new
\* document when the temporary file was not synced.
Rename(p) ==
  /\ Step(p, "rename", "load")
  /\ file' = Seed(flags[p])
  /\ onDisk' = onDisk \cup {file'} \cup (IF synced[p] THEN {} ELSE {Torn})
  /\ raced' = Waiting(IF file = NoFile THEN Procs ELSE raced) \ {p}
  /\ UNCHANGED <<vars, flags, synced, cfg, events>>
-----------------------------------------------------------------------------
\* config.Load: a torn document does not parse.
Load(p) ==
  /\ file \notin {NoFile, Torn}
  /\ Valid(ApplyDefaults(file))
  /\ Step(p, "load", "store")
  /\ cfg' = [cfg EXCEPT ![p] = ApplyDefaults(file)]
  /\ UNCHANGED <<vars, fileVars, flags, synced, raced, events>>

\* store.Open.
Open(p) ==
  /\ stage[p] = "store"
  /\ \/ Start(p) \/ ReadVersion(p) \/ Opened(p)
     \/ Begin(p) \/ Exec(p) \/ Record(p) \/ Commit(p)
  /\ UNCHANGED <<fileVars, runVars, raced, events>>

\* NewVerifier needs an algorithm; then the listeners are up.
Serve(p) ==
  /\ pc[p] = "open"
  /\ cfg[p].allowed_algs # {}
  /\ Step(p, "store", "serve")
  /\ UNCHANGED <<vars, fileVars, flags, synced, cfg, raced, events>>

\* What becomes of the processes in P when they end.
Off(P) ==
  /\ stage' = [p \in Procs |-> IF p \in P THEN "off" ELSE stage[p]]
  /\ flags' = [p \in Procs |-> IF p \in P THEN NoFlags ELSE flags[p]]
  /\ synced' = [p \in Procs |-> synced[p] /\ p \notin P]
  /\ cfg' = [p \in Procs |-> IF p \in P THEN NoConfig ELSE cfg[p]]
  /\ raced' = raced \ P

\* runMain returns with an error at any step, or the process ends or is killed.
Stop(p) ==
  /\ stage[p] # "off"
  /\ IF pc[p] = "off" THEN UNCHANGED vars ELSE Exit(p)
  /\ Off({p})
  /\ UNCHANGED <<fileVars, events>>

\* The operator puts a document at the path as a whole, or takes it away.
Edit(d) ==
  /\ events < MaxEvents
  /\ events' = events + 1
  /\ file' = d
  /\ onDisk' = onDisk \cup {d}
  /\ raced' = Waiting(IF file = NoFile /\ d # NoFile THEN Procs ELSE raced)
  /\ UNCHANGED <<vars, runVars>>

\* Every process ends.  The path has what it had at some moment since the last
\* power loss: a rename that was followed by a start, or by a year of serving, may
\* be lost.  Of the migrations those up to some version n have reached the disk.
PowerLoss ==
  /\ events < MaxEvents
  /\ events' = events + 1
  /\ file' \in onDisk
  /\ onDisk' = {file'}
  /\ Off(Procs)
  /\ \E n \in 0 .. Latest :
       /\ recorded' = {v \in recorded : v <= n}
       /\ effects' = [v \in Versions |-> IF v <= n THEN effects[v] ELSE 0]
  /\ holder' = Nobody
  /\ pc' = [p \in Procs |-> "off"]
  /\ current' = [p \in Procs |-> 0]

StartupNext ==
  \/ \E p \in Procs :
       \/ \E f \in FlagSets : Launch(p, f)
       \/ Look(p)
       \/ WriteTemp(p)
       \/ Sync(p)
       \/ Recheck(p)
       \/ Rename(p)
       \/ Load(p)
       \/ Open(p)
       \/ Serve(p)
       \/ Stop(p)
  \/ \E d \in Documents \cup {NoFile} : Edit(d)
  \/ PowerLoss

StartupSpec == StartupInit /\ [][StartupNext]_startupVars
-----------------------------------------------------------------------------
Seeds == {Seed(f) : f \in {g \in FlagSets : Seedable(g)}}

StartupTypeOK ==
  /\ TypeOK
  /\ onDisk \subseteq Documents \cup Seeds \cup {NoFile, Torn}
  /\ file \in onDisk
  /\ stage \in [Procs -> {"off", "look", "seed", "sync", "recheck", "rename", "load", "store", "serve"}]
  /\ flags \in [Procs -> FlagSets \cup {NoFlags}]
  /\ synced \in [Procs -> BOOLEAN]
  /\ \A p \in Procs :
       /\ stage[p] \in {"seed", "sync", "recheck", "rename"} => Seedable(flags[p])
       /\ cfg[p] = NoConfig <=> stage[p] \notin {"store", "serve"}
       /\ pc[p] # "off" => stage[p] \in {"store", "serve"}
  /\ raced \subseteq {p \in Procs : stage[p] = "rename"}
  /\ events \in Nat

\* Whoever is killed where, and whatever a power loss takes, be it a rename long
\* past, the path never holds part of a document.
WholeFile == file # Torn

\* A document at the path is replaced by a seed only when it came after the
\* last look of the process that seeds: the flags of a start never replace what
\* the operator, or a process started before, had written by then.
OverwritesOnlyUnseen ==
  [][\A p \in Procs : stage[p] = "rename" /\ stage'[p] = "load" /\ file # NoFile
       => p \in raced]_startupVars

\* A document written from flags is accepted when it is loaded, and makes the
\* process trust the authority the flags name and no other.
SeedIsSound ==
  \A f \in FlagSets :
    Seedable(f) /\ file = Seed(f) =>
      /\ Valid(ApplyDefaults(file))
      /\ Trusted(ApplyDefaults(file)) = {f.jwks_url, f.shared_secret} \ {""}

\* The authorities a document names.
Named(d) == {d.jwks_url, d.jwks_file, d.dev_hs256_secret} \ {""}

\* A process that serves gives every pull a page of at least one row and at
\* most pull_limit_max, or refuses it: the page of LivePull.  And it trusts those
\* its document names and nobody else; the placeholder of the defaults only when
\* the document names nobody, or names that.
ServesAsConfigured ==
  \A p \in Procs : stage[p] = "serve" =>
    /\ \A asked \in 0 .. 3 \cup {1000, Nil} :
         PageLimit(cfg[p], asked) # Refused =>
           PageLimit(cfg[p], asked) \in 1 .. cfg[p].pull_limit_max
    /\ \E d \in Documents \cup Seeds :
         /\ cfg[p] = ApplyDefaults(d)
         /\ Trusted(cfg[p]) \subseteq IF Named(d) = {} THEN {Placeholder} ELSE Named(d)
=============================================================================
