--------------------------- MODULE StartupProofs ---------------------------
(***************************************************************************)
(* Theorems about the start of the process, for any number of processes,   *)
(* migrations, documents, flags, writes of the operator and power losses.  *)
(***************************************************************************)
EXTENDS Startup, TLAPS

(* Migrations *)

\* What a process knows of the record is true, and a transaction that is about
\* to commit still has its version to itself.
Progress ==
  /\ \A p \in Procs, v \in Versions : v <= current[p] => v \in recorded
  /\ \A p \in Procs : pc[p] = "commit" => Following(p) \notin recorded
  /\ \A p \in Procs : pc[p] = "open" => current[p] = Latest

MInv == TypeOK /\ RecordIsTruth /\ Progress

LEMMA MInit == Init => MInv
BY MigrateAssumption DEF Init, MInv, TypeOK, RecordIsTruth, Progress, Versions

LEMMA CommitStep ==
  ASSUME MInv, NEW p \in Procs, Commit(p)
  PROVE  MInv'
<1> USE DEF MInv, TypeOK, Versions
<1>0. /\ Latest \in Nat /\ current[p] \in 0..Latest /\ current[p] < Latest /\ holder = p
      /\ current \in [Procs -> 0..Latest]
      /\ pc \in [Procs -> {"off", "read", "next", "exec", "record", "commit", "open"}]
      /\ effects \in [1..Latest -> Nat] /\ recorded \subseteq 1..Latest /\ Nobody \notin Procs
  BY MigrateAssumption DEF Commit
<1>1. Following(p) \in 1..Latest /\ Following(p) \notin recorded /\ effects[Following(p)] = 0
  BY <1>0 DEF Commit, Progress, Following, RecordIsTruth
<1>2. /\ recorded' = recorded \cup {Following(p)} /\ holder' = Nobody
      /\ effects' = [effects EXCEPT ![Following(p)] = 1]
      /\ current' = [current EXCEPT ![p] = Following(p)]
      /\ pc' = [pc EXCEPT ![p] = "next"]
  BY <1>0, <1>1 DEF Commit
<1>3. \A q \in Procs : q # p => pc[q] \notin {"exec", "record", "commit"}
  BY <1>0
<1>4. TypeOK'
  <2>1. effects' \in [1..Latest -> Nat] /\ recorded' \subseteq 1..Latest
    BY <1>0, <1>1, <1>2
  <2>2. current' \in [Procs -> 0..Latest]
    BY <1>0, <1>1, <1>2
  <2>3. pc' \in [Procs -> {"off", "read", "next", "exec", "record", "commit", "open"}]
    BY <1>0, <1>2
  <2> QED
    BY <1>0, <1>2, <1>3, <2>1, <2>2, <2>3
<1>5. RecordIsTruth'
  <2>1. \A v \in recorded', w \in Versions : w < v => w \in recorded'
    <3> SUFFICES ASSUME NEW v \in recorded', NEW w \in Versions, w < v PROVE w \in recorded'
      OBVIOUS
    <3>1. CASE v \in recorded
      BY <1>2, <3>1 DEF RecordIsTruth
    <3>2. CASE v = Following(p)
      BY <1>0, <1>2, <3>2 DEF Following, Progress
    <3> QED
      BY <1>2, <3>1, <3>2
  <2>2. \A v \in Versions : effects'[v] = IF v \in recorded' THEN 1 ELSE 0
    BY <1>0, <1>1, <1>2 DEF RecordIsTruth
  <2> QED
    BY <2>1, <2>2 DEF RecordIsTruth
<1>6. Progress'
  <2>1. ASSUME NEW q \in Procs, NEW v \in Versions, v <= current'[q] PROVE v \in recorded'
    BY <1>0, <1>2, <2>1 DEF Progress, Following
  <2>2. \A q \in Procs : pc'[q] # "commit"
    BY <1>0, <1>2, <1>3
  <2>3. \A q \in Procs : pc'[q] = "open" => current'[q] = Latest
    BY <1>0, <1>2 DEF Progress
  <2> QED
    BY <2>1, <2>2, <2>3 DEF Progress
<1> QED
  BY <1>4, <1>5, <1>6

LEMMA MStep == MInv /\ [Next]_vars => MInv'
<1> SUFFICES ASSUME MInv, [Next]_vars PROVE MInv'
  OBVIOUS
<1> USE MigrateAssumption DEF MInv, TypeOK, RecordIsTruth, Progress, Following, Versions
<1>1. ASSUME NEW p \in Procs, Start(p) PROVE MInv'
  BY <1>1 DEF Start
<1>2. ASSUME NEW p \in Procs, ReadVersion(p) PROVE MInv'
  <2>1. PICK n \in recorded \cup {0} : current' = [current EXCEPT ![p] = n]
    BY <1>2 DEF ReadVersion
  <2>2. n \in 0..Latest /\ \A v \in Versions : v <= n => v \in recorded
    BY <2>1
  <2>3. /\ pc[p] = "read" /\ pc' = [pc EXCEPT ![p] = "next"]
        /\ recorded' = recorded /\ effects' = effects /\ holder' = holder
    BY <1>2 DEF ReadVersion
  <2> QED
    BY <2>1, <2>2, <2>3
<1>3. ASSUME NEW p \in Procs, Opened(p) PROVE MInv'
  BY <1>3 DEF Opened
<1>4. ASSUME NEW p \in Procs, Begin(p) PROVE MInv'
  BY <1>4 DEF Begin
<1>5. ASSUME NEW p \in Procs, Exec(p) PROVE MInv'
  BY <1>5 DEF Exec
<1>6. ASSUME NEW p \in Procs, Record(p) PROVE MInv'
  BY <1>6 DEF Record
<1>7. ASSUME NEW p \in Procs, Commit(p) PROVE MInv'
  BY <1>7, CommitStep
<1>8. ASSUME NEW p \in Procs, Exit(p) PROVE MInv'
  BY <1>8 DEF Exit
<1>9. CASE UNCHANGED vars
  BY <1>9 DEF vars
<1> QED
  BY <1>1, <1>2, <1>3, <1>4, <1>5, <1>6, <1>7, <1>8, <1>9 DEF Next

LEMMA OpenComplete == MInv => OpenIsComplete
<1> SUFFICES ASSUME MInv, NEW p \in Procs, pc[p] = "open" PROVE recorded = Versions
  BY DEF OpenIsComplete
<1>1. current[p] = Latest /\ recorded \subseteq Versions
  BY DEF MInv, TypeOK, Progress
<1>2. \A v \in Versions : v <= Latest
  BY MigrateAssumption DEF Versions
<1> QED
  BY <1>1, <1>2 DEF MInv, Progress
-----------------------------------------------------------------------------
(* The start as a whole *)

LEMMA StartupMInitial == StartupInit => MInv
BY MInit DEF StartupInit

\* Nothing but store.Open, an end and a power loss touches the database.  What
\* a power loss leaves is a record without a gap and its effects.
LEMMA StartupMStep == MInv /\ [StartupNext]_startupVars => MInv'
<1> SUFFICES ASSUME MInv, [StartupNext]_startupVars PROVE MInv'
  OBVIOUS
<1>1. ASSUME [Next]_vars PROVE MInv'
  BY <1>1, MStep
<1>2. CASE PowerLoss
  <2>1. PICK n \in 0 .. Latest :
          /\ recorded' = {v \in recorded : v <= n}
          /\ effects' = [v \in Versions |-> IF v <= n THEN effects[v] ELSE 0]
    BY <1>2 DEF PowerLoss
  <2>2. /\ holder' = Nobody /\ pc' = [p \in Procs |-> "off"] /\ current' = [p \in Procs |-> 0]
    BY <1>2 DEF PowerLoss
  <2> USE MigrateAssumption DEF MInv, TypeOK, Versions
  <2>3. TypeOK'
    <3>1. recorded' \subseteq 1..Latest /\ effects' \in [1..Latest -> Nat]
      BY <2>1
    <3>2. /\ current' \in [Procs -> 0..Latest]
          /\ \A p \in Procs : pc'[p] = "off"
          /\ pc' \in [Procs -> {"off", "read", "next", "exec", "record", "commit", "open"}]
      BY <2>2
    <3> QED
      BY <2>2, <3>1, <3>2
  <2>4. RecordIsTruth'
    BY <2>1 DEF RecordIsTruth
  <2>5. Progress'
    BY <2>2 DEF Progress
  <2> QED
    BY <2>3, <2>4, <2>5
<1>3. ASSUME NEW p \in Procs, Open(p) PROVE [Next]_vars
  BY <1>3 DEF Open, Next
<1>4. ASSUME NEW p \in Procs, Stop(p) PROVE [Next]_vars
  BY <1>4 DEF Stop, Next
<1>5. ASSUME NEW p \in Procs,
             \/ \E f \in FlagSets : Launch(p, f)
             \/ Look(p) \/ WriteTemp(p) \/ Sync(p) \/ Recheck(p) \/ Rename(p)
             \/ Load(p) \/ Serve(p)
      PROVE  UNCHANGED vars
  BY <1>5 DEF Launch, Look, WriteTemp, Sync, Recheck, Rename, Load, Serve
<1>6. ASSUME NEW d, Edit(d) PROVE UNCHANGED vars
  BY <1>6 DEF Edit
<1>7. CASE UNCHANGED startupVars
  BY <1>1, <1>7 DEF startupVars
<1> QED
  BY <1>1, <1>2, <1>3, <1>4, <1>5, <1>6, <1>7 DEF StartupNext

LEMMA StartupM == StartupSpec => []MInv
BY StartupMInitial, StartupMStep, PTL DEF StartupSpec

\* Whoever dies where, and whatever a power loss takes back: every migration
\* takes effect once, together with its record.
THEOREM RecordCorrect == StartupSpec => []RecordIsTruth
<1>1. MInv => RecordIsTruth
  BY DEF MInv
<1> QED
  BY <1>1, StartupM, PTL

\* A process that has opened the store finds the whole schema.
THEOREM OpenCorrect == StartupSpec => []OpenIsComplete
BY OpenComplete, StartupM, PTL
-----------------------------------------------------------------------------
(* The configuration file *)

Stages == {"off", "look", "seed", "sync", "recheck", "rename", "load", "store", "serve"}

\* The parts of StartupTypeOK about the file and the processes that seed it.
FileType ==
  /\ onDisk \subseteq Documents \cup Seeds \cup {NoFile, Torn}
  /\ file \in onDisk
  /\ stage \in [Procs -> Stages]
  /\ flags \in [Procs -> FlagSets \cup {NoFlags}]
  /\ synced \in [Procs -> BOOLEAN]
  /\ \A p \in Procs :
       stage[p] \in {"seed", "sync", "recheck", "rename"} => Seedable(flags[p])
  /\ raced \subseteq {p \in Procs : stage[p] = "rename"}

\* What is renamed into place was synced, so that nothing a power loss may bring
\* back is torn; and a process at its rename that finds a file is one the file
\* came up under.
FInv ==
  /\ FileType
  /\ Torn \notin onDisk
  /\ \A p \in Procs : stage[p] \in {"recheck", "rename"} => synced[p]
  /\ \A p \in Procs : stage[p] = "rename" /\ file # NoFile => p \in raced

\* A start that seeds names one authority.
LEMMA OneAuthority ==
  ASSUME NEW f, Seedable(f)
  PROVE  f.jwks_url = "" <=> f.shared_secret # ""
BY Zenon DEF Seedable

LEMMA SeedFacts ==
  ASSUME NEW f \in FlagSets \cup {NoFlags}, Seedable(f)
  PROVE  f \in FlagSets /\ Seed(f) \in Seeds /\ Seed(f) # Torn /\ Seed(f) # NoFile
<1>1. NoFlags.jwks_url = "" /\ NoFlags.shared_secret = ""
  BY DEF NoFlags
<1>2. f.jwks_url = "" <=> f.shared_secret # ""
  BY OneAuthority
<1>3. f # NoFlags
  BY <1>1, <1>2
<1>4. f \in FlagSets
  BY <1>3
<1> QED
  BY <1>4, StartupAssumption DEF Seeds

LEMMA FInit == StartupInit => FInv
BY StartupAssumption DEF StartupInit, FInv, FileType, Stages

LEMMA RenameStep ==
  ASSUME FInv, NEW p \in Procs, Rename(p)
  PROVE  FInv' /\ (file # NoFile => p \in raced)
<1> USE DEF FInv, FileType, Stages
<1>0. synced[p]
  BY Zenon DEF Rename, Step
<1>1. /\ stage[p] = "rename" /\ stage' = [stage EXCEPT ![p] = "load"]
      /\ file' = Seed(flags[p]) /\ onDisk' = onDisk \cup {file'}
      /\ synced' = synced /\ flags' = flags
      /\ raced' = Waiting(IF file = NoFile THEN Procs ELSE raced) \ {p}
  BY <1>0 DEF Rename, Step
<1>2. file' \in Seeds /\ file' # Torn /\ file' # NoFile
  BY <1>1, SeedFacts
<1>3. \A q \in Procs : q # p => stage'[q] = stage[q]
  BY <1>1
<1>4. stage' \in [Procs -> Stages] /\ stage'[p] = "load"
  BY <1>1
<1>5. raced' \subseteq {q \in Procs : stage'[q] = "rename"}
  BY <1>1, <1>3 DEF Waiting
<1>6. ASSUME NEW q \in Procs, stage'[q] = "rename" PROVE q \in raced'
  <2>1. q # p /\ stage[q] = "rename"
    BY <1>3, <1>4, <1>6
  <2> QED
    BY <1>1, <2>1 DEF Waiting
<1> QED
  BY <1>1, <1>2, <1>3, <1>4, <1>5, <1>6

LEMMA FStep ==
  FInv /\ [StartupNext]_startupVars =>
    /\ FInv'
    /\ \A p \in Procs : stage[p] = "rename" /\ stage'[p] = "load" /\ file # NoFile => p \in raced
<1> DEFINE Seen == \A p \in Procs :
                     stage[p] = "rename" /\ stage'[p] = "load" /\ file # NoFile => p \in raced
<1> SUFFICES ASSUME FInv, [StartupNext]_startupVars PROVE FInv' /\ Seen
  OBVIOUS
<1>s. Seen
  BY DEF FInv
<1> HIDE DEF Seen
<1> USE StartupAssumption DEF FInv, FileType, Stages, fileVars, Step
<1>1. ASSUME NEW p \in Procs, NEW f \in FlagSets, Launch(p, f) PROVE FInv'
  BY <1>1 DEF Launch
<1>2. ASSUME NEW p \in Procs, Look(p) PROVE FInv'
  BY <1>2 DEF Look
<1>3. ASSUME NEW p \in Procs, WriteTemp(p) PROVE FInv'
  BY <1>3 DEF WriteTemp
<1>4. ASSUME NEW p \in Procs, Sync(p) PROVE FInv'
  BY <1>4 DEF Sync
<1>5. ASSUME NEW p \in Procs, Recheck(p) PROVE FInv'
  BY <1>5 DEF Recheck
<1>6. ASSUME NEW p \in Procs, Rename(p) PROVE FInv'
  BY <1>6, RenameStep
<1>7. ASSUME NEW p \in Procs, Load(p) PROVE FInv'
  BY <1>7 DEF Load
<1>8. ASSUME NEW p \in Procs, Open(p) PROVE FInv'
  BY <1>8 DEF Open, runVars
<1>9. ASSUME NEW p \in Procs, Serve(p) PROVE FInv'
  BY <1>9 DEF Serve
<1>10. ASSUME NEW p \in Procs, Stop(p) PROVE FInv'
  BY <1>10 DEF Stop, Off
<1>11. ASSUME NEW d \in Documents \cup {NoFile}, Edit(d) PROVE FInv'
  BY <1>11 DEF Edit, runVars, Waiting
<1>12. CASE PowerLoss
  <2>1. /\ file' \in onDisk /\ onDisk' = {file'} /\ raced' = {}
        /\ stage' = [p \in Procs |-> "off"]
        /\ flags' = [p \in Procs |-> NoFlags]
        /\ synced' = [p \in Procs |-> FALSE]
    <3>1. raced \subseteq Procs
      OBVIOUS
    <3>2. Off(Procs) /\ file' \in onDisk /\ onDisk' = {file'}
      BY <1>12 DEF PowerLoss
    <3>3. /\ stage' = [p \in Procs |-> "off"] /\ flags' = [p \in Procs |-> NoFlags]
          /\ raced' = {}
      BY <3>1, <3>2 DEF Off
    <3>4. synced' = [p \in Procs |-> FALSE]
      BY <3>2 DEF Off
    <3> QED
      BY <3>2, <3>3, <3>4
  <2>2. FileType'
    BY <2>1 DEF NoFlags
  <2>3. \A p \in Procs : stage'[p] = "off"
    BY <2>1
  <2> QED
    BY <1>s, <2>1, <2>2, <2>3
<1>13. CASE UNCHANGED startupVars
  <2>1. /\ file' = file /\ onDisk' = onDisk /\ raced' = raced
        /\ stage' = stage /\ flags' = flags /\ synced' = synced
    BY <1>13 DEF startupVars, runVars
  <2>2. FileType'
    BY <2>1
  <2> QED
    BY <1>s, <2>1, <2>2
<1> QED
  BY <1>s, <1>1, <1>2, <1>3, <1>4, <1>5, <1>6, <1>7, <1>8, <1>9, <1>10, <1>11, <1>12, <1>13
     DEF StartupNext, Seen

LEMMA Files == StartupSpec => []FInv
BY FInit, FStep, PTL DEF StartupSpec

\* The path never holds a part of a document, though a power loss may take it back
\* to any moment since the last one.
THEOREM WholeCorrect == StartupSpec => []WholeFile
<1>1. FInv => WholeFile
  BY DEF FInv, FileType, WholeFile
<1> QED
  BY <1>1, Files, PTL

\* A seed replaces a document only if it came after the last look.
THEOREM OverwriteCorrect == StartupSpec => OverwritesOnlyUnseen
<1>1. FInv /\ [StartupNext]_startupVars =>
        [\A p \in Procs : stage[p] = "rename" /\ stage'[p] = "load" /\ file # NoFile
           => p \in raced]_startupVars
  BY FStep
<1> QED
  BY <1>1, Files, PTL DEF StartupSpec, OverwritesOnlyUnseen
-----------------------------------------------------------------------------
(* Types *)

\* The rest of StartupTypeOK: a process has a configuration from the load of
\* the file to its end, and opens the store only then.
RunType ==
  /\ cfg \in [Procs -> {NoConfig} \cup {ApplyDefaults(d) : d \in Documents \cup Seeds}]
  /\ \A p \in Procs :
       /\ cfg[p] = NoConfig <=> stage[p] \notin {"store", "serve"}
       /\ pc[p] # "off" => stage[p] \in {"store", "serve"}
  /\ events \in Nat

LEMMA RunInit == StartupInit => RunType
BY DEF StartupInit, Init, RunType

LEMMA RunStep == TypeOK /\ FInv /\ RunType /\ [StartupNext]_startupVars => RunType'
<1> SUFFICES ASSUME TypeOK, FInv, RunType, [StartupNext]_startupVars PROVE RunType'
  OBVIOUS
<1> USE DEF RunType, Step, runVars
<1>0. stage \in [Procs -> Stages] /\ DOMAIN pc = Procs
  BY DEF FInv, FileType, TypeOK
<1>1. ASSUME NEW p \in Procs,
             \/ \E f \in FlagSets : Launch(p, f)
             \/ Look(p) \/ WriteTemp(p) \/ Sync(p) \/ Recheck(p) \/ Rename(p)
      PROVE  RunType'
  BY <1>0, <1>1 DEF Launch, Look, WriteTemp, Sync, Recheck, Rename, vars
<1>2. ASSUME NEW p \in Procs, Load(p) PROVE RunType'
  <2>1. file \in Documents \cup Seeds
    BY <1>2 DEF Load, FInv, FileType
  <2>2. /\ ApplyDefaults(file) \in {ApplyDefaults(d) : d \in Documents \cup Seeds}
        /\ ApplyDefaults(file) # NoConfig
    BY <2>1, StartupAssumption DEF Seeds
  <2>3. /\ stage' = [stage EXCEPT ![p] = "store"] /\ pc' = pc /\ events' = events
        /\ cfg' = [cfg EXCEPT ![p] = ApplyDefaults(file)]
    BY <1>2 DEF Load, vars
  <2> QED
    BY <1>0, <2>2, <2>3
<1>3. ASSUME NEW p \in Procs, Open(p) PROVE RunType'
  <2>1. \A q \in Procs : q # p => pc'[q] = pc[q]
    BY <1>0, <1>3 DEF Open, Start, ReadVersion, Opened, Begin, Exec, Record, Commit
  <2>2. stage[p] = "store" /\ stage' = stage /\ cfg' = cfg /\ events' = events
    BY <1>3 DEF Open
  <2> QED
    BY <2>1, <2>2
<1>4. ASSUME NEW p \in Procs, Serve(p) PROVE RunType'
  <2>1. /\ pc[p] = "open" /\ stage[p] = "store" /\ stage' = [stage EXCEPT ![p] = "serve"]
        /\ pc' = pc /\ cfg' = cfg /\ events' = events
    BY <1>4 DEF Serve, vars
  <2> QED
    BY <1>0, <2>1
<1>5. ASSUME NEW p \in Procs, Stop(p) PROVE RunType'
  <2>1. \A q \in Procs : pc'[q] = IF q = p THEN "off" ELSE pc[q]
    BY <1>0, <1>5 DEF Stop, Exit, vars
  <2>2. /\ stage' = [q \in Procs |-> IF q = p THEN "off" ELSE stage[q]]
        /\ cfg' = [q \in Procs |-> IF q = p THEN NoConfig ELSE cfg[q]]
        /\ events' = events
    BY <1>5 DEF Stop, Off
  <2> QED
    BY <2>1, <2>2
<1>6. ASSUME NEW d, Edit(d) PROVE RunType'
  BY <1>6 DEF Edit, vars
<1>7. CASE PowerLoss
  <2>1. /\ \A q \in Procs : pc'[q] = "off"
        /\ stage' = [q \in Procs |-> "off"] /\ cfg' = [q \in Procs |-> NoConfig]
        /\ events' = events + 1
    BY <1>7 DEF PowerLoss, Off
  <2> QED
    BY <2>1
<1>8. CASE UNCHANGED startupVars
  BY <1>8 DEF startupVars, vars
<1> QED
  BY <1>1, <1>2, <1>3, <1>4, <1>5, <1>6, <1>7, <1>8 DEF StartupNext

\* Type correctness of the start, with what the stages say of the
\* configuration and of the store.
THEOREM StartupTypeCorrect == StartupSpec => []StartupTypeOK
<1>1. StartupInit => RunType
  BY RunInit
<1>2. MInv /\ FInv /\ RunType /\ [StartupNext]_startupVars => RunType'
  BY RunStep DEF MInv
<1>3. MInv /\ FInv /\ RunType => StartupTypeOK
  BY DEF MInv, FInv, FileType, RunType, Stages, StartupTypeOK
<1> QED
  BY <1>1, <1>2, <1>3, StartupM, Files, PTL DEF StartupSpec
-----------------------------------------------------------------------------
(* The document *)

\* What Seed writes is valid, and names the authority of the flags and no other.
LEMMA SeedTrusted ==
  ASSUME NEW f, Seedable(f)
  PROVE  /\ Valid(ApplyDefaults(Seed(f)))
         /\ Trusted(ApplyDefaults(Seed(f))) = {f.jwks_url, f.shared_secret} \ {""}
<1> DEFINE c == ApplyDefaults(Seed(f))
<1>1. /\ c.allowed_algs = IF f.shared_secret # "" THEN {"ES256", "RS256", "HS256"}
                          ELSE {"ES256", "RS256"}
      /\ c.dev_hs256_secret = f.shared_secret
      /\ c.jwks_file = ""
      /\ c.jwks_url = f.jwks_url
  <2> DEFINE d == Seed(f)
  <2>1. /\ d.jwks_url = f.jwks_url /\ d.dev_hs256_secret = f.shared_secret
        /\ d.jwks_file = "" /\ d.allowed_algs = SeedAlgs(f)
    BY DEF Seed
  <2>2. d \in [{"jwks_url", "dev_hs256_secret", "jwks_file", "allowed_algs", "admin_bind",
                "admin_token", "max_envelopes_per_push", "pull_limit_default",
                "pull_limit_max"} -> {d[k] : k \in DOMAIN d}]
    BY DEF Seed
  <2>3. SeedAlgs(f) = IF f.shared_secret # "" THEN {"ES256", "RS256", "HS256"}
                      ELSE {"ES256", "RS256"}
    BY DEF SeedAlgs, Defaults
  <2>4. JwksURL(d) = f.jwks_url
    BY <2>1, OneAuthority DEF JwksURL, Filled
  <2>5. Filled(SeedAlgs(f), Nil, Defaults.allowed_algs) = SeedAlgs(f)
    BY <2>3, ConfigAssumption DEF Filled, Defaults
  <2> HIDE DEF d
  <2>6. /\ ApplyDefaults(d).jwks_url = JwksURL(d)
        /\ ApplyDefaults(d).allowed_algs = Filled(d.allowed_algs, Nil, Defaults.allowed_algs)
        /\ ApplyDefaults(d).dev_hs256_secret = d.dev_hs256_secret
        /\ ApplyDefaults(d).jwks_file = d.jwks_file
    BY <2>2 DEF ApplyDefaults
  <2> QED
    BY <2>1, <2>3, <2>4, <2>5, <2>6 DEF d
<1>2. /\ c.admin_bind = "loopback" /\ c.max_envelopes_per_push = 500
      /\ c.pull_limit_default = 100 /\ c.pull_limit_max = 500
  BY DEF ApplyDefaults, Seed, Filled, Defaults
<1> HIDE DEF c
<1>3. Valid(c)
  BY <1>2 DEF Valid, MaxEnvelopesPerPushCeiling
<1>4. Trusted(c) = {f.jwks_url, f.shared_secret} \ {""}
  <2>1. KeySource(c) = f.jwks_url
    BY <1>1 DEF KeySource
  <2>2. CASE f.shared_secret = ""
    <3>1. f.jwks_url # "" /\ c.allowed_algs = {"ES256", "RS256"}
      BY <1>1, <2>2 DEF Seedable
    <3>2. "ES256" \in c.allowed_algs \ {"HS256"}
      BY <3>1
    <3> QED
      BY <1>1, <2>1, <2>2, <3>1, <3>2 DEF Trusted
  <2>3. CASE f.shared_secret # ""
    <3>1. f.jwks_url = "" /\ "HS256" \in c.allowed_algs
      BY <1>1, <2>3 DEF Seedable
    <3> QED
      BY <1>1, <2>1, <2>3, <3>1 DEF Trusted
  <2> QED
    BY <2>2, <2>3
<1> QED
  BY <1>3, <1>4 DEF c

\* The same of the file, at any moment and for any flags.
THEOREM SeedCorrect == StartupSpec => []SeedIsSound
<1>1. SeedIsSound
  BY SeedTrusted DEF SeedIsSound
<1> QED
  BY <1>1, PTL
-----------------------------------------------------------------------------
(* What a process serves *)

Sources == DocumentType \cup Seeds

\* A completed document keeps what it says, and has whole numbers for the pages.
LEMMA Completed ==
  ASSUME NEW d \in Sources
  PROVE  /\ ApplyDefaults(d).jwks_url = JwksURL(d)
         /\ ApplyDefaults(d).jwks_file = d.jwks_file
         /\ ApplyDefaults(d).dev_hs256_secret = d.dev_hs256_secret
         /\ ApplyDefaults(d).pull_limit_default \in Int
         /\ ApplyDefaults(d).pull_limit_max \in Int
<1>1. CASE d \in DocumentType
  BY <1>1 DEF DocumentType, ApplyDefaults, Filled, Defaults
<1>2. CASE d \in Seeds
  <2>1. PICK f : d = Seed(f)
    BY <1>2 DEF Seeds
  <2>2. ApplyDefaults(d).jwks_url = JwksURL(d)
    BY <2>1 DEF Seed, ApplyDefaults
  <2>3. ApplyDefaults(d).jwks_file = d.jwks_file
    BY <2>1 DEF Seed, ApplyDefaults
  <2>4. ApplyDefaults(d).dev_hs256_secret = d.dev_hs256_secret
    BY <2>1 DEF Seed, ApplyDefaults
  <2>5. ApplyDefaults(d).pull_limit_default = 100 /\ ApplyDefaults(d).pull_limit_max = 500
    BY <2>1 DEF Seed, ApplyDefaults, Filled, Defaults
  <2> QED
    BY <2>2, <2>3, <2>4, <2>5
<1> QED
  BY <1>1, <1>2 DEF Sources

\* Those whom a completed document makes the verifier trust are named in it; the
\* placeholder stands in only for a document that names nobody.
LEMMA TrustIsNamed ==
  ASSUME NEW d \in Sources, NEW a \in Trusted(ApplyDefaults(d))
  PROVE  a \in IF Named(d) = {} THEN {Placeholder} ELSE Named(d)
<1>1. a \in {d.dev_hs256_secret, KeySource(ApplyDefaults(d))}
  BY Completed DEF Trusted
<1>2. KeySource(ApplyDefaults(d)) \in {d.jwks_file, JwksURL(d)}
  BY Completed DEF KeySource
<1>3. a # ""
  BY DEF Trusted
<1>4. CASE a \in {d.jwks_url, d.jwks_file, d.dev_hs256_secret}
  <2>1. a \in Named(d)
    BY <1>3, <1>4 DEF Named
  <2> QED
    BY <2>1
<1>5. CASE a \notin {d.jwks_url, d.jwks_file, d.dev_hs256_secret}
  <2>1. a = JwksURL(d)
    BY <1>1, <1>2, <1>5
  <2>2. a = Placeholder /\ d.jwks_url = "" /\ d.jwks_file = "" /\ d.dev_hs256_secret = ""
    BY <1>5, <2>1 DEF JwksURL, Filled, Defaults
  <2>3. Named(d) = {}
    BY <2>2 DEF Named
  <2> QED
    BY <2>2, <2>3
<1> QED
  BY <1>4, <1>5

\* The page of LivePull: whatever number is asked for, and without one.
LEMMA PageBounds ==
  ASSUME NEW c, Valid(c), c.pull_limit_default \in Int, c.pull_limit_max \in Int,
         NEW asked \in Nat \cup {Nil}, PageLimit(c, asked) # Refused
  PROVE  PageLimit(c, asked) \in 1 .. c.pull_limit_max
<1> DEFINE limit == IF asked = Nil THEN c.pull_limit_default ELSE asked
<1>1. limit \in Nat
  <2>1. c.pull_limit_default \in Nat
    <3>1. c.pull_limit_default > 0
      BY Zenon DEF Valid
    <3> QED
      BY <3>1
  <2>2. asked # Nil => asked \in Nat
    OBVIOUS
  <2> QED
    BY <2>1, <2>2
<1>2. PageLimit(c, asked) =
        IF limit = 0 THEN Refused
        ELSE IF limit > c.pull_limit_max THEN c.pull_limit_max ELSE limit
  BY DEF PageLimit
<1> HIDE DEF limit
<1>3. c.pull_limit_max > 0
  BY DEF Valid
<1>4. CASE limit > c.pull_limit_max
  BY <1>1, <1>2, <1>3, <1>4
<1>5. CASE limit <= c.pull_limit_max
  <2>1. limit # 0
    BY <1>2
  <2> QED
    BY <1>1, <1>2, <1>3, <1>5, <2>1
<1> QED
  BY <1>1, <1>4, <1>5

\* A process that has a configuration has a valid one.
ConfigValid == \A p \in Procs : cfg[p] # NoConfig => Valid(cfg[p])

LEMMA ConfigStep == RunType /\ ConfigValid /\ [StartupNext]_startupVars => ConfigValid'
<1> SUFFICES ASSUME RunType, ConfigValid, [StartupNext]_startupVars PROVE ConfigValid'
  OBVIOUS
<1>1. ASSUME NEW p \in Procs, Load(p) PROVE ConfigValid'
  BY <1>1 DEF Load, RunType, ConfigValid
<1>2. ASSUME NEW P, Off(P) PROVE ConfigValid'
  BY <1>2 DEF Off, ConfigValid
<1>3. ASSUME UNCHANGED cfg PROVE ConfigValid'
  BY <1>3 DEF ConfigValid
<1> QED
  BY <1>1, <1>2, <1>3
     DEF StartupNext, Launch, Look, WriteTemp, Sync, Recheck, Rename, Open, Serve, Stop,
         Edit, PowerLoss, startupVars, runVars

\* What a process serves comes from a document of the operator or of Seed, and
\* validate has accepted it.
LEMMA Served ==
  ASSUME RunType, ConfigValid, NEW p \in Procs, stage[p] = "serve"
  PROVE  Valid(cfg[p]) /\ \E d \in Documents \cup Seeds : cfg[p] = ApplyDefaults(d)
<1>1. cfg[p] # NoConfig
  BY DEF RunType
<1> QED
  BY <1>1 DEF RunType, ConfigValid

LEMMA DocumentsAreSources == Documents \cup Seeds \subseteq Sources
BY StartupAssumption DEF Sources

LEMMA Configured == StartupSpec => [](RunType /\ ConfigValid)
<1>1. StartupInit => RunType /\ ConfigValid
  BY RunInit DEF StartupInit, ConfigValid
<1>2. MInv /\ FInv /\ RunType /\ [StartupNext]_startupVars => RunType'
  BY RunStep DEF MInv
<1> QED
  BY <1>1, <1>2, ConfigStep, StartupM, Files, PTL DEF StartupSpec

\* However many rows a pull asks for, a process that serves takes between one
\* and pull_limit_max, or refuses: the page LivePull starts from.
THEOREM PagesAreBounded ==
  StartupSpec =>
    [](\A p \in Procs : stage[p] = "serve" =>
         \A asked \in Nat \cup {Nil} :
           PageLimit(cfg[p], asked) # Refused =>
             PageLimit(cfg[p], asked) \in 1 .. cfg[p].pull_limit_max)
<1>1. RunType /\ ConfigValid =>
        \A p \in Procs : stage[p] = "serve" =>
          \A asked \in Nat \cup {Nil} :
            PageLimit(cfg[p], asked) # Refused =>
              PageLimit(cfg[p], asked) \in 1 .. cfg[p].pull_limit_max
  BY Served, DocumentsAreSources, Completed, PageBounds
<1> QED
  BY <1>1, Configured, PTL

\* A process that serves has its pages within its bound, and trusts whom its
\* document names, be that the placeholder, or the placeholder when it names
\* nobody: whatever documents the operator writes.
THEOREM ServesCorrect == StartupSpec => []ServesAsConfigured
<1>1. RunType /\ ConfigValid => ServesAsConfigured
  <2> SUFFICES ASSUME RunType, ConfigValid, NEW p \in Procs, stage[p] = "serve"
               PROVE  /\ \A asked \in 0 .. 3 \cup {1000, Nil} :
                           PageLimit(cfg[p], asked) # Refused =>
                             PageLimit(cfg[p], asked) \in 1 .. cfg[p].pull_limit_max
                      /\ \E d \in Documents \cup Seeds :
                           /\ cfg[p] = ApplyDefaults(d)
                           /\ Trusted(cfg[p]) \subseteq
                                IF Named(d) = {} THEN {Placeholder} ELSE Named(d)
    BY DEF ServesAsConfigured
  <2>1. PICK d \in Documents \cup Seeds : cfg[p] = ApplyDefaults(d) /\ d \in Sources
    BY Served, DocumentsAreSources
  <2>2. Valid(cfg[p])
    BY Served
  <2>3. \A asked \in Nat \cup {Nil} :
          PageLimit(cfg[p], asked) # Refused =>
            PageLimit(cfg[p], asked) \in 1 .. cfg[p].pull_limit_max
    BY <2>1, <2>2, Completed, PageBounds
  <2>4. \A asked \in 0 .. 3 \cup {1000, Nil} :
          PageLimit(cfg[p], asked) # Refused =>
            PageLimit(cfg[p], asked) \in 1 .. cfg[p].pull_limit_max
    <3> TAKE asked \in 0 .. 3 \cup {1000, Nil}
    <3>1. asked \in Nat \cup {Nil}
      OBVIOUS
    <3> QED
      BY <2>3, <3>1
  <2>5. Trusted(cfg[p]) \subseteq IF Named(d) = {} THEN {Placeholder} ELSE Named(d)
    BY <2>1, TrustIsNamed
  <2> QED
    BY <2>1, <2>4, <2>5
<1> QED
  BY <1>1, Configured, PTL
=============================================================================
