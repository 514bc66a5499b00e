--------------------------- MODULE SetupKeysProofs ---------------------------
(***************************************************************************)
(* Theorems about SetupKeys, for any number of keys and any settings.      *)
(***************************************************************************)
EXTENDS SetupKeys, FiniteSetTheorems, SequenceTheorems, TLAPS

(* The types, but for the tasks that are left (TasksLeft).                 *)
Types ==
  /\ saved \in Configuration /\ conf \in Configuration
  /\ extent \in Nat
  /\ keyFile \subseteq Usage /\ certFile \subseteq Usage
  /\ created \in 0 .. MaxKeys
  /\ key \in [Usage -> 0 .. created] /\ cert \in [Usage -> 0 .. created]
  /\ got \in 0 .. created
  /\ {force, whole, done} \subseteq BOOLEAN
  /\ pc \in {"idle", "run", "save", "truncate", "write", "chown"}

(* The configuration of the command is the one in the file, except between *)
(* the creation of a key and the Save of its secret.                       *)
Synced == pc \notin {"idle", "save"} => saved = conf

(* There, only the secret of the key that was created differs.             *)
OneSecretAhead ==
  pc = "save" =>
    \A u, w \in Usage :
      Head(todo) = <<"create", u>> /\ w # u => saved.secret[w] = conf.secret[w]

(* A file that was never made holds nothing, and a task writes to a file   *)
(* that it has made.                                                       *)
NoFileNoKey ==
  /\ \A u \in Usage : (u \notin keyFile => key[u] = 0) /\ (u \notin certFile => cert[u] = 0)
  /\ pc = "write" =>
       \A u \in Usage : /\ Head(todo) = <<"create", u>> => u \in keyFile
                        /\ Head(todo) = <<"register", u>> => u \in certFile

(* A task that is not forced only runs where there was nothing.            *)
NothingReplaced ==
  ~force /\ pc \in {"save", "truncate", "write"} =>
    \A u \in Usage : /\ Head(todo) = <<"create", u>> => key[u] = 0
                     /\ Head(todo) = <<"register", u>> => cert[u] = 0

(* The tasks that are left: the end of the runner's list, or a single one. *)
TasksLeft ==
  IF pc = "idle"
  THEN todo = <<>>
  ELSE \E n \in 1 .. 6 : todo \in {SubSeq(Tasks, n, 6), SubSeq(Tasks, n, n)}

Inv == Types /\ Synced /\ OneSecretAhead /\ NoFileNoKey /\ NothingReplaced

-----------------------------------------------------------------------------
(* Configurations.                                                         *)

(* A configuration stays one when keys are created.                        *)
LEMMA ConfigurationGrows ==
  ASSUME created \in Nat, created' \in Nat, created <= created'
  PROVE  \A c \in Configuration : c \in Configuration'
<1> SUFFICES ASSUME NEW c \in Configuration PROVE c \in Configuration'
  OBVIOUS
<1>1. 0 .. created \subseteq 0 .. created'
  OBVIOUS
<1>2. c.secret \in [Usage -> 0 .. created']
  BY <1>1 DEF Configuration
<1> QED
  BY <1>2 DEF Configuration

(* The length of a configuration is a number.                              *)
LEMMA LengthType ==
  ASSUME NEW c \in Configuration
  PROVE  Length(c) \in Nat
<1> DEFINE S == {u \in Usage : c.secret[u] # 0}
<1>1. IsFiniteSet({"binding"} \cup {"signing"})
  BY FS_Singleton, FS_AddElement
<1>2. S \in SUBSET ({"binding"} \cup {"signing"})
  BY DEF Usage
<1>3. Cardinality(S) \in Nat
  BY <1>1, <1>2, FS_Subset, FS_CardinalityType
<1>4. c.settings \in Nat /\ c.service \in Nat
  <2>1. c.settings \in {0} \cup Settings /\ c.service \in {0} \cup Settings
    BY DEF Configuration
  <2>2. {0} \cup Settings \subseteq Nat
    BY SettingsAssumption
  <2> QED
    BY <2>1, <2>2
<1> QED
  BY <1>3, <1>4 DEF Length

(* What init() makes of the file is a configuration.                       *)
LEMMA LoadedType ==
  ASSUME Types, NEW c \in Loaded
  PROVE  c \in Configuration
<1>1. created \in Nat
  BY MaxKeysAssumption DEF Types
<1>2. NoConfiguration \in Configuration
  BY <1>1 DEF NoConfiguration, Configuration
<1> QED
  BY <1>2 DEF Types, Loaded

(* Save leaves a configuration in a file of some length.                   *)
LEMMA SaveType ==
  ASSUME Types, NEW c \in Configuration, Save(c)
  PROVE  saved' \in Configuration /\ extent' \in Nat
BY LengthType DEF Save, Types

(* A command begins with a configuration that it writes to the file.       *)
LEMMA BeginType ==
  ASSUME Types, NEW tasks, NEW f \in BOOLEAN, NEW c \in Configuration, Begin(tasks, f, c)
  PROVE  Types'
<1>1. saved' \in Configuration /\ extent' \in Nat
  BY SaveType DEF Begin
<1>2. Configuration' = Configuration
  BY DEF Begin, Configuration
<1>3. got' \in 0 .. created'
  BY MaxKeysAssumption DEF Begin, Types
<1> QED
  BY <1>1, <1>2, <1>3 DEF Begin, Types

(* SetupAll and SetupTask begin with a configuration.                      *)
LEMMA FirstConfiguration ==
  ASSUME Types, NEW c \in Loaded, NEW s \in Settings
  PROVE  /\ [c EXCEPT !.settings = s, !.complete = TRUE] \in Configuration
         /\ [c EXCEPT !.settings = s] \in Configuration
         /\ c \in Configuration
BY LoadedType DEF Configuration

(* Every step keeps the types.                                             *)
LEMMA TypesStep ==
  ASSUME Types, [Next]_vars
  PROVE  Types'
<1> USE DEF disk, command, At, GoOn, NextTask
<1>0. created \in Nat
  BY MaxKeysAssumption DEF Types
<1>a. created' = created => Configuration' = Configuration
  BY DEF Configuration
<1>1. ASSUME NEW f \in BOOLEAN, SetupAll(f) PROVE Types'
  BY <1>1, FirstConfiguration, BeginType DEF SetupAll
<1>2. ASSUME NEW f \in BOOLEAN, NEW n \in DOMAIN Tasks, SetupTask(n, f) PROVE Types'
  <2>1. PICK c \in Loaded, s \in Settings :
          Begin(Single(n), f,
                IF Tasks[n][1] \in {"download", "register"} THEN [c EXCEPT !.settings = s] ELSE c)
    BY <1>2 DEF SetupTask
  <2> QED
    BY <2>1, FirstConfiguration, BeginType
<1>3. ASSUME NEW u \in Usage, CreateKey(u) PROVE Types'
  <2>1. created' \in 0 .. MaxKeys /\ created' = created + 1
    BY <1>0, <1>3, MaxKeysAssumption DEF CreateKey, Types
  <2>2. /\ saved' \in Configuration'
        /\ conf \in Configuration'
    BY <1>0, <1>3, <2>1, ConfigurationGrows DEF CreateKey, Types
  <2>3. conf' \in Configuration'
    BY <1>0, <1>3, <2>1, <2>2 DEF CreateKey, Configuration
  <2>4. /\ key' \in [Usage -> 0 .. created']
        /\ cert' \in [Usage -> 0 .. created']
        /\ got' \in 0 .. created'
    BY <1>0, <1>3, <2>1 DEF CreateKey, Types
  <2> QED
    BY <1>3, <2>1, <2>2, <2>3, <2>4 DEF CreateKey, Types
<1>4. ASSUME NEW u \in Usage, SaveSecret(u) PROVE Types'
  <2>1. saved' \in Configuration /\ extent' \in Nat
    BY <1>4, SaveType DEF SaveSecret, Types
  <2> QED
    BY <1>4, <1>a, <2>1 DEF SaveSecret, Types
<1>5. ASSUME NEW u \in Usage, TruncateKey(u) PROVE Types'
  BY <1>0, <1>5, <1>a DEF TruncateKey, Types
<1>6. ASSUME NEW u \in Usage, WriteKey(u) PROVE Types'
  <2>1. conf.secret[u] \in 0 .. created
    BY DEF Types, Configuration
  <2>2. key' \in [Usage -> 0 .. created]
    BY <1>6, <2>1 DEF WriteKey, Types
  <2> QED
    BY <1>6, <1>a, <2>2 DEF WriteKey, Types
<1>7. ASSUME NEW u \in Usage, KeyExists(u) \/ CertExists(u) PROVE Types'
  BY <1>7, <1>a DEF KeyExists, CertExists, Types
<1>8. ASSUME NEW u \in Usage, Certify(u) PROVE Types'
  <2>1. key[u] \in 0 .. created
    BY DEF Types
  <2> QED
    BY <1>8, <1>a, <2>1 DEF Certify, Types
<1>9. ASSUME NEW u \in Usage, TruncateCert(u) PROVE Types'
  BY <1>0, <1>9, <1>a DEF TruncateCert, Types
<1>10. ASSUME NEW u \in Usage, WriteCert(u) PROVE Types'
  <2>1. cert' \in [Usage -> 0 .. created]
    BY <1>10 DEF WriteCert, Types
  <2> QED
    BY <1>10, <1>a, <2>1 DEF WriteCert, Types
<1>11. ASSUME DownloadCert \/ ChownCert \/ ServiceConfigured PROVE Types'
  BY <1>11, <1>a DEF DownloadCert, ChownCert, ServiceConfigured, Types
<1>12. ASSUME NEW s \in Settings, UpdateService(s) PROVE Types'
  <2>1. conf' \in Configuration /\ Save(conf')
    BY <1>12 DEF UpdateService, Types, Configuration
  <2>2. saved' \in Configuration /\ extent' \in Nat
    BY <2>1, SaveType
  <2> QED
    BY <1>12, <1>a, <2>1, <2>2 DEF UpdateService, Types
<1>13. ASSUME Interrupt PROVE Types'
  <2>1. NoConfiguration \in Configuration
    BY <1>0 DEF NoConfiguration, Configuration
  <2>2. /\ saved' \in Configuration' /\ conf' \in Configuration'
        /\ got' \in 0 .. created'
    BY <1>0, <1>13, <1>a, <2>1 DEF Interrupt, Types
  <2>3. {force', whole', done'} \subseteq BOOLEAN /\ pc' = "idle"
    BY <1>13 DEF Interrupt, Types
  <2>4. UNCHANGED <<disk, created>>
    BY <1>13 DEF Interrupt
  <2> QED
    BY <2>2, <2>3, <2>4 DEF Types
<1>14. ASSUME UNCHANGED vars PROVE Types'
  BY <1>14, <1>a DEF vars, Types
<1> QED
  BY <1>1, <1>2, <1>3, <1>4, <1>5, <1>6, <1>7, <1>8, <1>9, <1>10, <1>11, <1>12, <1>13, <1>14
     DEF Next, CreateTask, RegisterTask

-----------------------------------------------------------------------------
(* The other parts of Inv.                                                 *)

(* A command starts with all of them.                                      *)
LEMMA BeginKeeps ==
  ASSUME Inv, NEW tasks, NEW f, NEW c, Begin(tasks, f, c)
  PROVE  Synced' /\ OneSecretAhead' /\ NoFileNoKey' /\ NothingReplaced'
BY DEF Begin, Save, Inv, Synced, OneSecretAhead, NoFileNoKey, NothingReplaced

(* The initial states have the invariant.                                  *)
LEMMA InvInit == Init => Inv
<1> SUFFICES ASSUME Init PROVE Inv
  OBVIOUS
<1>1. created = 0 /\ 0 \in 0 .. created /\ 0 \in 0 .. MaxKeys
  BY MaxKeysAssumption DEF Init
<1>2. NoConfiguration \in Configuration
  BY <1>1 DEF NoConfiguration, Configuration
<1>3. /\ key \in [Usage -> 0 .. created] /\ cert \in [Usage -> 0 .. created]
      /\ got \in 0 .. created
  BY <1>1 DEF Init
<1>4. Types
  BY <1>1, <1>2, <1>3 DEF Init, Types
<1> QED
  BY <1>4 DEF Init, Inv, Synced, OneSecretAhead, NoFileNoKey, NothingReplaced

(* The steps of a task that creates a key.                                 *)
LEMMA CreateKeeps ==
  ASSUME Inv, NEW v \in Usage, CreateTask(v)
  PROVE  Synced' /\ OneSecretAhead' /\ NoFileNoKey' /\ NothingReplaced'
<1> USE DEF disk, At, GoOn, NextTask
<1>t. Types /\ Synced /\ OneSecretAhead /\ NoFileNoKey /\ NothingReplaced
  BY DEF Inv
<1>k. /\ key \in [Usage -> 0 .. created]
      /\ conf.secret \in [Usage -> 0 .. created]
  BY <1>t DEF Types, Configuration
<1>1. CASE KeyExists(v)
  BY <1>1, <1>t DEF KeyExists, Synced, OneSecretAhead, NoFileNoKey, NothingReplaced
<1>2. CASE CreateKey(v)
  <2>1. pc = "run" /\ pc' = "save" /\ Head(todo) = <<"create", v>> /\ todo' = todo
    BY <1>2 DEF CreateKey
  <2>2. \A u \in Usage : Head(todo') = <<"create", u>> => u = v
    BY <2>1
  <2>3. \A u \in Usage : Head(todo') # <<"register", u>>
    BY <2>1
  <2>4. saved' = conf /\ \A w \in Usage : w # v => conf'.secret[w] = conf.secret[w]
    BY <1>2, <1>t, <1>k, <2>1 DEF CreateKey, Synced, Types, Configuration
  <2>5. Synced'
    BY <2>1 DEF Synced
  <2>6. OneSecretAhead'
    BY <2>2, <2>4 DEF OneSecretAhead
  <2>7. NoFileNoKey'
    BY <1>2, <1>t DEF CreateKey, NoFileNoKey
  <2>8. ~force' => key'[v] = 0
    BY <1>2, <1>t DEF CreateKey, NoFileNoKey
  <2>9. NothingReplaced'
    BY <2>2, <2>3, <2>8 DEF NothingReplaced
  <2> QED
    BY <2>5, <2>6, <2>7, <2>9
<1>3. CASE SaveSecret(v)
  BY <1>3, <1>t DEF SaveSecret, Save, Synced, OneSecretAhead, NoFileNoKey, NothingReplaced
<1>4. CASE TruncateKey(v)
  <2>1. pc = "truncate" /\ pc' = "write" /\ Head(todo) = <<"create", v>> /\ todo' = todo
    BY <1>4 DEF TruncateKey
  <2>2. \A u \in Usage : /\ Head(todo') = <<"create", u>> => u = v
                         /\ Head(todo') # <<"register", u>>
    BY <2>1
  <2>3. key'[v] = 0 /\ \A w \in Usage : w # v => key'[w] = key[w]
    BY <1>4, <1>k DEF TruncateKey
  <2>4. Synced' /\ OneSecretAhead'
    BY <1>4, <1>t, <2>1 DEF TruncateKey, Synced, OneSecretAhead
  <2>5. NoFileNoKey'
    BY <1>4, <1>t, <2>2, <2>3 DEF TruncateKey, NoFileNoKey
  <2>6. NothingReplaced'
    BY <2>2, <2>3 DEF NothingReplaced
  <2> QED
    BY <2>4, <2>5, <2>6
<1>5. CASE WriteKey(v)
  <2>1. pc = "write" /\ pc' \in {"idle", "run"} /\ Head(todo) = <<"create", v>>
    BY <1>5 DEF WriteKey
  <2>2. Synced' /\ OneSecretAhead' /\ NothingReplaced'
    BY <1>5, <1>t, <2>1 DEF WriteKey, Synced, OneSecretAhead, NothingReplaced
  <2>3. v \in keyFile
    BY <1>t, <2>1 DEF NoFileNoKey
  <2> QED
    BY <1>5, <1>t, <1>k, <2>1, <2>2, <2>3 DEF WriteKey, NoFileNoKey
<1> QED
  BY <1>1, <1>2, <1>3, <1>4, <1>5 DEF CreateTask

(* The steps of a task that registers a key.                               *)
LEMMA RegisterKeeps ==
  ASSUME Inv, NEW v \in Usage, RegisterTask(v)
  PROVE  Synced' /\ OneSecretAhead' /\ NoFileNoKey' /\ NothingReplaced'
<1> USE DEF disk, At, GoOn, NextTask
<1>t. Types /\ Synced /\ OneSecretAhead /\ NoFileNoKey /\ NothingReplaced
  BY DEF Inv
<1>k. cert \in [Usage -> 0 .. created]
  BY <1>t DEF Types
<1>1. CASE CertExists(v)
  BY <1>1, <1>t DEF CertExists, Synced, OneSecretAhead, NoFileNoKey, NothingReplaced
<1>2. CASE Certify(v)
  <2>1. pc = "run" /\ pc' = "truncate" /\ Head(todo) = <<"register", v>> /\ todo' = todo
    BY <1>2 DEF Certify
  <2>2. \A u \in Usage : /\ Head(todo') = <<"register", u>> => u = v
                         /\ Head(todo') # <<"create", u>>
    BY <2>1
  <2>3. ~force' => cert'[v] = 0
    BY <1>2, <1>t DEF Certify, NoFileNoKey
  <2>4. Synced' /\ OneSecretAhead' /\ NoFileNoKey'
    BY <1>2, <1>t, <2>1 DEF Certify, Synced, OneSecretAhead, NoFileNoKey
  <2> QED
    BY <2>2, <2>3, <2>4 DEF NothingReplaced
<1>3. CASE TruncateCert(v)
  <2>1. pc = "truncate" /\ pc' = "write" /\ Head(todo) = <<"register", v>> /\ todo' = todo
    BY <1>3 DEF TruncateCert
  <2>2. \A u \in Usage : /\ Head(todo') = <<"register", u>> => u = v
                         /\ Head(todo') # <<"create", u>>
    BY <2>1
  <2>3. cert'[v] = 0 /\ \A w \in Usage : w # v => cert'[w] = cert[w]
    BY <1>3, <1>k DEF TruncateCert
  <2>4. Synced' /\ OneSecretAhead'
    BY <1>3, <1>t, <2>1 DEF TruncateCert, Synced, OneSecretAhead
  <2>5. NoFileNoKey'
    BY <1>3, <1>t, <2>2, <2>3 DEF TruncateCert, NoFileNoKey
  <2> QED
    BY <2>2, <2>3, <2>4, <2>5 DEF NothingReplaced
<1>4. CASE WriteCert(v)
  <2>1. pc = "write" /\ pc' \in {"idle", "run", "chown"} /\ Head(todo) = <<"register", v>>
    BY <1>4 DEF WriteCert
  <2>2. Synced' /\ OneSecretAhead' /\ NothingReplaced'
    BY <1>4, <1>t, <2>1 DEF WriteCert, Synced, OneSecretAhead, NothingReplaced
  <2>3. v \in certFile
    BY <1>t, <2>1 DEF NoFileNoKey
  <2> QED
    BY <1>4, <1>t, <1>k, <2>1, <2>2, <2>3 DEF WriteCert, NoFileNoKey
<1> QED
  BY <1>1, <1>2, <1>3, <1>4 DEF RegisterTask

(* Every step keeps the invariant.                                         *)
LEMMA InvStep == Inv /\ [Next]_vars => Inv'
<1> SUFFICES ASSUME Inv, [Next]_vars PROVE Inv'
  OBVIOUS
<1> DEFINE Rest == Synced' /\ OneSecretAhead' /\ NoFileNoKey' /\ NothingReplaced'
<1>t. Types /\ Synced /\ OneSecretAhead /\ NoFileNoKey /\ NothingReplaced
  BY DEF Inv
<1>1. ASSUME NEW f \in BOOLEAN, SetupAll(f) PROVE Rest
  BY <1>1, BeginKeeps DEF SetupAll
<1>2. ASSUME NEW f \in BOOLEAN, NEW n \in DOMAIN Tasks, SetupTask(n, f) PROVE Rest
  BY <1>2, BeginKeeps DEF SetupTask
<1>3. ASSUME NEW u \in Usage, CreateTask(u) \/ RegisterTask(u) PROVE Rest
  BY <1>3, CreateKeeps, RegisterKeeps
<1>4. ASSUME DownloadCert \/ ChownCert \/ ServiceConfigured PROVE Rest
  BY <1>4, <1>t
     DEF DownloadCert, ChownCert, ServiceConfigured, At, NextTask, disk,
         Synced, OneSecretAhead, NoFileNoKey, NothingReplaced
<1>5. ASSUME NEW s \in Settings, UpdateService(s) PROVE Rest
  BY <1>5, <1>t
     DEF UpdateService, Save, At, NextTask,
         Synced, OneSecretAhead, NoFileNoKey, NothingReplaced
<1>6. ASSUME Interrupt PROVE Rest
  BY <1>6, <1>t DEF Interrupt, disk, Synced, OneSecretAhead, NoFileNoKey, NothingReplaced
<1>7. ASSUME UNCHANGED vars PROVE Rest
  BY <1>7, <1>t DEF vars, disk, command, Synced, OneSecretAhead, NoFileNoKey, NothingReplaced
<1>8. Rest
  BY <1>1, <1>2, <1>3, <1>4, <1>5, <1>6, <1>7 DEF Next
<1> QED
  BY <1>8, <1>t, TypesStep DEF Inv

(* Every reachable state has the invariant.                                *)
LEMMA Invariance == Spec => []Inv
BY InvInit, InvStep, PTL DEF Spec

-----------------------------------------------------------------------------
(* The list of tasks.                                                      *)

(* There are six.                                                          *)
LEMMA SixTasks ==
  /\ Len(Tasks) = 6 /\ DOMAIN Tasks = 1 .. 6
  /\ Tasks \in Seq({Tasks[n] : n \in 1 .. 6})
<1>1. Len(Tasks) = 6 /\ DOMAIN Tasks = 1 .. 6 /\ Tasks = [n \in 1 .. 6 |-> Tasks[n]]
  BY DEF Tasks
<1> QED
  BY <1>1

(* What is left when the first task is done.                               *)
LEMMA RestOfTasks ==
  ASSUME NEW n \in 1 .. 6
  PROVE  /\ Len(SubSeq(Tasks, n, 6)) = 7 - n
         /\ Tail(SubSeq(Tasks, n, 6)) = SubSeq(Tasks, n + 1, 6)
         /\ Len(SubSeq(Tasks, n, n)) = 1
         /\ Tail(SubSeq(Tasks, n, n)) = <<>>
BY SixTasks

(* A single task is not "setup all".                                       *)
LEMMA SingleIsNotAll ==
  ASSUME NEW n \in DOMAIN Tasks
  PROVE  Single(n) # Tasks
<1>1. n \in 1 .. 6 /\ Len(Tasks) = 6
  BY SixTasks
<1>2. Len(Single(n)) = 1
  BY <1>1, RestOfTasks DEF Single
<1> QED
  BY <1>1, <1>2

(* A task that ends leaves the others.                                     *)
LEMMA NextTaskKeeps ==
  ASSUME TasksLeft, pc # "idle", NextTask
  PROVE  TasksLeft'
<1>1. PICK n \in 1 .. 6 : todo \in {SubSeq(Tasks, n, 6), SubSeq(Tasks, n, n)}
  BY DEF TasksLeft
<1>2. CASE todo = SubSeq(Tasks, n, n)
  BY <1>2, RestOfTasks DEF NextTask, TasksLeft
<1>3. CASE todo = SubSeq(Tasks, n, 6) /\ n = 6
  BY <1>2, <1>3
<1>4. CASE todo = SubSeq(Tasks, n, 6) /\ n < 6
  <2>1. n + 1 \in 1 .. 6 /\ pc' = "run" /\ todo' = SubSeq(Tasks, n + 1, 6)
    BY <1>4, RestOfTasks DEF NextTask
  <2> QED
    BY <2>1 DEF TasksLeft
<1> QED
  BY <1>1, <1>2, <1>3, <1>4

(* Every step leaves the end of the list, or a single task.                *)
LEMMA TasksLeftStep == TasksLeft /\ [Next]_vars => TasksLeft'
<1> SUFFICES ASSUME TasksLeft, [Next]_vars PROVE TasksLeft'
  OBVIOUS
<1>1. ASSUME NEW f, NEW c, Begin(Tasks, f, c) PROVE TasksLeft'
  <2>1. SubSeq(Tasks, 1, 6) = Tasks
    BY SixTasks, SubSeqFull
  <2> QED
    BY <1>1, <2>1 DEF Begin, TasksLeft
<1>2. ASSUME NEW f, NEW c, NEW n \in DOMAIN Tasks, Begin(Single(n), f, c) PROVE TasksLeft'
  BY <1>2, SixTasks DEF Begin, Single, TasksLeft
<1>3. ASSUME pc # "idle", pc' # "idle", todo' = todo PROVE TasksLeft'
  BY <1>3 DEF TasksLeft
<1>4. ASSUME NEW u \in Usage, CreateTask(u) \/ RegisterTask(u) PROVE TasksLeft'
  BY <1>3, <1>4, NextTaskKeeps
     DEF CreateTask, RegisterTask, KeyExists, CreateKey, SaveSecret, TruncateKey, WriteKey,
         CertExists, Certify, TruncateCert, WriteCert, At, GoOn
<1>5. ASSUME DownloadCert \/ ChownCert \/ ServiceConfigured PROVE TasksLeft'
  BY <1>5, NextTaskKeeps DEF DownloadCert, ChownCert, ServiceConfigured, At
<1>6. ASSUME NEW s \in Settings, UpdateService(s) PROVE TasksLeft'
  BY <1>6, NextTaskKeeps DEF UpdateService, At
<1>7. ASSUME Interrupt \/ UNCHANGED vars PROVE TasksLeft'
  BY <1>7 DEF Interrupt, vars, command, TasksLeft
<1> QED
  BY <1>1, <1>2, <1>4, <1>5, <1>6, <1>7 DEF Next, SetupAll, SetupTask

-----------------------------------------------------------------------------
(* The theorems.                                                           *)

(* The types of the variables, in every reachable state: among them, that  *)
(* the runner is somewhere in its list of tasks, and that the file never   *)
(* holds a secret of a key that was not created.                           *)
THEOREM TypeCorrect == Spec => []TypeOK
<1>1. Init => TasksLeft
  BY DEF Init, TasksLeft
<1>2. Types /\ TasksLeft => TypeOK
  <2> SUFFICES ASSUME Types, TasksLeft PROVE TypeOK
    OBVIOUS
  <2>1. \E n \in 1 .. Len(Tasks) + 1 :
          todo = SubSeq(Tasks, n, Len(Tasks)) \/ todo = SubSeq(Tasks, n, n)
    <3>1. CASE pc = "idle"
      <4>1. SubSeq(Tasks, 7, 6) = <<>>
        BY SixTasks
      <4> QED
        BY <3>1, <4>1, SixTasks DEF TasksLeft
    <3>2. CASE pc # "idle"
      BY <3>2, SixTasks DEF TasksLeft
    <3> QED
      BY <3>1, <3>2
  <2> QED
    BY <2>1 DEF Types, TypeOK
<1>3. Inv => Types
  BY DEF Inv
<1> QED
  BY <1>1, <1>2, <1>3, TasksLeftStep, Invariance, PTL DEF Spec

(* Only these steps write to the file of a key or of a certificate.        *)
LEMMA FilesWritten ==
  ASSUME [Next]_vars
  PROVE  \/ UNCHANGED <<key, cert>>
         \/ \E u \in Usage : TruncateKey(u) \/ WriteKey(u) \/ TruncateCert(u) \/ WriteCert(u)
BY DEF Next, vars, disk, command, SetupAll, SetupTask, Begin, CreateTask, RegisterTask,
       KeyExists, CreateKey, SaveSecret, CertExists, Certify, DownloadCert, ChownCert,
       ServiceConfigured, UpdateService, Interrupt

(* A key is only put in its file when its secret is saved, however many    *)
(* commands failed or were killed before.                                  *)
THEOREM SecretSavedFirst == Spec => SecretBeforeKey
<1> DEFINE A == \A u \in Usage : key'[u] \notin {0, key[u]} => saved.secret[u] = key'[u]
<1>1. Inv /\ [Next]_vars => A
  <2> SUFFICES ASSUME Inv, [Next]_vars, NEW u \in Usage, key'[u] \notin {0, key[u]}
               PROVE  saved.secret[u] = key'[u]
    OBVIOUS
  <2>t. key \in [Usage -> 0 .. created] /\ Synced
    BY DEF Inv, Types
  <2>1. PICK v \in Usage : TruncateKey(v) \/ WriteKey(v)
    BY FilesWritten DEF TruncateCert, WriteCert
  <2>2. ~TruncateKey(v)
    BY <2>t DEF TruncateKey
  <2>3. WriteKey(v) /\ v = u /\ key'[u] = conf.secret[u]
    BY <2>t, <2>1, <2>2 DEF WriteKey
  <2> QED
    BY <2>t, <2>3 DEF WriteKey, At, Synced
<1> QED
  BY <1>1, Invariance, PTL DEF Spec, SecretBeforeKey

(* A command without --force never replaces a key or a certificate that is *)
(* in its file.                                                            *)
THEOREM NothingReplacedUnlessForced == Spec => KeptUnlessForced
<1> DEFINE A == ~force => \A u \in Usage : /\ key[u] # 0 => key'[u] = key[u]
                                           /\ cert[u] # 0 => cert'[u] = cert[u]
<1>1. Inv /\ [Next]_vars => A
  <2> SUFFICES ASSUME Inv, [Next]_vars, ~force, NEW u \in Usage
               PROVE  /\ key[u] # 0 => key'[u] = key[u]
                      /\ cert[u] # 0 => cert'[u] = cert[u]
    OBVIOUS
  <2>t. /\ key \in [Usage -> 0 .. created] /\ cert \in [Usage -> 0 .. created]
        /\ NothingReplaced
    BY DEF Inv, Types
  <2>1. ASSUME NEW v \in Usage, TruncateKey(v) \/ WriteKey(v)
        PROVE  key[v] = 0 /\ cert' = cert /\ \A w \in Usage : w # v => key'[w] = key[w]
    BY <2>t, <2>1 DEF TruncateKey, WriteKey, At, NothingReplaced
  <2>2. ASSUME NEW v \in Usage, TruncateCert(v) \/ WriteCert(v)
        PROVE  cert[v] = 0 /\ key' = key /\ \A w \in Usage : w # v => cert'[w] = cert[w]
    BY <2>t, <2>2 DEF TruncateCert, WriteCert, At, NothingReplaced
  <2> QED
    BY <2>1, <2>2, FilesWritten
<1> QED
  BY <1>1, Invariance, PTL DEF Spec, KeptUnlessForced

(* A command without --force never loses the secret of a key that is in    *)
(* its file, as long as config.yml holds nothing but its configuration.    *)
THEOREM SecretNeverLost == Spec => SecretKept
<1> DEFINE A == ~force' /\ extent = Length(saved) =>
                  \A u \in Usage : key[u] # 0 => saved'.secret[u] = saved.secret[u]
<1>1. Inv /\ [Next]_vars => A
  <2> SUFFICES ASSUME Inv, [Next]_vars, ~force', extent = Length(saved),
                      NEW u \in Usage, key[u] # 0
               PROVE  saved'.secret[u] = saved.secret[u]
    OBVIOUS
  <2>t. Types /\ Synced /\ OneSecretAhead /\ NothingReplaced
    BY DEF Inv
  <2>1. saved \in Configuration /\ conf \in Configuration
    BY <2>t DEF Types
  <2>2. Loaded = {saved}
    BY DEF Loaded
  <2>3. ASSUME NEW f \in BOOLEAN, SetupAll(f) PROVE saved'.secret = saved.secret
    BY <2>1, <2>2, <2>3 DEF SetupAll, Begin, Save, Configuration
  <2>4. ASSUME NEW f \in BOOLEAN, NEW n \in DOMAIN Tasks, SetupTask(n, f)
        PROVE  saved'.secret = saved.secret
    BY <2>1, <2>2, <2>4 DEF SetupTask, Begin, Save, Configuration
  <2>5. ASSUME NEW v \in Usage, SaveSecret(v) PROVE saved'.secret[u] = saved.secret[u]
    <3>1. key[v] = 0
      BY <2>5, <2>t DEF SaveSecret, At, GoOn, NothingReplaced
    <3> QED
      BY <2>5, <2>t, <3>1 DEF SaveSecret, Save, At, OneSecretAhead
  <2>6. ASSUME NEW s \in Settings, UpdateService(s) PROVE saved'.secret = saved.secret
    BY <2>1, <2>6, <2>t DEF UpdateService, Save, At, Synced, Configuration
  <2>7. \/ saved' = saved
        \/ \E f \in BOOLEAN : SetupAll(f) \/ \E n \in DOMAIN Tasks : SetupTask(n, f)
        \/ \E v \in Usage : SaveSecret(v)
        \/ \E s \in Settings : UpdateService(s)
    BY DEF Next, vars, disk, command, CreateTask, RegisterTask,
           KeyExists, CreateKey, TruncateKey, WriteKey, CertExists, Certify, TruncateCert,
           WriteCert, DownloadCert, ChownCert, ServiceConfigured, Interrupt
  <2> QED
    BY <2>3, <2>4, <2>5, <2>6, <2>7
<1> QED
  BY <1>1, Invariance, PTL DEF Spec, SecretKept

-----------------------------------------------------------------------------
(* A forced setup of everything repairs what is on disk.                   *)

CreateAt == [u \in Usage |-> IF u = "signing" THEN 2 ELSE 3]
RegisterAt == [u \in Usage |-> IF u = "binding" THEN 4 ELSE 5]

(* The task that runs, 7 when all are done.                                *)
Pos == 7 - Len(todo)

Repairing == whole /\ force /\ (pc # "idle" \/ done)

(* The runner is at task Pos of its list.                                  *)
AtPos ==
  /\ Pos \in 1 .. 7
  /\ pc = "idle" <=> Pos = 7
  /\ todo = SubSeq(Tasks, Pos, 6)

KeyMade(u) ==
  /\ Pos > CreateAt[u] => u \in keyFile /\ key[u] # 0 /\ conf.secret[u] = key[u]
  /\ Pos = CreateAt[u] /\ pc # "run" => conf.secret[u] # 0

Registered(u) ==
  /\ Pos > RegisterAt[u] \/ (Pos = RegisterAt[u] /\ pc = "chown")
       => u \in certFile /\ cert[u] = key[u]
  /\ Pos = RegisterAt[u] /\ pc \in {"truncate", "write"} => got = key[u]
  /\ Pos = RegisterAt[u] /\ pc = "write" => u \in certFile

(* Every task that is done has done its part.                              *)
RepairInv ==
  Repairing =>
    /\ AtPos
    /\ pc = "idle" => saved = conf
    /\ \A u \in Usage : KeyMade(u) /\ Registered(u)

(* The tasks at each position.                                             *)
LEMMA WhichTask ==
  ASSUME NEW n \in 1 .. 6, NEW u \in Usage
  PROVE  /\ Tasks[n] = <<"create", u>> => n = CreateAt[u]
         /\ Tasks[n] = <<"register", u>> => n = RegisterAt[u]
         /\ Head(SubSeq(Tasks, n, 6)) = Tasks[n]
<1>1. Head(SubSeq(Tasks, n, 6)) = Tasks[n]
  BY SixTasks
<1>2. n \in {1, 2, 3, 4, 5, 6}
  OBVIOUS
<1>3. Tasks[n] = <<"create", u>> => n = CreateAt[u]
  BY <1>2 DEF Tasks, CreateAt, Usage
<1>4. Tasks[n] = <<"register", u>> => n = RegisterAt[u]
  BY <1>2 DEF Tasks, RegisterAt, Usage
<1> QED
  BY <1>1, <1>3, <1>4

(* Where the tasks are.                                                    *)
LEMMA TaskOrder ==
  /\ CreateAt["signing"] = 2 /\ CreateAt["binding"] = 3
  /\ RegisterAt["binding"] = 4 /\ RegisterAt["signing"] = 5
BY DEF CreateAt, RegisterAt, Usage

(* A step within a task stays at its position.                             *)
LEMMA GoOnPos ==
  ASSUME AtPos, pc # "idle", NEW p, p # "idle", GoOn(p)
  PROVE  Pos' = Pos /\ AtPos'
BY DEF AtPos, GoOn, Pos

(* A step that ends a task goes on to the next position.                   *)
LEMMA NextTaskPos ==
  ASSUME AtPos, pc # "idle", NextTask
  PROVE  Pos' = Pos + 1 /\ AtPos'
<1>1. /\ Pos \in 1 .. 6 /\ todo = SubSeq(Tasks, Pos, 6)
      /\ Len(todo) = 7 - Pos
  BY RestOfTasks DEF AtPos
<1>2. todo' = SubSeq(Tasks, Pos + 1, 6)
  BY <1>1, RestOfTasks DEF NextTask
<1>3. Len(todo') = 7 - (Pos + 1)
  <2>1. CASE Pos = 6
    BY <2>1, <1>1, <1>2, SixTasks
  <2>2. CASE Pos < 6
    BY <2>2, <1>1, <1>2, RestOfTasks
  <2> QED
    BY <1>1, <2>1, <2>2
<1>4. Pos' = Pos + 1
  BY <1>1, <1>3 DEF Pos
<1> QED
  BY <1>1, <1>2, <1>4 DEF NextTask, AtPos

(* The steps of a task that creates a key.                                 *)
LEMMA CreateRepairs ==
  ASSUME Inv, RepairInv, Repairing, pc # "idle", NEW v \in Usage, CreateTask(v)
  PROVE  AtPos' /\ (pc' = "idle" => saved' = conf')
         /\ \A u \in Usage : KeyMade(u)' /\ Registered(u)'
<1>t. /\ Types /\ Synced /\ NoFileNoKey
      /\ AtPos /\ force
      /\ \A u \in Usage : KeyMade(u) /\ Registered(u)
  BY DEF Inv, RepairInv, Repairing
<1>p. /\ Pos \in 1 .. 6 /\ Pos = CreateAt[v] /\ Pos \in {2, 3}
      /\ \A u \in Usage : RegisterAt[u] > Pos /\ (u # v => CreateAt[u] # Pos)
  <2>1. Pos \in 1 .. 6 /\ Head(todo) = <<"create", v>> /\ todo = SubSeq(Tasks, Pos, 6)
    BY <1>t
       DEF AtPos, CreateTask, KeyExists, CreateKey, SaveSecret, TruncateKey, WriteKey, At
  <2>2. Pos = CreateAt[v]
    BY <2>1, WhichTask
  <2> QED
    BY <2>1, <2>2, TaskOrder DEF Usage
<1>k. /\ key \in [Usage -> 0 .. created] /\ created \in Nat
      /\ conf \in Configuration /\ conf.secret \in [Usage -> 0 .. created]
  BY <1>t, MaxKeysAssumption DEF Types, Configuration
<1>1. CASE KeyExists(v)
  BY <1>1, <1>t DEF KeyExists
<1>2. CASE CreateKey(v)
  <2>1. Pos' = Pos /\ AtPos' /\ pc' = "save"
    BY <1>2, <1>t, GoOnPos DEF CreateKey, GoOn
  <2>2. /\ conf'.secret[v] = created + 1
        /\ \A w \in Usage : w # v => conf'.secret[w] = conf.secret[w]
    BY <1>2, <1>k DEF CreateKey, Configuration
  <2>3. ASSUME NEW u \in Usage PROVE KeyMade(u)'
    BY <1>2, <1>t, <1>p, <1>k, <2>1, <2>2, <2>3 DEF CreateKey, disk, KeyMade, CreateAt
  <2>4. ASSUME NEW u \in Usage PROVE Registered(u)'
    BY <1>p, <2>1, <2>4 DEF Registered, RegisterAt
  <2> QED
    BY <2>1, <2>3, <2>4
<1>3. CASE SaveSecret(v)
  <2>1. Pos' = Pos /\ AtPos' /\ pc' = "truncate" /\ pc = "save"
    BY <1>3, <1>t, GoOnPos DEF SaveSecret, GoOn, At
  <2>2. ASSUME NEW u \in Usage PROVE KeyMade(u)' /\ Registered(u)'
    BY <1>3, <1>t, <1>p, <2>1, <2>2
       DEF SaveSecret, KeyMade, Registered, CreateAt, RegisterAt
  <2> QED
    BY <2>1, <2>2
<1>4. CASE TruncateKey(v)
  <2>1. Pos' = Pos /\ AtPos' /\ pc' = "write" /\ pc = "truncate"
    BY <1>4, <1>t, GoOnPos DEF TruncateKey, GoOn, At
  <2>2. \A w \in Usage : w # v => key'[w] = key[w]
    BY <1>4, <1>k DEF TruncateKey
  <2>3. ASSUME NEW u \in Usage PROVE KeyMade(u)'
    BY <1>4, <1>t, <1>p, <2>1, <2>2, <2>3 DEF TruncateKey, KeyMade, CreateAt
  <2>4. ASSUME NEW u \in Usage PROVE Registered(u)'
    BY <1>p, <2>1, <2>4 DEF Registered, RegisterAt
  <2> QED
    BY <2>1, <2>3, <2>4
<1>5. CASE WriteKey(v)
  <2>1. Pos' = Pos + 1 /\ AtPos' /\ pc' = "run" /\ pc = "write"
    <3>1. Pos' = Pos + 1 /\ AtPos' /\ pc' \in {"idle", "run"} /\ pc = "write"
      BY <1>5, <1>t, NextTaskPos DEF WriteKey, NextTask, At
    <3> QED
      BY <3>1, <1>p DEF AtPos
  <2>2. /\ key'[v] = conf.secret[v] /\ conf.secret[v] # 0
        /\ \A w \in Usage : w # v => key'[w] = key[w]
    BY <1>5, <1>t, <1>k, <1>p, <2>1 DEF WriteKey, KeyMade
  <2>3. v \in keyFile
    BY <1>5, <1>t, <2>1 DEF NoFileNoKey, WriteKey, At
  <2>4. ASSUME NEW u \in Usage PROVE KeyMade(u)'
    <3>1. CASE u = v
      BY <1>5, <1>p, <2>1, <2>2, <2>3, <3>1 DEF WriteKey, KeyMade, CreateAt
    <3>2. CASE u # v
      BY <1>5, <1>t, <1>p, <2>1, <2>2, <2>4, <3>2 DEF WriteKey, KeyMade, CreateAt
    <3> QED
      BY <3>1, <3>2
  <2>5. ASSUME NEW u \in Usage PROVE Registered(u)'
    BY <1>p, <2>1, <2>5 DEF Registered, RegisterAt
  <2> QED
    BY <2>1, <2>4, <2>5
<1> QED
  BY <1>1, <1>2, <1>3, <1>4, <1>5 DEF CreateTask

(* The steps of a task that registers a key: both keys are made by then.   *)
LEMMA RegisterRepairs ==
  ASSUME Inv, RepairInv, Repairing, pc # "idle", NEW v \in Usage, RegisterTask(v) \/ ChownCert
  PROVE  AtPos' /\ (pc' = "idle" => saved' = conf')
         /\ \A u \in Usage : KeyMade(u)' /\ Registered(u)'
<1>t. /\ Types /\ NoFileNoKey
      /\ AtPos /\ force
      /\ \A u \in Usage : KeyMade(u) /\ Registered(u)
  BY DEF Inv, RepairInv, Repairing
<1> DEFINE w == IF ChownCert THEN "binding" ELSE v
<1>p. /\ w \in Usage /\ Pos \in {4, 5} /\ Pos = RegisterAt[w]
      /\ \A u \in Usage : CreateAt[u] < Pos /\ (u # w => RegisterAt[u] # Pos)
  <2>1. /\ Pos \in 1 .. 6 /\ w \in Usage
        /\ Head(todo) = <<"register", w>> /\ todo = SubSeq(Tasks, Pos, 6)
    BY <1>t
       DEF AtPos, RegisterTask, CertExists, Certify, TruncateCert, WriteCert, ChownCert, At,
           Usage
  <2>2. Pos = RegisterAt[w]
    BY <2>1, WhichTask
  <2> QED
    BY <2>1, <2>2, TaskOrder DEF Usage
<1>k. cert \in [Usage -> 0 .. created]
  BY <1>t DEF Types
<1>o. RegisterAt["binding"] = 4 /\ RegisterAt["signing"] = 5 /\ Usage = {"binding", "signing"}
      /\ \A u \in Usage : RegisterAt[u] \in {4, 5} /\ CreateAt[u] \in {2, 3}
  BY TaskOrder DEF Usage
<1>m. \A u \in Usage : u \in keyFile /\ key[u] # 0 /\ conf.secret[u] = key[u]
  BY <1>t, <1>p, <1>o DEF KeyMade
<1>1. ASSUME UNCHANGED <<keyFile, key, conf>>, Pos' \in {Pos, Pos + 1}
      PROVE  \A u \in Usage : KeyMade(u)'
  BY <1>1, <1>m, <1>p, <1>o DEF KeyMade
<1>2. ASSUME NextTask, UNCHANGED <<saved, conf>>
      PROVE  Pos' = Pos + 1 /\ AtPos' /\ pc' = "run"
  <2>1. Pos' = Pos + 1 /\ AtPos' /\ pc' \in {"idle", "run"}
    BY <1>2, <1>t, NextTaskPos DEF NextTask
  <2> QED
    BY <2>1, <1>p DEF AtPos
<1>3. CASE ChownCert
  <2>1. Pos' = Pos + 1 /\ AtPos' /\ pc' = "run" /\ pc = "chown"
    BY <1>2, <1>3 DEF ChownCert, disk, At
  <2>2. ASSUME NEW u \in Usage PROVE Registered(u)'
    BY <1>3, <1>t, <1>p, <1>o, <2>1, <2>2 DEF ChownCert, disk, Registered
  <2> QED
    BY <1>1, <1>3, <2>1, <2>2 DEF ChownCert, disk
<1>4. CASE ~ChownCert /\ CertExists(v)
  BY <1>4, <1>t DEF CertExists
<1>5. CASE ~ChownCert /\ Certify(v)
  <2>1. Pos' = Pos /\ AtPos' /\ pc' = "truncate" /\ pc = "run"
    BY <1>5, <1>t, GoOnPos DEF Certify, GoOn, At
  <2>2. ASSUME NEW u \in Usage PROVE Registered(u)'
    BY <1>5, <1>t, <1>p, <1>o, <2>1, <2>2 DEF Certify, disk, Registered
  <2> QED
    BY <1>1, <1>5, <2>1, <2>2 DEF Certify, disk
<1>6. CASE ~ChownCert /\ TruncateCert(v)
  <2>1. Pos' = Pos /\ AtPos' /\ pc' = "write" /\ pc = "truncate"
    BY <1>6, <1>t, GoOnPos DEF TruncateCert, GoOn, At
  <2>2. \A u \in Usage : u # v => cert'[u] = cert[u]
    BY <1>6, <1>k DEF TruncateCert
  <2>3. ASSUME NEW u \in Usage PROVE Registered(u)'
    BY <1>6, <1>t, <1>p, <1>o, <2>1, <2>2, <2>3 DEF TruncateCert, Registered
  <2> QED
    BY <1>1, <1>6, <2>1, <2>3 DEF TruncateCert
<1>7. CASE ~ChownCert /\ WriteCert(v)
  <2>1. pc = "write" /\ v = w /\ got = key[v] /\ v \in certFile
    BY <1>7, <1>t, <1>p DEF WriteCert, At, Registered
  <2>2. cert'[v] = key[v] /\ \A u \in Usage : u # v => cert'[u] = cert[u]
    BY <1>7, <1>k, <2>1 DEF WriteCert
  <2>3. CASE v = "binding"
    <3>1. Pos' = Pos /\ AtPos' /\ pc' = "chown"
      BY <1>7, <1>t, <2>1, <2>3, GoOnPos DEF WriteCert, GoOn
    <3>2. ASSUME NEW u \in Usage PROVE Registered(u)'
      BY <1>7, <1>t, <1>p, <1>o, <2>1, <2>2, <3>1, <3>2 DEF WriteCert, Registered
    <3> QED
      BY <1>1, <1>7, <3>1, <3>2 DEF WriteCert
  <2>4. CASE v # "binding"
    <3>1. Pos' = Pos + 1 /\ AtPos' /\ pc' = "run"
      BY <1>2, <1>7, <2>4 DEF WriteCert
    <3>2. ASSUME NEW u \in Usage PROVE Registered(u)'
      BY <1>7, <1>t, <1>p, <1>o, <2>1, <2>2, <3>1, <3>2 DEF WriteCert, Registered
    <3> QED
      BY <1>1, <1>7, <3>1, <3>2 DEF WriteCert
  <2> QED
    BY <2>3, <2>4
<1> QED
  BY <1>3, <1>4, <1>5, <1>6, <1>7 DEF RegisterTask

(* Every step of a forced setup of everything does its part.               *)
LEMMA RepairStep == Inv /\ RepairInv /\ [Next]_vars => RepairInv'
<1> SUFFICES ASSUME Inv, RepairInv, [Next]_vars, Repairing' PROVE RepairInv'
  BY DEF RepairInv
<1>1. ASSUME NEW f \in BOOLEAN, NEW c, Begin(Tasks, f, c) PROVE RepairInv'
  <2>1. Pos' = 1 /\ pc' = "run" /\ todo' = SubSeq(Tasks, 1, 6)
    BY <1>1, SixTasks, SubSeqFull DEF Begin, Pos
  <2>2. AtPos'
    BY <2>1 DEF AtPos
  <2>3. ASSUME NEW u \in Usage PROVE KeyMade(u)' /\ Registered(u)'
    BY <2>1, <2>3 DEF KeyMade, Registered, CreateAt, RegisterAt
  <2> QED
    BY <2>1, <2>2, <2>3 DEF RepairInv
<1>2. ASSUME NEW f \in BOOLEAN, NEW c, NEW n \in DOMAIN Tasks, Begin(Single(n), f, c)
      PROVE  FALSE
  <2>1. Single(n) # Tasks
    BY <1>2, SingleIsNotAll
  <2> QED
    BY <1>2, <2>1 DEF Begin, Repairing
<1>3. ASSUME NEW u \in Usage, CreateTask(u) \/ RegisterTask(u) PROVE RepairInv'
  <2>1. pc # "idle" /\ Repairing
    BY <1>3
       DEF CreateTask, RegisterTask, KeyExists, CreateKey, SaveSecret, TruncateKey, WriteKey,
           CertExists, Certify, TruncateCert, WriteCert, At, GoOn, NextTask, Repairing
  <2> QED
    BY <1>3, <2>1, CreateRepairs, RegisterRepairs DEF RepairInv
<1>4. ASSUME ChownCert PROVE RepairInv'
  <2>1. pc # "idle" /\ Repairing /\ "binding" \in Usage
    BY <1>4 DEF ChownCert, At, NextTask, Repairing, Usage
  <2> QED
    BY <1>4, <2>1, RegisterRepairs DEF RepairInv
<1>5. ASSUME DownloadCert \/ \E s \in Settings : UpdateService(s) PROVE RepairInv'
  <2>1. /\ pc = "run" /\ pc' \in {"run", "idle"} /\ Repairing /\ NextTask
        /\ UNCHANGED <<keyFile, certFile, key, cert, got>>
    BY <1>5 DEF DownloadCert, disk, UpdateService, At, NextTask, Repairing
  <2>2. AtPos /\ \A u \in Usage : KeyMade(u) /\ Registered(u)
    BY <2>1 DEF RepairInv
  <2>3. Pos \in {1, 6} /\ (DownloadCert => Pos = 1)
    <3>1. /\ Pos \in 1 .. 6 /\ todo = SubSeq(Tasks, Pos, 6)
          /\ Head(todo) \in {<<"download", "ca">>, <<"update", "service">>}
          /\ DownloadCert => Head(todo) = <<"download", "ca">>
      BY <1>5, <2>1, <2>2 DEF AtPos, DownloadCert, UpdateService, At
    <3>2. Head(todo) = Tasks[Pos] /\ Pos \in {1, 2, 3, 4, 5, 6}
      BY <3>1, WhichTask DEF Usage
    <3> QED
      BY <3>1, <3>2 DEF Tasks
  <2>4. Pos' = Pos + 1 /\ AtPos'
    BY <2>1, <2>2, NextTaskPos
  <2>5. conf'.secret = conf.secret
    BY <1>5 DEF Inv, Types, Configuration, DownloadCert, UpdateService
  <2>6. ASSUME NEW u \in Usage PROVE KeyMade(u)' /\ Registered(u)'
    <3>1. CreateAt[u] \in {2, 3} /\ RegisterAt[u] \in {4, 5}
      BY <2>6, TaskOrder DEF Usage
    <3>2. CASE Pos = 1
      <4>1. pc' = "run" /\ Pos' = 2
        BY <2>1, <2>4, <3>2 DEF AtPos
      <4> QED
        BY <3>1, <4>1 DEF KeyMade, Registered
    <3>3. CASE Pos = 6
      <4>1. Pos' = 7
        BY <2>4, <3>3
      <4> QED
        BY <2>1, <2>2, <2>5, <2>6, <3>1, <3>3, <4>1 DEF KeyMade, Registered
    <3> QED
      BY <2>3, <3>2, <3>3
  <2>7. pc' = "idle" => saved' = conf'
    BY <1>5, <2>3, <2>4 DEF AtPos, UpdateService, Save
  <2> QED
    BY <2>4, <2>6, <2>7 DEF RepairInv
<1>6. ~ServiceConfigured /\ ~Interrupt
  BY DEF ServiceConfigured, NextTask, Interrupt, Repairing
<1>7. ASSUME UNCHANGED vars PROVE RepairInv'
  BY <1>7
     DEF vars, disk, command, RepairInv, Repairing, AtPos, Pos, KeyMade, Registered
<1> QED
  BY <1>1, <1>2, <1>3, <1>4, <1>5, <1>6, <1>7 DEF Next, SetupAll, SetupTask

(* Whatever earlier commands left behind, a "setup all --force" that       *)
(* succeeds leaves both keys, secrets that open them and certificates of   *)
(* them, for any number of keys and any settings.                          *)
THEOREM ForcedSetupLeavesAllInOrder == Spec => []ForcedSetupRepairs
<1>1. Init => RepairInv
  BY DEF Init, RepairInv, Repairing
<1>2. RepairInv => ForcedSetupRepairs
  <2> SUFFICES ASSUME RepairInv, pc = "idle", done, whole, force, NEW u \in Usage
               PROVE  /\ u \in keyFile /\ key[u] # 0
                      /\ saved.secret[u] = key[u]
                      /\ u \in certFile /\ cert[u] = key[u]
    BY DEF ForcedSetupRepairs
  <2>1. Pos = 7 /\ saved = conf /\ KeyMade(u) /\ Registered(u)
    BY DEF RepairInv, Repairing, AtPos
  <2>2. CreateAt[u] \in {2, 3} /\ RegisterAt[u] \in {4, 5}
    BY TaskOrder DEF Usage
  <2> QED
    BY <2>1, <2>2 DEF KeyMade, Registered
<1> QED
  BY <1>1, <1>2, RepairStep, Invariance, PTL DEF Spec
=============================================================================
