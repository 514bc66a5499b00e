----------------------------- MODULE SetupKeys -----------------------------
(***************************************************************************)
(* wlagent setup: the tasks that create the binding and the signing key in *)
(* the TPM, have them certified by HVS and keep their secrets in           *)
(* config.yml.  One command runs at a time: all tasks or a single one,     *)
(* with or without --force.  It may fail or be killed at any step, and the *)
(* next command finds what it left on disk.                                *)
(*                                                                         *)
(* Keys are numbered in the order of their creation and a secret is named  *)
(* by the key it opens; 0 is no secret, or a file that holds no key.       *)
(***************************************************************************)
EXTENDS Integers, Sequences, FiniteSets

CONSTANTS
  Settings,  \* the lengths of what the environment may give
  MaxKeys    \* bound on the keys created

ASSUME SettingsAssumption == Settings \subseteq Nat \ {0} /\ Settings # {}
ASSUME MaxKeysAssumption == MaxKeys \in Nat

VARIABLES
  saved,    \* the configuration written to config.yml last
  extent,   \* the length of config.yml
  keyFile,  \* usages whose key file exists (bindingkey.json, signingkey.json)
  certFile, \* usages whose certificate file exists (the .pem files)
  key,      \* the key in each key file
  cert,     \* the key that each certificate is of
  created,  \* the number of keys created so far
  conf,     \* config.Configuration of the command that runs
  todo,     \* its tasks that are not done
  force,    \* it has --force
  whole,    \* it is "setup all"
  pc,       \* the next step of its task
  got,      \* the key that HVS certified last
  done      \* the last command succeeded

disk == <<saved, extent, keyFile, certFile, key, cert>>
command == <<conf, todo, force, whole, pc, got, done>>
vars == <<disk, created, command>>

Usage == {"binding", "signing"}

(* The tasks in the order of the runner.                                   *)
Tasks == << <<"download", "ca">>,
            <<"create", "signing">>, <<"create", "binding">>,
            <<"register", "binding">>, <<"register", "signing">>,
            <<"update", "service">> >>

Single(n) == SubSeq(Tasks, n, n)

(* settings: what SaveConfiguration takes from the environment; service:   *)
(* the user, password and URL of update_service_config.                    *)
Configuration ==
  [secret: [Usage -> 0 .. created], complete: BOOLEAN,
   settings: {0} \cup Settings, service: {0} \cup Settings]

NoConfiguration ==
  [secret |-> [u \in Usage |-> 0], complete |-> FALSE,
   settings |-> 0, service |-> 0]

(* What makes an encoded configuration longer or shorter.                  *)
Length(c) ==
  c.settings + c.service + Cardinality({u \in Usage : c.secret[u] # 0})

TypeOK ==
  /\ saved \in Configuration /\ conf \in Configuration
  /\ extent \in Nat
  /\ keyFile \subseteq Usage /\ certFile \subseteq Usage
  /\ created \in 0 .. MaxKeys
  /\ key \in [Usage -> 0 .. created] /\ cert \in [Usage -> 0 .. created]
  /\ got \in 0 .. created
  /\ \E n \in 1 .. Len(Tasks) + 1 :
       todo = SubSeq(Tasks, n, Len(Tasks)) \/ todo = SubSeq(Tasks, n, n)
  /\ {force, whole, done} \subseteq BOOLEAN
  /\ pc \in {"idle", "run", "save", "truncate", "write", "chown"}

Init ==
  /\ saved = NoConfiguration
  /\ extent = 0
  /\ keyFile = {} /\ certFile = {}
  /\ key = [u \in Usage |-> 0] /\ cert = [u \in Usage |-> 0]
  /\ created = 0
  /\ conf = NoConfiguration
  /\ todo = <<>>
  /\ force = FALSE /\ whole = FALSE
  /\ pc = "idle"
  /\ got = 0
  /\ done = FALSE

-----------------------------------------------------------------------------
(* config.yml.                                                             *)

(* What init() decodes.  If the end of an older and longer configuration   *)
(* follows, the file may not be yaml any more, and nothing is decoded.     *)
Loaded == IF extent = Length(saved) THEN {saved} ELSE {saved, NoConfiguration}

(* config.Save opens the file without O_TRUNC.                             *)
Save(c) ==
  /\ saved' = c
  /\ extent' = IF extent > Length(c) THEN extent ELSE Length(c)

-----------------------------------------------------------------------------
(* A command begins: the configuration is loaded, settings are taken from  *)
(* the environment and SaveConfiguration saves the result.                 *)

Begin(tasks, f, c) ==
  /\ pc = "idle"
  /\ pc' = "run"
  /\ conf' = c
  /\ Save(c)
  /\ todo' = tasks
  /\ force' = f
  /\ whole' = (tasks = Tasks)
  /\ done' = FALSE
  /\ got' = 0
  /\ UNCHANGED <<keyFile, certFile, key, cert, created>>

(* Mutant: setup all writes a configuration of its own.                    *)
SetupAllAfresh(f) ==
  \E s \in Settings :
    Begin(Tasks, f, [NoConfiguration EXCEPT !.settings = s, !.complete = TRUE])

SetupAll(f) ==
  \E c \in Loaded, s \in Settings :
    Begin(Tasks, f, [c EXCEPT !.settings = s, !.complete = TRUE])

(* The tasks that create a key and update_service_config take no settings  *)
(* from the environment here.                                              *)
SetupTask(n, f) ==
  \E c \in Loaded, s \in Settings :
    Begin(Single(n), f,
          IF Tasks[n][1] \in {"download", "register"} THEN [c EXCEPT !.settings = s] ELSE c)

(* A step fails, or the process is killed: only what is on disk stays.     *)
Interrupt ==
  /\ pc # "idle"
  /\ pc' = "idle"
  /\ todo' = <<>>
  /\ conf' = NoConfiguration /\ got' = 0
  /\ force' = FALSE /\ whole' = FALSE
  /\ UNCHANGED <<disk, created, done>>

At(kind, u, step) == pc = step /\ Head(todo) = <<kind, u>>

NextTask ==
  /\ todo' = Tail(todo)
  /\ pc' = IF Len(todo) = 1 THEN "idle" ELSE "run"
  /\ done' = (Len(todo) = 1)
  /\ UNCHANGED <<force, whole>>

(* The CA certificate is none of the files modelled here.                  *)
DownloadCert ==
  /\ At("download", "ca", "run")
  /\ NextTask
  /\ UNCHANGED <<disk, created, conf, got>>

GoOn(step) == pc' = step /\ UNCHANGED <<todo, force, whole, done>>

-----------------------------------------------------------------------------
(* SigningKey and BindingKey.                                              *)

(* Validate only looks for the file.                                       *)
KeyExists(u) ==
  /\ At("create", u, "run")
  /\ conf.complete /\ ~force /\ u \in keyFile
  /\ NextTask
  /\ UNCHANGED <<disk, created, conf, got>>

(* Mutants: the task runs whether or not the key exists; the secret is     *)
(* drawn after the key was created with it.                                *)
CreateKeyAnyway(u) ==
  /\ At("create", u, "run")
  /\ conf.complete
  /\ created < MaxKeys
  /\ created' = created + 1
  /\ conf' = [conf EXCEPT !.secret[u] = created + 1]
  /\ GoOn("save")
  /\ UNCHANGED <<disk, got>>

CreateKeyNextSecret(u) ==
  /\ At("create", u, "run")
  /\ conf.complete /\ (force \/ u \notin keyFile)
  /\ created < MaxKeys
  /\ created' = created + 1
  /\ conf' = [conf EXCEPT !.secret[u] = created + 2]
  /\ GoOn("save")
  /\ UNCHANGED <<disk, got>>

(* createKey draws a secret, and the TPM creates a key with it.            *)
CreateKey(u) ==
  /\ At("create", u, "run")
  /\ conf.complete /\ (force \/ u \notin keyFile)
  /\ created < MaxKeys
  /\ created' = created + 1
  /\ conf' = [conf EXCEPT !.secret[u] = created + 1]
  /\ GoOn("save")
  /\ UNCHANGED <<disk, got>>

(* Mutant: createKey leaves the saving to the end of the setup.            *)
SaveSecretLater(u) ==
  /\ At("create", u, "save")
  /\ GoOn("truncate")
  /\ UNCHANGED <<disk, created, conf, got>>

SaveSecret(u) ==
  /\ At("create", u, "save")
  /\ Save(conf)
  /\ GoOn("truncate")
  /\ UNCHANGED <<keyFile, certFile, key, cert, created, conf, got>>

TruncateKey(u) ==
  /\ At("create", u, "truncate")
  /\ keyFile' = keyFile \cup {u}
  /\ key' = [key EXCEPT ![u] = 0]
  /\ GoOn("write")
  /\ UNCHANGED <<saved, extent, certFile, cert, created, conf, got>>

WriteKey(u) ==
  /\ At("create", u, "write")
  /\ key' = [key EXCEPT ![u] = conf.secret[u]]
  /\ NextTask
  /\ UNCHANGED <<saved, extent, keyFile, certFile, cert, created, conf, got>>

-----------------------------------------------------------------------------
(* RegisterBindingKey and RegisterSigningKey.                              *)

CertExists(u) ==
  /\ At("register", u, "run")
  /\ conf.complete /\ ~force /\ u \in certFile
  /\ NextTask
  /\ UNCHANGED <<disk, created, conf, got>>

(* HVS certifies the key that the file holds.                              *)
Certify(u) ==
  /\ At("register", u, "run")
  /\ conf.complete /\ (force \/ u \notin certFile)
  /\ u \in keyFile /\ key[u] # 0
  /\ got' = key[u]
  /\ GoOn("truncate")
  /\ UNCHANGED <<disk, created, conf>>

TruncateCert(u) ==
  /\ At("register", u, "truncate")
  /\ certFile' = certFile \cup {u}
  /\ cert' = [cert EXCEPT ![u] = 0]
  /\ GoOn("write")
  /\ UNCHANGED <<saved, extent, keyFile, key, created, conf, got>>

(* Mutant: both certificates are written to the file of the binding key.   *)
WriteCertOfBindingKey(u) ==
  /\ At("register", u, "write")
  /\ cert' = [cert EXCEPT !["binding"] = got]
  /\ IF u = "binding" THEN GoOn("chown") ELSE NextTask
  /\ UNCHANGED <<saved, extent, keyFile, certFile, key, created, conf, got>>

WriteCert(u) ==
  /\ At("register", u, "write")
  /\ cert' = [cert EXCEPT ![u] = got]
  /\ IF u = "binding" THEN GoOn("chown") ELSE NextTask
  /\ UNCHANGED <<saved, extent, keyFile, certFile, key, created, conf, got>>

(* The certificate of the binding key is given to the trust agent.         *)
ChownCert ==
  /\ At("register", "binding", "chown")
  /\ NextTask
  /\ UNCHANGED <<disk, created, conf, got>>

-----------------------------------------------------------------------------
(* update_service_config.                                                  *)

ServiceConfigured ==
  /\ At("update", "service", "run")
  /\ ~force /\ conf.service # 0
  /\ NextTask
  /\ UNCHANGED <<disk, created, conf, got>>

UpdateService(s) ==
  /\ At("update", "service", "run")
  /\ force \/ conf.service = 0
  /\ conf' = [conf EXCEPT !.service = s]
  /\ Save(conf')
  /\ NextTask
  /\ UNCHANGED <<keyFile, certFile, key, cert, created, got>>

-----------------------------------------------------------------------------

(* SigningKey.Run and BindingKey.Run.                                      *)
CreateTask(u) ==
  KeyExists(u) \/ CreateKey(u) \/ SaveSecret(u) \/ TruncateKey(u) \/ WriteKey(u)

(* RegisterBindingKey.Run and RegisterSigningKey.Run.                      *)
RegisterTask(u) ==
  CertExists(u) \/ Certify(u) \/ TruncateCert(u) \/ WriteCert(u)

Next ==
  \/ \E f \in BOOLEAN : SetupAll(f) \/ \E n \in DOMAIN Tasks : SetupTask(n, f)
  \/ \E u \in Usage : CreateTask(u) \/ RegisterTask(u)
  \/ DownloadCert
  \/ ChownCert
  \/ ServiceConfigured
  \/ \E s \in Settings : UpdateService(s)
  \/ Interrupt

Spec == Init /\ [][Next]_vars

-----------------------------------------------------------------------------
(* Properties.                                                             *)

(* Whatever earlier commands left behind, a "setup all --force" that       *)
(* succeeds repairs it: both keys are in their files, the secrets saved    *)
(* open them and the certificates are of them.  Without --force this is    *)
(* not so: Validate of each task only looks for a file                     *)
(* (common/key_creation.go:151-179).                                       *)
ForcedSetupRepairs ==
  pc = "idle" /\ done /\ whole /\ force =>
    \A u \in Usage :
      /\ u \in keyFile /\ key[u] # 0
      /\ saved.secret[u] = key[u]
      /\ u \in certFile /\ cert[u] = key[u]

(* A key is only put in its file when its secret is saved: a command that  *)
(* is killed right after never leaves a key that nothing opens             *)
(* (createKey before writeCertifiedKeyToDisk).                             *)
SecretBeforeKey ==
  [][\A u \in Usage : key'[u] \notin {0, key[u]} => saved.secret[u] = key'[u]]_vars

(* A command without --force never loses the secret of a key that is in    *)
(* its file: every Save writes the whole configuration, so the one it      *)
(* started with must be the one saved last.  Not so if the end of an older *)
(* configuration follows it in the file, which may then not be decoded     *)
(* (config/config.go:116-140, 142-157).                                    *)
SecretKept ==
  [][~force' /\ extent = Length(saved) =>
       \A u \in Usage : key[u] # 0 => saved'.secret[u] = saved.secret[u]]_vars

(* A command without --force never replaces a key or a certificate, also   *)
(* not after it was killed and run again: other hosts hold data wrapped    *)
(* with the binding key.                                                   *)
KeptUnlessForced ==
  [][~force => \A u \in Usage : /\ key[u] # 0 => key'[u] = key[u]
                                /\ cert[u] # 0 => cert'[u] = cert[u]]_vars
=============================================================================
