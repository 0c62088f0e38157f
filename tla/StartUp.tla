------------------------------- MODULE StartUp -------------------------------
(***************************************************************************)
(* The start of hellingd, from the state directory an earlier run left to  *)
(* the socket: configuration, identity, migrations, the repairs of an      *)
(* early v0.2 database, encryption of what is still plain, the Helling CA, *)
(* the key that signs access tokens.  Writing a key file is two steps:     *)
(* creating it and filling it.  The daemon may stop between any two.       *)
(***************************************************************************)
EXTENDS Configuration

CONSTANTS
  Hooks,      \* ids of webhooks, each with at most one row of the outbox
  Users,      \* users that may have a certificate row
  MaxCrashes, \* bound: times the daemon stops
  MaxLosses,  \* bound: key files the operator loses
  Missing,    \* a file: not there
  Torn,       \* a file: created and not filled
  None,       \* a row: not there
  Null,       \* a column without its value
  Nameless,   \* the same in an outbox row whose id names no webhook
  Plain,      \* a secret not encrypted yet
  NoConfig,   \* no configuration: the daemon is down
  BadConfig   \* none: the last start refused the one it was given

\* The marks are not mistaken for keys, rows or settings.
ASSUME StartUpAssumption ==
  /\ {MaxCrashes, MaxLosses} \subseteq Nat
  /\ Missing # Torn /\ \A x \in {Missing, Torn} : x \notin Nat \cup [to : Nat, ca : Nat]
  /\ {None, Nameless} \cap ({Null} \cup Hooks) = {} /\ Null \notin Hooks
  /\ \A x \in {NoConfig, BadConfig} : x \notin Accepted

VARIABLES
  pc,       \* what is to be done next
  config,   \* what the daemon is configured with
  schema,   \* migrations whose statements took effect
  applied,  \* schema_migrations
  columns,  \* columns of the v0.2 tables that their first form lacked, and "cert_pem"
  secrets,  \* webhooks: Plain or the identity the secret is encrypted to
  links,    \* event_outbox: Null, Nameless or the id of the webhook
  certs,    \* incus_user_certs: Null, Plain or the identity
  files,    \* the key files
  held,     \* the identity in the daemon's memory, 0 when it is down
  socket,   \* a socket file is there
  keys,     \* history: keys generated
  crashes, losses, \* history: what went wrong
  cut,      \* history: stopped where a file or the certificates were to be filled in
  unfilled  \* history: stopped or failed where the outbox was

db == <<schema, applied, columns, secrets, links, certs>>
history == <<keys, crashes, losses, cut, unfilled>>
vars == <<pc, config, db, files, held, socket, history>>

Versions == 1..8
Webhooks == 5   \* 005_webhooks.sql
Platform == 8   \* 008_v02_platform_core.sql
NewColumns == {"webhook_id", "encrypted_cert_pem"}
Files == {"identity", "caKey", "caCert", "jwt"}
Whole(f) == files[f] \notin {Missing, Torn}

\* A database of any release, v0.2's tables in their first or their present
\* form, and no key files: the releases before had none.  The first outbox had
\* no webhook_id, so its rows outlived their webhooks.
Init ==
  /\ pc = "load" /\ config = NoConfig /\ held = 0 /\ socket \in BOOLEAN
  /\ files = [f \in Files |-> Missing]
  /\ keys = 0 /\ crashes = 0 /\ losses = 0 /\ cut = FALSE /\ unfilled = FALSE
  /\ \E v \in 0..8 : schema = 1..v /\ applied = 1..v
  /\ columns \in IF Platform \in applied THEN {{}, {"cert_pem"}, NewColumns} ELSE {{}}
  /\ secrets \in IF Webhooks \in applied THEN [Hooks -> {None, Plain}] ELSE {[h \in Hooks |-> None]}
  /\ links \in IF Platform \in applied /\ columns # NewColumns
               THEN [Hooks -> {None, Null, Nameless}] ELSE {[h \in Hooks |-> None]}
  /\ certs \in IF Platform \in applied /\ columns # NewColumns
               THEN [Users -> {None, Null}] ELSE {[u \in Users |-> None]}

Goto(here, next) == pc = here /\ pc' = next

-----------------------------------------------------------------------------
(* config.Load.  One setting at a time is not the default, for validate     *)
(* looks at each alone; the operator may have changed it since the last    *)
(* start.                                                                  *)
LoadConfig ==
  /\ \/ Goto("load", "open") /\ config' \in Accepted
     \/ Refused # {} /\ pc = "load" /\ UNCHANGED pc /\ config' = BadConfig
  /\ UNCHANGED <<db, files, held, socket, history>>

-----------------------------------------------------------------------------
(* Key files.  A file that is there is used, never written again.          *)
Truncate(f) == files' = [files EXCEPT ![f] = Torn]
Fill(f, content) == files' = [files EXCEPT ![f] = content]

\* Faulty variant: a failure to write the file is not noticed.
LoadIdentityUnwritten ==
  \/ /\ Whole("identity") /\ Goto("open", "migrate")
     /\ held' = files["identity"] /\ UNCHANGED <<files, keys>>
  \/ /\ files["identity"] = Missing /\ Goto("open", "identity")
     /\ Truncate("identity") /\ UNCHANGED <<held, keys>>
  \/ /\ Goto("identity", "migrate") /\ keys' = keys + 1
     /\ UNCHANGED files /\ held' = keys'

\* loadOrCreateAgeIdentity, called by Open.
LoadIdentity ==
  \/ /\ Whole("identity") /\ Goto("open", "migrate")
     /\ held' = files["identity"] /\ UNCHANGED <<files, keys>>
  \/ /\ files["identity"] = Missing /\ Goto("open", "identity")
     /\ Truncate("identity") /\ UNCHANGED <<held, keys>>
  \/ /\ Goto("identity", "migrate") /\ keys' = keys + 1
     /\ Fill("identity", keys') /\ held' = keys'

Open ==
  /\ LoadIdentity
  /\ UNCHANGED <<config, db, socket, crashes, losses, cut, unfilled>>

-----------------------------------------------------------------------------
(* Migrate: what one file says and its record are one transaction, which   *)
(* fails where the statements were applied before.                         *)
FirstPending == CHOOSE v \in Versions \ applied : \A w \in Versions \ applied : v <= w

\* Faulty variant: the record is read and written outside the transaction.
ApplyLoosely ==
  LET v == FirstPending IN
  /\ v \notin schema /\ schema' = schema \cup {v}
  /\ columns' = IF v = Platform THEN NewColumns ELSE columns
  /\ applied' \in {applied, applied \cup {v}}

Apply ==
  LET v == FirstPending IN
  /\ v \notin schema /\ schema' = schema \cup {v} /\ applied' = applied \cup {v}
  /\ columns' = IF v = Platform THEN NewColumns ELSE columns

Migrate ==
  /\ \/ /\ Versions \subseteq applied /\ Goto("migrate", "outbox")
        /\ UNCHANGED <<schema, applied, columns>>
     \/ /\ ~(Versions \subseteq applied) /\ pc = "migrate" /\ UNCHANGED pc
        /\ Apply
  /\ UNCHANGED <<config, secrets, links, certs, files, held, socket, history>>

-----------------------------------------------------------------------------
(* repairV02Schema: a column that is missing is added and then filled; one  *)
(* that is there is taken to be filled.                                    *)

HasColumn(c) == c \in columns

\* Faulty variant: the column is added, and what is there not filled in.
RepairOutboxUnfilled ==
  /\ Goto("outbox", "certs") /\ columns' = columns \cup {"webhook_id"}
  /\ UNCHANGED <<config, schema, applied, secrets, links, certs, files, held, socket, history>>

\* The webhook each row's id names is there, as the foreign key demands.
Linkable == \A h \in Hooks : links[h] = Null => secrets[h] # None

RepairOutbox ==
  /\ \/ /\ HasColumn("webhook_id") /\ Goto("outbox", "certs") /\ UNCHANGED <<columns, links>>
     \/ /\ ~HasColumn("webhook_id") /\ Goto("outbox", "fill outbox")
        /\ columns' = columns \cup {"webhook_id"} /\ UNCHANGED links
     \/ /\ Linkable /\ Goto("fill outbox", "certs") /\ UNCHANGED columns
        /\ links' = [h \in Hooks |-> IF links[h] = Null THEN h ELSE links[h]]
  /\ UNCHANGED <<config, schema, applied, secrets, certs, files, held, socket, history>>

RepairCerts ==
  /\ \/ /\ HasColumn("encrypted_cert_pem") /\ Goto("certs", "encrypt secrets")
        /\ UNCHANGED <<columns, certs>>
     \/ /\ ~HasColumn("encrypted_cert_pem")
        /\ Goto("certs", IF HasColumn("cert_pem") THEN "fill certs" ELSE "encrypt secrets")
        /\ columns' = columns \cup {"encrypted_cert_pem"} /\ UNCHANGED certs
     \/ /\ Goto("fill certs", "encrypt secrets") /\ UNCHANGED columns
        /\ certs' = [u \in Users |-> IF certs[u] = Null THEN Plain ELSE certs[u]]
  /\ UNCHANGED <<config, schema, applied, secrets, links, files, held, socket, history>>

-----------------------------------------------------------------------------
(* encryptLegacyWebhookSecrets and encryptLegacyIncusUserCerts: what is     *)
(* encrypted must decrypt, and nothing may be null; the plain rows are     *)
(* then updated one by one.                                                *)
Readable(rows) == \A x \in DOMAIN rows : rows[x] \in {None, Plain, held}

\* Faulty variant: what looks encrypted is left alone.
EncryptUnvalidated(rows, here, next) ==
  /\ \A x \in DOMAIN rows : rows[x] # Null
  /\ IF \E x \in DOMAIN rows : rows[x] = Plain
     THEN /\ pc = here /\ UNCHANGED pc
          /\ \E x \in DOMAIN rows : rows[x] = Plain /\ rows' = [rows EXCEPT ![x] = held]
     ELSE Goto(here, next) /\ UNCHANGED rows

Encrypt(rows, here, next) ==
  /\ Readable(rows)
  /\ IF \E x \in DOMAIN rows : rows[x] = Plain
     THEN /\ pc = here /\ UNCHANGED pc
          /\ \E x \in DOMAIN rows : rows[x] = Plain /\ rows' = [rows EXCEPT ![x] = held]
     ELSE Goto(here, next) /\ UNCHANGED rows

EncryptSecrets ==
  /\ Encrypt(secrets, "encrypt secrets", "encrypt certs")
  /\ UNCHANGED <<config, schema, applied, columns, links, certs, files, held, socket, history>>

EncryptCerts ==
  /\ Encrypt(certs, "encrypt certs", "ca")
  /\ UNCHANGED <<config, schema, applied, columns, secrets, links, files, held, socket, history>>

-----------------------------------------------------------------------------
(* loadRuntimeSecrets.                                                      *)

\* Faulty variant: a CA is created where either file is missing.
NoCAEither == Missing \in {files["caKey"], files["caCert"]}

\* readStoredCertificateAuthorityFiles: one file without the other is an error.
NoCA == files["caKey"] = Missing /\ files["caCert"] = Missing

\* A key and the certificate it signs for itself.
NewInternalCertificateAuthority == keys' = keys + 1

\* The encrypted key is written, then the certificate.
CreateCA ==
  \/ NoCA /\ Goto("ca", "ca key") /\ Truncate("caKey") /\ UNCHANGED keys
  \/ /\ Goto("ca key", "ca cert") /\ NewInternalCertificateAuthority
     /\ Fill("caKey", [to |-> held, ca |-> keys'])
  \/ /\ files["caCert"] = Missing /\ pc = "ca cert" /\ UNCHANGED <<pc, keys>>
     /\ Truncate("caCert")
  \/ /\ files["caCert"] = Torn /\ Goto("ca cert", "jwt")
     /\ Fill("caCert", files["caKey"].ca) /\ UNCHANGED keys

\* Both are there: the key must decrypt, and both must parse.
CAStored == Whole("caKey") /\ Whole("caCert") /\ files["caKey"].to = held
LoadCA == CAStored /\ Goto("ca", "jwt") /\ UNCHANGED <<files, keys>>

LoadOrCreateCertificateAuthority ==
  /\ LoadCA \/ CreateCA
  /\ UNCHANGED <<config, db, held, socket, crashes, losses, cut, unfilled>>

NewJWTSigner == keys' = keys + 1

LoadOrCreateJWTSigner ==
  /\ \/ Whole("jwt") /\ Goto("jwt", "listen") /\ UNCHANGED <<files, keys>>
     \/ files["jwt"] = Missing /\ Goto("jwt", "jwt key") /\ Truncate("jwt") /\ UNCHANGED keys
     \/ Goto("jwt key", "listen") /\ NewJWTSigner /\ Fill("jwt", keys')
  /\ UNCHANGED <<config, db, held, socket, crashes, losses, cut, unfilled>>

loadRuntimeSecrets == LoadOrCreateCertificateAuthority \/ LoadOrCreateJWTSigner

-----------------------------------------------------------------------------
(* The socket.                                                             *)

\* Faulty variant: a socket file that is there is not removed, and bind fails.
newSocketListenerBinding ==
  /\ Goto("listen", "serving") /\ ~socket /\ config.SocketGroup # "unknown" /\ socket' = TRUE
  /\ UNCHANGED <<config, db, files, held, history>>

\* A group that is not there is noticed after the bind, and closing the
\* listener takes the socket away.
newSocketListener ==
  /\ pc = "listen"
  /\ IF socket THEN UNCHANGED <<pc, config, held>> /\ socket' = FALSE
     ELSE IF config.SocketGroup = "unknown"
          THEN Goto("listen", "load") /\ config' = BadConfig /\ held' = 0 /\ UNCHANGED socket
          ELSE Goto("listen", "serving") /\ UNCHANGED <<config, held>> /\ socket' = TRUE
  /\ UNCHANGED <<db, files, history>>

\* Requests and events add rows while the daemon serves.
Serve ==
  /\ pc = "serving"
  /\ \/ \E h \in Hooks : /\ secrets[h] = None /\ secrets' = [secrets EXCEPT ![h] = held]
                         /\ UNCHANGED <<links, certs>>
     \/ \E h \in Hooks : /\ secrets[h] # None /\ links[h] = None /\ links' = [links EXCEPT ![h] = h]
                         /\ UNCHANGED <<secrets, certs>>
     \/ \E u \in Users : /\ certs' = [certs EXCEPT ![u] = held]
                         /\ UNCHANGED <<secrets, links>>
  /\ UNCHANGED <<config, pc, schema, applied, columns, files, held, socket, history>>

\* hellingd stops, or a call of run fails and it returns: either leaves what
\* the calls before did, and systemd starts it again.
Crash ==
  /\ crashes < MaxCrashes /\ crashes' = crashes + 1
  /\ cut' = (cut \/ pc \in {"identity", "fill certs", "ca key", "ca cert", "jwt key"})
  /\ unfilled' = (unfilled \/ pc = "fill outbox")
  /\ pc' = "load" /\ config' = NoConfig /\ held' = 0
  /\ UNCHANGED <<db, files, socket, keys, losses>>

\* run returns an error because of what it finds.
Refuse ==
  /\ \/ pc = "fill outbox" /\ ~Linkable
     \/ pc = "encrypt secrets" /\ ~Readable(secrets)
     \/ pc = "encrypt certs" /\ ~Readable(certs)
     \/ pc = "ca" /\ ~CAStored /\ ~NoCA
     \/ pc = "jwt" /\ files["jwt"] = Torn
  /\ unfilled' = (unfilled \/ pc = "fill outbox")
  /\ pc' = "load" /\ config' = NoConfig /\ held' = 0
  /\ UNCHANGED <<db, files, socket, keys, crashes, losses, cut>>

\* SIGTERM: the listener takes its socket away; the operator starts it again.
Stop ==
  /\ Goto("serving", "load") /\ config' = NoConfig /\ held' = 0 /\ socket' = FALSE
  /\ UNCHANGED <<db, files, history>>

\* The operator restores the machine without one of the files.
Lose ==
  /\ pc = "load" /\ losses < MaxLosses /\ losses' = losses + 1
  /\ \E f \in Files : files[f] # Missing /\ files' = [files EXCEPT ![f] = Missing]
  /\ UNCHANGED <<config, pc, db, held, socket, keys, crashes, cut, unfilled>>

Step ==
  \/ LoadConfig \/ Open \/ Migrate \/ RepairOutbox \/ RepairCerts \/ EncryptSecrets \/ EncryptCerts
  \/ loadRuntimeSecrets \/ newSocketListener

Next == Step \/ Refuse \/ Serve \/ Stop \/ Crash \/ Lose

\* run goes on, and systemd restarts it (Restart=on-failure): no step waits.
Spec == Init /\ [][Next]_vars /\ WF_vars(Step) /\ WF_vars(Refuse)

-----------------------------------------------------------------------------
Steps == {"load", "open", "identity", "migrate", "outbox", "fill outbox", "certs", "fill certs",
          "encrypt secrets", "encrypt certs", "ca", "ca key", "ca cert", "jwt", "jwt key",
          "listen", "serving"}

TypeOK ==
  /\ pc \in Steps /\ socket \in BOOLEAN /\ cut \in BOOLEAN /\ unfilled \in BOOLEAN
  /\ applied = schema /\ \E v \in 0..8 : applied = 1..v
  /\ columns \subseteq NewColumns \cup {"cert_pem"}
  /\ secrets \in [Hooks -> {None, Plain} \cup 1..keys]
  /\ links \in [Hooks -> {None, Null, Nameless} \cup Hooks]
  /\ certs \in [Users -> {None, Null, Plain} \cup 1..keys]
  /\ \A f \in Files : Whole(f) =>
       files[f] \in IF f = "caKey" THEN [to : 1..keys, ca : 1..keys] ELSE 1..keys
  /\ held \in 0..keys /\ (held = 0 <=> pc \in {"load", "open", "identity"})
  /\ config \in {NoConfig, BadConfig} <=> pc = "load"
  /\ crashes \in 0..MaxCrashes /\ losses \in 0..MaxLosses

(* While the daemon serves, the webhook secrets and user certificates of    *)
(* its database and the key of its CA are encrypted to the identity it has *)
(* in memory: none is plain, none belongs to an identity that was lost,    *)
(* whatever an earlier start left.  Only what a start reads is meant: not  *)
(* totp_secrets.secret, which no code encrypts, nor the users' keys.        *)
ServedSecretsReadable ==
  pc = "serving" =>
    /\ \A h \in Hooks : secrets[h] \in {None, held}
    /\ \A u \in Users : certs[u] \in {None, held}
    /\ files["caKey"].to = held

(* The claim looks only for rows that name their webhook, so while the      *)
(* daemon serves every row does whose id tells it.  Rows are left that are *)
(* never claimed where a start stopped between the ALTER and the UPDATE of *)
(* the repair, or the UPDATE failed as one row's webhook was gone.         *)
OutboxRowsLinked ==
  pc = "serving" /\ ~unfilled =>
    Versions \subseteq applied /\ \A h \in Hooks : links[h] # Null

\* What no later start can mend.
Damaged ==
  \/ \E f \in Files : files[f] = Torn
  \/ Whole("caKey") # Whole("caCert")
  \/ /\ Whole("identity")
     /\ \/ Whole("caKey") /\ files["caKey"].to # files["identity"]
        \/ \E h \in Hooks : secrets[h] \notin {None, Plain, files["identity"]}
        \/ \E u \in Users : certs[u] \notin {None, Null, Plain, files["identity"]}
  \/ "encrypted_cert_pem" \in columns /\ \E u \in Users : certs[u] = Null

(* A start can be cut off anywhere but where a file or a column was added    *)
(* and is not filled, and between the two files of the CA: elsewhere the    *)
(* next start goes on, and the key files fit what is encrypted.             *)
DamageNeedsACut ==
  pc = "load" /\ Damaged => cut \/ losses > 0 \/ \E u \in Users : certs[u] = Null

(* A key that was written is used by every start from then on: none is      *)
(* replaced while its file is there, whatever else is missing.              *)
KeysKept ==
  [][losses' = losses => \A f \in Files : Whole(f) => files'[f] = files[f]]_vars

(* Whatever file and environment say, what the daemon serves with is what   *)
(* its parts can take: paths they open from anywhere, a socket for nobody  *)
(* but its user and group, Argon2 costs that survive their conversion to   *)
(* 8 and 32 bits, sessions of at most thirty days, and for users that are  *)
(* no administrators a way to Incus it can verify, or none.                *)
ServedWithinLimits ==
  pc = "serving" =>
    LET argon2 == argon2ParamsFromConfig(config)
        delegated == NewDelegatedIncusProxy(config) IN
    /\ \A p \in Paths \ {"StateDir", "JWTSigningKeyPath"} : config[p] = "absolute"
    /\ "others" \notin config.SocketMode /\ config.SocketGroup # "unknown"
    /\ argon2.Parallelism = config.Argon2Parallelism /\ argon2.Parallelism > 0
    /\ argon2.Time > 0 /\ argon2.MemoryKiB \in (8 * argon2.Parallelism)..(2^18)
    /\ delegated = NoProxy \/ (delegated.endpoint = "https" /\ delegated.rootCAs # "garbage")
    /\ config.SessionTTLHours \in 1..(30 * 24)

(* The daemon comes to serve after every stop and crash, or its directory   *)
(* is damaged for good, or it is given settings it refuses again and again. *)
ServesUnlessDamaged ==
  []<>(pc = "serving") \/ <>[]Damaged \/ []<>(config = BadConfig)

(* What starts leave: a daemon that serves can read the webhook secrets,    *)
(* user certificates and CA key it has, finds its outbox linked and itself *)
(* within limits, and one that is down finds what it can go on with, unless *)
(* it was cut off where the code cannot mend it.                           *)
StartsSoundly ==
  TypeOK /\ ServedSecretsReadable /\ OutboxRowsLinked /\ DamageNeedsACut /\ ServedWithinLimits
=============================================================================
