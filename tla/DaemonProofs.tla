----------------------------- MODULE DaemonProofs -----------------------------
(***************************************************************************)
(* hellingd's start and the poller it then runs.  A start goes on from     *)
(* whatever directory it finds and replaces no key; what it cannot mend    *)
(* comes of a cut between creating and filling, or of a file that was      *)
(* lost.  The poller's final status is Incus's own and stays: its write    *)
(* goes by id alone and may be late, and is safe because the poller is the *)
(* only writer of an active row.                                           *)
(***************************************************************************)
EXTENDS StartUp, OperationPoller, TLAPS

-----------------------------------------------------------------------------
(* The start: what holds between its steps.                                *)

\* Where a start is, once it has done what the names say.
Opened == Steps \ {"load", "open", "identity"}
Migrated == Opened \ {"migrate"}
Linked == Migrated \ {"outbox", "fill outbox"}
SecretsRead == Linked \ {"certs", "fill certs", "encrypt secrets"}
CertsRead == SecretsRead \ {"encrypt certs"}
Keyed == CertsRead \ {"ca", "ca key"}

\* What a start has established by its step, and which file it is writing.
PlaceInv ==
  /\ files = [f \in Files |-> files[f]] /\ keys \in Nat
  /\ pc = "identity" => files["identity"] = Torn
  /\ pc = "ca key" => files["caKey"] = Torn
  /\ pc \in {"ca key", "ca cert"} => ~Whole("caCert")
  /\ pc = "jwt key" => files["jwt"] = Torn
  /\ pc # "load" => config \in Accepted
  /\ pc \in Opened => files["identity"] = held
  /\ pc \in Migrated => Versions \subseteq applied
  /\ pc \in Linked \cup {"fill outbox"} => "webhook_id" \in columns
  /\ pc \in SecretsRead => \A h \in Hooks : secrets[h] \in {None, held}
  /\ pc \in CertsRead => \A u \in Users : certs[u] \in {None, held}
  /\ pc \in Keyed => Whole("caKey") /\ files["caKey"].to = held
  /\ pc = "serving" => config.SocketGroup # "unknown"

\* Rows of the outbox: what has no webhook's id had no column for it.
LinkInv ==
  /\ Platform \notin applied => \A h \in Hooks : links[h] = None
  /\ ~unfilled /\ "webhook_id" \in columns /\ pc # "fill outbox" => \A h \in Hooks : links[h] # Null

\* The file that a start is writing.
Writing == CASE pc = "identity" -> "identity" [] pc = "ca key" -> "caKey"
             [] pc = "ca cert" -> "caCert" [] pc = "jwt key" -> "jwt" [] OTHER -> "none"

\* What is encrypted belongs to the identity that is there.
Fits ==
  IF Whole("identity")
  THEN /\ Whole("caKey") => files["caKey"].to = files["identity"]
       /\ \A h \in Hooks : secrets[h] \in {None, Plain, files["identity"]}
       /\ \A u \in Users : certs[u] \in {None, Null, Plain, files["identity"]}
  ELSE /\ ~Whole("caKey")
       /\ \A h \in Hooks : secrets[h] \in {None, Plain}
       /\ \A u \in Users : certs[u] \in {None, Null, Plain}

\* As long as no start was cut off where it matters and no file was lost.
KeyInv ==
  /\ ~cut => \A f \in Files : files[f] = Torn => f = Writing
  /\ ~cut /\ losses = 0 => Fits /\ (pc # "ca cert" => (Whole("caKey") <=> Whole("caCert")))

StartInv == TypeOK /\ PlaceInv /\ LinkInv /\ KeyInv

-----------------------------------------------------------------------------
(* Configuration.                                                          *)

LEMMA AcceptedValid ==
  ASSUME NEW cfg \in Accepted
  PROVE  Valid(cfg)
  BY DEF Accepted, Refused, Accepts

\* What validate bounds the memory of Argon2 by.
MemoryLow == 8 * 1024
MemoryHigh == 256 * 1024

LEMMA MemoryBounds ==
  /\ MemoryLow \in Nat /\ MemoryLow >= 64
  /\ MemoryHigh \in Nat /\ MemoryHigh = 2^18
  <1>1. MemoryLow = 8192
    BY SMT DEF MemoryLow
  <1>2. MemoryHigh = 262144 /\ 2^18 = 262144
    BY SMT DEF MemoryHigh
  <1> QED BY <1>1, <1>2, SMT

LEMMA Argon2Ranges ==
  ASSUME NEW cfg, AuthValid(cfg)
  PROVE  /\ cfg.Argon2Parallelism \in 1..8
         /\ cfg.Argon2TimeCost \in 1..10
         /\ cfg.Argon2MemoryKiB \in MemoryLow..MemoryHigh
  <1>1. /\ "Argon2Parallelism" \in DOMAIN AuthNumbers
        /\ "Argon2TimeCost" \in DOMAIN AuthNumbers
        /\ "Argon2MemoryKiB" \in DOMAIN AuthNumbers
    BY SMT DEF AuthNumbers
  <1>2. /\ AuthNumbers["Argon2Parallelism"] = 1..8
        /\ AuthNumbers["Argon2TimeCost"] = 1..10
        /\ AuthNumbers["Argon2MemoryKiB"] = MemoryLow..MemoryHigh
    BY SMT DEF AuthNumbers, MemoryLow, MemoryHigh
  <1>3. /\ cfg["Argon2Parallelism"] \in AuthNumbers["Argon2Parallelism"]
        /\ cfg["Argon2TimeCost"] \in AuthNumbers["Argon2TimeCost"]
        /\ cfg["Argon2MemoryKiB"] \in AuthNumbers["Argon2MemoryKiB"]
    BY <1>1, Zenon DEF AuthValid
  <1> QED BY <1>2, <1>3, Zenon

\* The conversion to 8 bits changes no accepted parallelism.
LEMMA Narrowed ==
  ASSUME NEW n \in 1..8
  PROVE  n % 2^8 = n
  <1>1. n % 256 = n
    BY SMT
  <1>2. 2^8 = 256
    BY SMT
  <1> DEFINE width == 2^8
  <1>3. width = 256
    BY <1>2
  <1> HIDE DEF width
  <1>4. n % width = n
    BY <1>1, <1>3, SMT
  <1> QED BY <1>4 DEF width

LEMMA Argon2Limits ==
  ASSUME NEW cfg, AuthValid(cfg), NEW argon2, argon2 = argon2ParamsFromConfig(cfg)
  PROVE  /\ argon2.Parallelism = cfg.Argon2Parallelism /\ argon2.Parallelism > 0
         /\ argon2.Time > 0 /\ argon2.MemoryKiB \in (8 * argon2.Parallelism)..(2^18)
  <1>1. cfg.Argon2Parallelism % 2^8 = cfg.Argon2Parallelism
    BY Argon2Ranges, Narrowed
  <1>2. /\ argon2.Time = cfg.Argon2TimeCost
        /\ argon2.MemoryKiB = cfg.Argon2MemoryKiB
        /\ argon2.Parallelism = cfg.Argon2Parallelism
    BY <1>1, Zenon DEF argon2ParamsFromConfig
  <1>3. PICK p \in 1..8, t \in 1..10, m \in MemoryLow..MemoryHigh :
          cfg.Argon2Parallelism = p /\ cfg.Argon2TimeCost = t /\ cfg.Argon2MemoryKiB = m
    BY Argon2Ranges
  <1>4. m \in (8 * p)..(2^18) /\ p > 0 /\ t > 0
    BY MemoryBounds, SMT
  <1> QED BY <1>2, <1>3, <1>4, Zenon

\* A proxy for users that are no administrators verifies Incus.
LEMMA DelegatedVerified ==
  ASSUME NEW cfg, NEW delegated, delegated = NewDelegatedIncusProxy(cfg)
  PROVE  delegated = NoProxy \/ (delegated.endpoint = "https" /\ delegated.rootCAs # "garbage")
  <1> DEFINE endpoint == IF cfg.HTTPSEndpoint = "" THEN "https" ELSE cfg.HTTPSEndpoint
             rootCAs == IF cfg.CACertPath = "" THEN "system" ELSE cfg.CACertPath
  <1>1. CASE endpoint # "https" \/ (cfg.CACertPath # "" /\ cfg.CACertPath # "certificates")
    BY <1>1 DEF NewDelegatedIncusProxy, loadCertPool
  <1>2. CASE endpoint = "https" /\ (cfg.CACertPath = "" \/ cfg.CACertPath = "certificates")
    <2>1. delegated = [endpoint |-> "https", rootCAs |-> rootCAs]
      BY <1>2 DEF NewDelegatedIncusProxy, loadCertPool
    <2>2. rootCAs # "garbage"
      BY <1>2
    <2> HIDE DEF rootCAs
    <2> QED BY <2>1, <2>2
  <1> QED BY <1>1, <1>2

\* What validate lets pass, with a group that is there, is within every limit.
LEMMA AcceptedWithinLimits ==
  ASSUME NEW cfg \in Accepted, cfg.SocketGroup # "unknown", config = cfg
  PROVE  ServedWithinLimits
  <1>1. Valid(cfg) /\ AuthValid(cfg) /\ IncusValid(cfg)
    BY AcceptedValid DEF Valid
  <1>2. \A p \in Paths \ {"StateDir", "JWTSigningKeyPath"} : cfg[p] = "absolute"
    BY <1>1 DEF Paths, Valid, AuthValid, IncusValid
  <1>3. "others" \notin cfg.SocketMode
    BY <1>1 DEF Valid, UserAndGroup
  <1>4. PICK argon2 : argon2 = argon2ParamsFromConfig(cfg)
    OBVIOUS
  <1>5. PICK delegated : delegated = NewDelegatedIncusProxy(cfg)
    OBVIOUS
  <1>6. cfg.SessionTTLHours \in 1..(30 * 24)
    <2>1. cfg.SessionTTLHours \in 1..(24 * 30)
      BY <1>1, Zenon DEF Valid, maxSessionTTLHours
    <2>2. 24 * 30 = 30 * 24
      BY SMT
    <2> QED BY <2>1, <2>2, Zenon
  <1>7. /\ argon2.Parallelism = cfg.Argon2Parallelism /\ argon2.Parallelism > 0
        /\ argon2.Time > 0 /\ argon2.MemoryKiB \in (8 * argon2.Parallelism)..(2^18)
    BY <1>1, <1>4, Argon2Limits, Zenon
  <1>8. delegated = NoProxy \/ (delegated.endpoint = "https" /\ delegated.rootCAs # "garbage")
    BY <1>5, DelegatedVerified, Zenon
  <1> QED BY <1>2, <1>3, <1>4, <1>5, <1>6, <1>7, <1>8, Zenon DEF ServedWithinLimits

-----------------------------------------------------------------------------
(* One action at a time.                                                   *)

LEMMA StartInit == Init => StartInv
  <1> SUFFICES ASSUME Init PROVE StartInv
    OBVIOUS
  <1>1. PICK v \in 0..8 : schema = 1..v /\ applied = 1..v
    BY DEF Init
  <1>2. /\ pc = "load" /\ config = NoConfig /\ held = 0 /\ socket \in BOOLEAN /\ keys = 0
        /\ crashes = 0 /\ losses = 0 /\ cut = FALSE /\ unfilled = FALSE /\ files = [f \in Files |-> Missing]
    BY DEF Init
  <1>3. \A f \in Files : ~Whole(f) /\ files[f] # Torn
    BY <1>2, StartUpAssumption DEF Whole
  <1>4. columns \subseteq NewColumns \cup {"cert_pem"}
    BY Zenon DEF Init, NewColumns
  <1>5. "webhook_id" \in columns => columns = NewColumns
    BY DEF Init, NewColumns
  <1>6. secrets \in [Hooks -> {None, Plain}]
    BY DEF Init
  <1>7. links \in [Hooks -> {None, Null, Nameless}] /\ (columns = NewColumns \/ Platform \notin applied => \A h \in Hooks : links[h] = None)
    BY DEF Init
  <1>8. certs \in [Users -> {None, Null}]
    BY DEF Init
  <1>9. TypeOK
    <2>5. socket \in BOOLEAN /\ cut \in BOOLEAN /\ unfilled \in BOOLEAN
      BY <1>2
    <2>1. /\ pc \in Steps
          /\ held \in 0..keys /\ (held = 0 <=> pc \in {"load", "open", "identity"})
          /\ config \in {NoConfig, BadConfig} <=> pc = "load"
      BY <1>2 DEF Steps
    <2>2. crashes \in 0..MaxCrashes /\ losses \in 0..MaxLosses
      BY <1>2, StartUpAssumption
    <2>3. /\ secrets \in [Hooks -> {None, Plain} \cup 1..keys]
          /\ links \in [Hooks -> {None, Null, Nameless} \cup Hooks]
          /\ certs \in [Users -> {None, Null, Plain} \cup 1..keys]
      BY <1>6, <1>7, <1>8
    <2>4. applied = schema /\ \E w \in 0..8 : applied = 1..w
      BY <1>1
    <2> QED BY <1>3, <1>4, <2>1, <2>2, <2>3, <2>4, <2>5 DEF TypeOK
  <1>10. PlaceInv
    BY <1>2 DEF PlaceInv, Opened, Migrated, Linked, SecretsRead, CertsRead, Keyed
  <1>11. LinkInv
    BY <1>5, <1>7, StartUpAssumption DEF LinkInv
  <1>12. KeyInv
    <2>1. Fits
      BY <1>3, <1>6, <1>8 DEF Fits, Files
    <2> QED BY <1>3, <2>1 DEF KeyInv, Files
  <1> QED BY <1>9, <1>10, <1>11, <1>12 DEF StartInv

LEMMA LoadConfigStep ==
  ASSUME StartInv, LoadConfig
  PROVE  StartInv'
  <1>1. /\ pc = "load"
        /\ \/ pc' = "open" /\ config' \in Accepted
           \/ pc' = "load" /\ config' = BadConfig
        /\ UNCHANGED <<schema, applied, columns, secrets, links, certs, files, held, socket,
                       keys, crashes, losses, cut, unfilled>>
    BY DEF LoadConfig, Goto, db, history
  <1>2. TypeOK'
    <2>1. pc' \in Steps /\ (held' = 0 <=> pc' \in {"load", "open", "identity"})
      BY <1>1 DEF StartInv, TypeOK, Steps
    <2>2. config' \in {NoConfig, BadConfig} <=> pc' = "load"
      BY <1>1, StartUpAssumption
    <2> QED BY <1>1, <2>1, <2>2 DEF StartInv, TypeOK, Whole
  <1>3. PlaceInv'
    BY <1>1 DEF StartInv, PlaceInv, Whole, Opened, Migrated, Linked, SecretsRead, CertsRead, Keyed
  <1>4. LinkInv'
    BY <1>1 DEF StartInv, LinkInv
  <1>5. KeyInv'
    BY <1>1 DEF StartInv, KeyInv, Fits, Writing, Whole
  <1> QED BY <1>2, <1>3, <1>4, <1>5 DEF StartInv

\* Writing one key file leaves the others.
LEMMA FileWritten ==
  ASSUME PlaceInv, NEW f \in Files, NEW x, files' = [files EXCEPT ![f] = x]
  PROVE  /\ files' = [g \in Files |-> files'[g]]
         /\ files'[f] = x /\ \A g \in Files \ {f} : files'[g] = files[g]
  BY DEF PlaceInv

\* A key that was generated is neither of the marks of a file without one.
LEMMA NoMark ==
  ASSUME NEW n \in Nat
  PROVE  n # Missing /\ n # Torn /\ \A m \in Nat : LET r == [to |-> n, ca |-> m] IN r # Missing /\ r # Torn
  BY StartUpAssumption

LEMMA NewKey ==
  ASSUME keys \in Nat, keys' = keys + 1
  PROVE  /\ keys' \in Nat /\ keys' # 0 /\ keys' \in 1..keys' /\ 1..keys \subseteq 1..keys'
         /\ 1..keys \subseteq 0..keys' /\ keys' # Missing /\ keys' # Torn
  <1>1. keys' \in Nat /\ keys' # 0 /\ keys' \in 1..keys'
    OBVIOUS
  <1>2. 1..keys \subseteq 1..keys'
    OBVIOUS
  <1>3. 1..keys \subseteq 0..keys'
    OBVIOUS
  <1> QED BY <1>1, <1>2, <1>3, NoMark

LEMMA OpenStep ==
  ASSUME StartInv, Open
  PROVE  StartInv'
  <1> USE DEF StartInv
  <1>1. UNCHANGED <<config, schema, applied, columns, secrets, links, certs, socket, crashes, losses, cut, unfilled>>
    BY DEF Open, db
  <1>f. "identity" \in Files
    BY DEF Files
  <1>2. CASE /\ Whole("identity") /\ Goto("open", "migrate")
             /\ held' = files["identity"] /\ UNCHANGED <<files, keys>>
    <2>1. held' \in 1..keys
      BY <1>2, <1>f DEF TypeOK
    <2>2. TypeOK'
      <3>1. pc' \in Steps /\ (held' = 0 <=> pc' \in {"load", "open",
      "identity"}) /\ held' \in 0..keys'
        BY <1>2, <2>1 DEF TypeOK, Steps, Goto, PlaceInv
      <3> QED BY <1>1, <1>2, <3>1 DEF TypeOK, Whole, Goto
    <2>3. PlaceInv'
      BY <1>1, <1>2 DEF PlaceInv, Whole, Goto, Opened, Migrated, Linked, SecretsRead, CertsRead,
         Keyed
    <2>4. LinkInv'
      BY <1>1, <1>2 DEF LinkInv, Goto
    <2>5. KeyInv'
      BY <1>1, <1>2 DEF KeyInv, Fits, Writing, Whole, Goto
    <2> QED BY <2>2, <2>3, <2>4, <2>5
  <1>3. CASE /\ files["identity"] = Missing /\ Goto("open", "identity")
             /\ Truncate("identity") /\ UNCHANGED <<held, keys>>
    <2>1. /\ files' = [g \in Files |-> files'[g]]
          /\ files'["identity"] = Torn /\ \A g \in Files \ {"identity"} : files'[g] = files[g]
      BY <1>3, <1>f, FileWritten DEF Truncate
    <2>2. TypeOK'
      <3>1. pc' \in Steps /\ (held' = 0 <=> pc' \in {"load", "open", "identity"})
        BY <1>3 DEF TypeOK, Steps, Goto
      <3> QED BY <1>1, <1>3, <2>1, <3>1 DEF TypeOK, Whole, Goto
    <2>3. PlaceInv'
      BY <1>1, <1>3, <2>1 DEF PlaceInv, Whole, Goto, Opened, Migrated, Linked, SecretsRead,
         CertsRead, Keyed
    <2>4. LinkInv'
      BY <1>1, <1>3 DEF LinkInv, Goto
    <2>5. KeyInv'
      BY <1>1, <1>3, <2>1 DEF KeyInv, Fits, Writing, Whole, Goto, Files
    <2> QED BY <2>2, <2>3, <2>4, <2>5
  <1>4. CASE /\ Goto("identity", "migrate") /\ keys' = keys + 1
             /\ Fill("identity", keys') /\ held' = keys'
    <2>1. /\ files' = [g \in Files |-> files'[g]]
          /\ files'["identity"] = keys' /\ \A g \in Files \ {"identity"} : files'[g] = files[g]
      BY <1>4, <1>f, FileWritten DEF Fill
    <2>2. /\ keys' \in Nat /\ keys' # 0 /\ keys' \in 1..keys' /\ 1..keys \subseteq 1..keys'
          /\ keys' # Missing /\ keys' # Torn
      BY <1>4, NewKey DEF PlaceInv
    <2>4. TypeOK'
      <3>1. pc' \in Steps /\ (held' = 0 <=> pc' \in {"load", "open",
      "identity"}) /\ held' \in 0..keys'
        BY <1>4, <2>2 DEF Steps, Goto
      <3>2. /\ secrets' \in [Hooks -> {None, Plain} \cup 1..keys']
            /\ certs' \in [Users -> {None, Null, Plain} \cup 1..keys']
        BY <1>1, <2>2 DEF TypeOK
      <3>3. \A f \in Files : Whole(f)' =>
              files'[f] \in IF f = "caKey" THEN [to : 1..keys', ca : 1..keys'] ELSE 1..keys'
        BY <2>1, <2>2 DEF TypeOK, Whole
      <3> QED BY <1>1, <1>4, <3>1, <3>2, <3>3 DEF TypeOK, Goto
    <2>5. PlaceInv'
      BY <1>1, <1>4, <2>1, <2>2 DEF PlaceInv, Whole, Goto, Opened, Migrated, Linked, SecretsRead,
         CertsRead, Keyed
    <2>6. LinkInv'
      BY <1>1, <1>4 DEF LinkInv, Goto
    <2>7. ~Whole("identity")
      BY <1>4 DEF PlaceInv, Goto, Whole
    <2>8. KeyInv'
      BY <1>1, <1>4, <2>1, <2>2, <2>7 DEF KeyInv, Fits, Writing, Whole, Goto, Files
    <2> QED BY <2>4, <2>5, <2>6, <2>8
  <1> QED BY <1>2, <1>3, <1>4 DEF Open, LoadIdentity

\* Migrations are applied in the order of their numbers.
LEMMA PendingIsNext ==
  ASSUME NEW v \in 0..8, applied = 1..v, ~(Versions \subseteq applied)
  PROVE  v < 8 /\ FirstPending = v + 1
  <1>1. v < 8
    BY DEF Versions
  <1>2. v + 1 \in Versions \ applied /\ \A w \in Versions \ applied : v + 1 <= w
    BY <1>1 DEF Versions
  <1>3. \A u \in Versions \ applied : (\A w \in Versions \ applied : u <= w) => u = v + 1
    BY <1>2 DEF Versions
  <1> QED BY <1>1, <1>2, <1>3 DEF FirstPending

LEMMA MigrateStep ==
  ASSUME StartInv, Migrate
  PROVE  StartInv'
  <1> USE DEF StartInv
  <1>1. /\ UNCHANGED <<config, secrets, links, certs, files, held, socket, keys, crashes, losses, cut, unfilled>>
        /\ pc = "migrate"
    BY DEF Migrate, history, Goto
  <1>2. CASE Versions \subseteq applied /\ Goto("migrate", "outbox") /\ UNCHANGED <<schema, applied, columns>>
    <2>1. TypeOK'
      <3>1. pc' \in Steps /\ (held' = 0 <=> pc' \in {"load", "open", "identity"})
        BY <1>1, <1>2 DEF TypeOK, Steps, Goto
      <3> QED BY <1>1, <1>2, <3>1 DEF TypeOK, Whole, Goto
    <2>2. PlaceInv'
      BY <1>1, <1>2 DEF PlaceInv, Whole, Goto, Steps, Opened, Migrated, Linked, SecretsRead,
         CertsRead, Keyed
    <2>3. LinkInv'
      BY <1>1, <1>2 DEF LinkInv, Goto
    <2>4. KeyInv'
      BY <1>1, <1>2 DEF KeyInv, Fits, Writing, Whole, Goto
    <2> QED BY <2>1, <2>2, <2>3, <2>4
  <1>3. CASE ~(Versions \subseteq applied) /\ UNCHANGED pc /\ Apply
    <2>1. PICK v \in 0..8 : applied = 1..v /\ schema = 1..v
      BY DEF TypeOK
    <2>2. v < 8 /\ FirstPending = v + 1
      BY <1>3, <2>1, PendingIsNext
    <2>3. schema' = 1..(v + 1) /\ applied' = 1..(v + 1) /\ v + 1 \in 0..8
      BY <1>3, <2>1, <2>2 DEF Apply
    <2>4. columns' = IF v + 1 = Platform THEN NewColumns ELSE columns
      BY <1>3, <2>2 DEF Apply
    <2>5. TypeOK'
      <3>1. columns' \subseteq NewColumns \cup {"cert_pem"}
        BY <2>4 DEF TypeOK
      <3>2. applied' = schema' /\ \E w \in 0..8 : applied' = 1..w
        BY <2>3
      <3> QED BY <1>1, <1>3, <3>1, <3>2 DEF TypeOK, Whole
    <2>6. PlaceInv'
      BY <1>1, <1>3 DEF PlaceInv, Whole, Steps, Opened, Migrated, Linked, SecretsRead, CertsRead,
         Keyed
    <2>7. LinkInv'
      <3>1. Platform \notin applied' => Platform \notin applied
        BY <2>1, <2>2, <2>3
      <3>2. v + 1 = Platform => Platform \notin applied
        BY <2>1
      <3> QED BY <1>1, <1>3, <2>4, <3>1, <3>2, StartUpAssumption DEF LinkInv
    <2>8. KeyInv'
      BY <1>1, <1>3 DEF KeyInv, Fits, Writing, Whole
    <2> QED BY <2>5, <2>6, <2>7, <2>8
  <1> QED BY <1>1, <1>2, <1>3 DEF Migrate

\* A repair that goes on, or adds its column and fills it.
LEMMA RepairOutboxStep ==
  ASSUME StartInv, RepairOutbox
  PROVE  StartInv'
  <1> USE DEF StartInv
  <1>1. /\ UNCHANGED <<config, schema, applied, secrets, certs, files, held, socket, keys, crashes, losses, cut, unfilled>>
        /\ columns' \in {columns, columns \cup {"webhook_id"}}
        /\ pc \in {"outbox", "fill outbox"} /\ pc' \in {"fill outbox", "certs"}
    BY DEF RepairOutbox, history, Goto
  <1>2. TypeOK'
    <2>1. pc' \in Steps /\ (held' = 0 <=> pc' \in {"load", "open", "identity"})
      BY <1>1 DEF TypeOK, Steps
    <2>2. links' \in [Hooks -> {None, Null, Nameless} \cup Hooks]
      BY DEF RepairOutbox, TypeOK
    <2>3. columns' \subseteq NewColumns \cup {"cert_pem"}
      BY <1>1 DEF TypeOK, NewColumns
    <2> QED BY <1>1, <2>1, <2>2, <2>3 DEF TypeOK, Whole
  <1>3. PlaceInv'
    <2>1. pc' \in Linked \cup {"fill outbox"} => "webhook_id" \in columns'
      BY DEF RepairOutbox, PlaceInv, Goto, HasColumn
    <2> QED BY <1>1, <2>1 DEF PlaceInv, Whole, Steps, Opened, Migrated, Linked, SecretsRead,
    CertsRead, Keyed
  <1>4. LinkInv'
    <2>1. Platform \notin applied => \A h \in Hooks : links'[h] = None
      BY StartUpAssumption DEF RepairOutbox, LinkInv, TypeOK
    <2>2. pc' # "fill outbox" /\ "webhook_id" \in columns' /\ ~unfilled => \A h \in Hooks : links'[h] # Null
      BY StartUpAssumption DEF RepairOutbox, LinkInv, Goto, HasColumn, TypeOK
    <2> QED BY <1>1, <2>1, <2>2 DEF LinkInv
  <1>5. KeyInv'
    BY <1>1 DEF KeyInv, Fits, Writing, Whole
  <1> QED BY <1>2, <1>3, <1>4, <1>5

LEMMA RepairCertsStep ==
  ASSUME StartInv, RepairCerts
  PROVE  StartInv'
  <1> USE DEF StartInv
  <1>1. /\ UNCHANGED <<config, schema, applied, secrets, links, files, held, socket, keys, crashes, losses, cut, unfilled>>
        /\ columns' \in {columns, columns \cup {"encrypted_cert_pem"}}
        /\ pc \in {"certs", "fill certs"} /\ pc' \in {"fill certs", "encrypt secrets"}
    BY DEF RepairCerts, history, Goto
  <1>2. /\ certs' \in [Users -> {None, Null, Plain} \cup 1..keys]
        /\ \A u \in Users : certs'[u] = certs[u] \/ certs'[u] = Plain
    BY DEF RepairCerts, TypeOK
  <1>3. TypeOK'
    <2>1. pc' \in Steps /\ (held' = 0 <=> pc' \in {"load", "open", "identity"})
      BY <1>1 DEF TypeOK, Steps
    <2>2. columns' \subseteq NewColumns \cup {"cert_pem"}
      BY <1>1 DEF TypeOK, NewColumns
    <2> QED BY <1>1, <1>2, <2>1, <2>2 DEF TypeOK, Whole
  <1>4. PlaceInv'
    BY <1>1 DEF PlaceInv, Whole, Steps, Opened, Migrated, Linked, SecretsRead, CertsRead, Keyed
  <1>5. LinkInv'
    BY <1>1 DEF LinkInv
  <1>6. KeyInv'
    BY <1>1, <1>2 DEF KeyInv, Fits, Writing, Whole
  <1> QED BY <1>3, <1>4, <1>5, <1>6

\* Encryption passes rows that are none or belong to the identity it holds.
LEMMA Encrypted ==
  ASSUME NEW D, NEW S, NEW here, NEW next, secrets \in [D -> S], Encrypt(secrets, here, next)
  PROVE  /\ pc = here
         /\ \/ /\ pc' = next /\ UNCHANGED secrets
               /\ \A x \in D : secrets[x] \in {None, held}
            \/ /\ UNCHANGED pc
               /\ \E x \in D : secrets[x] = Plain /\ secrets' = [secrets EXCEPT ![x] = held]
  BY DEF Encrypt, Readable, Goto

LEMMA EncryptedCerts ==
  ASSUME NEW D, NEW S, NEW here, NEW next, certs \in [D -> S], Encrypt(certs, here, next)
  PROVE  /\ pc = here
         /\ \/ /\ pc' = next /\ UNCHANGED certs
               /\ \A x \in D : certs[x] \in {None, held}
            \/ /\ UNCHANGED pc
               /\ \E x \in D : certs[x] = Plain /\ certs' = [certs EXCEPT ![x] = held]
  BY DEF Encrypt, Readable, Goto

LEMMA EncryptSecretsStep ==
  ASSUME StartInv, EncryptSecrets
  PROVE  StartInv'
  <1> USE DEF StartInv
  <1>1. UNCHANGED <<config, schema, applied, columns, links, certs, files, held, socket, keys, crashes, losses, cut, unfilled>>
    BY DEF EncryptSecrets, history
  <1>2. /\ pc = "encrypt secrets"
        /\ \/ /\ pc' = "encrypt certs" /\ UNCHANGED secrets
              /\ \A x \in Hooks : secrets[x] \in {None, held}
           \/ /\ UNCHANGED pc
              /\ \E x \in Hooks : secrets[x] = Plain /\ secrets' = [secrets EXCEPT ![x] = held]
    BY Encrypted DEF EncryptSecrets, TypeOK
  <1>3. held \in 1..keys /\ files["identity"] = held /\ Whole("identity")
    <2>1. held \in 0..keys /\ held # 0 /\ keys \in Nat
      BY <1>2 DEF TypeOK, PlaceInv
    <2>2. files["identity"] = held
      BY <1>2 DEF PlaceInv, Opened, Steps
    <2> QED BY <2>1, <2>2, NoMark DEF Whole
  <1>4. /\ secrets' \in [Hooks -> {None, Plain} \cup 1..keys]
        /\ \A h \in Hooks : secrets'[h] = secrets[h] \/ secrets'[h] = held
    BY <1>2, <1>3 DEF TypeOK
  <1>5. TypeOK'
    <2>1. pc' \in Steps /\ (held' = 0 <=> pc' \in {"load", "open", "identity"})
      BY <1>1, <1>2 DEF TypeOK, Steps
    <2> QED BY <1>1, <1>2, <1>4, <2>1 DEF TypeOK, Whole
  <1>6. PlaceInv'
    BY <1>1, <1>2 DEF PlaceInv, Whole, Steps, Opened, Migrated, Linked, SecretsRead, CertsRead,
       Keyed
  <1>7. LinkInv'
    BY <1>1, <1>2 DEF LinkInv
  <1>8. KeyInv'
    BY <1>1, <1>2, <1>3, <1>4 DEF KeyInv, Fits, Writing, Whole
  <1> QED BY <1>5, <1>6, <1>7, <1>8

LEMMA EncryptCertsStep ==
  ASSUME StartInv, EncryptCerts
  PROVE  StartInv'
  <1> USE DEF StartInv
  <1>1. UNCHANGED <<config, schema, applied, columns, links, secrets, files, held, socket, keys, crashes, losses, cut, unfilled>>
    BY DEF EncryptCerts, history
  <1>2. /\ pc = "encrypt certs"
        /\ \/ /\ pc' = "ca" /\ UNCHANGED certs
              /\ \A x \in Users : certs[x] \in {None, held}
           \/ /\ UNCHANGED pc
              /\ \E x \in Users : certs[x] = Plain /\ certs' = [certs EXCEPT ![x] = held]
    BY EncryptedCerts DEF EncryptCerts, TypeOK
  <1>3. held \in 1..keys /\ files["identity"] = held /\ Whole("identity")
    <2>1. held \in 0..keys /\ held # 0 /\ keys \in Nat
      BY <1>2 DEF TypeOK, PlaceInv
    <2>2. files["identity"] = held
      BY <1>2 DEF PlaceInv, Opened, Steps
    <2> QED BY <2>1, <2>2, NoMark DEF Whole
  <1>4. /\ certs' \in [Users -> {None, Null, Plain} \cup 1..keys]
        /\ \A u \in Users : certs'[u] = certs[u] \/ certs'[u] = held
    BY <1>2, <1>3 DEF TypeOK
  <1>5. TypeOK'
    <2>1. pc' \in Steps /\ (held' = 0 <=> pc' \in {"load", "open", "identity"})
      BY <1>1, <1>2 DEF TypeOK, Steps
    <2> QED BY <1>1, <1>2, <1>4, <2>1 DEF TypeOK, Whole
  <1>6. PlaceInv'
    BY <1>1, <1>2 DEF PlaceInv, Whole, Steps, Opened, Migrated, Linked, SecretsRead, CertsRead,
       Keyed
  <1>7. LinkInv'
    BY <1>1, <1>2 DEF LinkInv
  <1>8. KeyInv'
    BY <1>1, <1>2, <1>3, <1>4 DEF KeyInv, Fits, Writing, Whole
  <1> QED BY <1>5, <1>6, <1>7, <1>8

\* Once the database is open, the identity is there and in memory.
LEMMA IdentityHeld ==
  ASSUME TypeOK, PlaceInv, pc \in Opened
  PROVE  held \in 1..keys /\ files["identity"] = held /\ Whole("identity") /\ keys \in Nat
  <1>1. held \in 0..keys /\ held # 0 /\ keys \in Nat
    BY DEF TypeOK, PlaceInv, Opened
  <1>2. files["identity"] = held
    BY DEF PlaceInv
  <1> QED BY <1>1, <1>2, NoMark DEF Whole

LEMMA CAStep ==
  ASSUME StartInv, LoadOrCreateCertificateAuthority
  PROVE  StartInv'
  <1> USE DEF StartInv
  <1>1. /\ UNCHANGED <<config, schema, applied, columns, secrets, links, certs, held, socket, crashes, losses, cut, unfilled>>
        /\ pc \in {"ca", "ca key", "ca cert"} /\ pc' \in {"ca key", "ca cert", "jwt"}
    BY DEF LoadOrCreateCertificateAuthority, LoadCA, CreateCA, db, Goto
  <1>2. held \in 1..keys /\ files["identity"] = held /\ Whole("identity") /\ keys \in Nat
    BY <1>1, IdentityHeld DEF Opened, Steps
  <1>3. LinkInv'
    BY <1>1 DEF LinkInv
  <1>f. "caKey" \in Files /\ "caCert" \in Files /\ "identity" \in Files
    BY DEF Files
  <1>s. pc' \in Steps /\ (held' = 0 <=> pc' \in {"load", "open", "identity"})
    BY <1>1 DEF TypeOK, Steps
  <1>4. CASE LoadCA
    <2>1. TypeOK'
      BY <1>1, <1>4, <1>s DEF LoadCA, TypeOK, Whole
    <2>2. PlaceInv'
      BY <1>1, <1>4 DEF LoadCA, CAStored, PlaceInv, Whole, Goto, Steps, Opened, Migrated, Linked,
         SecretsRead, CertsRead, Keyed
    <2>3. KeyInv'
      BY <1>1, <1>4 DEF LoadCA, KeyInv, Fits, Writing, Whole, Goto
    <2> QED BY <1>3, <2>1, <2>2, <2>3
  <1>5. CASE NoCA /\ Goto("ca", "ca key") /\ Truncate("caKey") /\ UNCHANGED keys
    <2>1. /\ files' = [g \in Files |-> files'[g]]
          /\ files'["caKey"] = Torn /\ \A g \in Files \ {"caKey"} : files'[g] = files[g]
      BY <1>5, <1>f, FileWritten DEF Truncate
    <2>2. TypeOK'
      BY <1>1, <1>5, <1>s, <2>1 DEF TypeOK, Whole
    <2>3. PlaceInv'
      BY <1>1, <1>5, <2>1 DEF NoCA, PlaceInv, Whole, Goto, Files, Steps, Opened, Migrated,
         Linked, SecretsRead, CertsRead, Keyed
    <2>4. KeyInv'
      BY <1>1, <1>5, <2>1 DEF NoCA, KeyInv, Fits, Writing, Whole, Goto, Files
    <2> QED BY <1>3, <2>2, <2>3, <2>4
  <1>6. CASE /\ Goto("ca key", "ca cert") /\ NewInternalCertificateAuthority
             /\ Fill("caKey", [to |-> held, ca |-> keys'])
    <2> DEFINE r == [to |-> held, ca |-> keys']
    <2>1. /\ files' = [g \in Files |-> files'[g]]
          /\ files'["caKey"] = r /\ \A g \in Files \ {"caKey"} : files'[g] = files[g]
      BY <1>6, <1>f, FileWritten DEF Fill
    <2>2. /\ keys' \in Nat /\ keys' # 0 /\ keys' \in 1..keys' /\ 1..keys \subseteq 1..keys'
          /\ 1..keys \subseteq 0..keys'
      BY <1>2, <1>6, NewKey DEF NewInternalCertificateAuthority
    <2>3. r # Missing /\ r # Torn /\ r.to = held /\ r \in [to : 1..keys', ca : 1..keys']
      BY <1>2, <2>2, NoMark
    <2> HIDE DEF r
    <2>4. TypeOK'
      <3>1. held' \in 0..keys'
        BY <1>1, <1>2, <2>2
      <3>2. /\ secrets' \in [Hooks -> {None, Plain} \cup 1..keys']
            /\ certs' \in [Users -> {None, Null, Plain} \cup 1..keys']
        BY <1>1, <2>2 DEF TypeOK
      <3>3. \A f \in Files : Whole(f)' =>
              files'[f] \in IF f = "caKey" THEN [to : 1..keys', ca : 1..keys'] ELSE 1..keys'
        BY <2>1, <2>2, <2>3 DEF TypeOK, Whole
      <3>4. config' \in {NoConfig, BadConfig} <=> pc' = "load"
        BY <1>1 DEF TypeOK
      <3> QED BY <1>1, <1>s, <3>1, <3>2, <3>3, <3>4 DEF TypeOK
    <2>5. PlaceInv'
      BY <1>1, <1>6, <2>1, <2>2, <2>3 DEF PlaceInv, Whole, Goto, Files, Steps, Opened, Migrated,
         Linked, SecretsRead, CertsRead, Keyed
    <2>6. KeyInv'
      BY <1>1, <1>2, <1>6, <2>1, <2>3 DEF KeyInv, Fits, Writing, Whole, Goto, Files
    <2> QED BY <1>3, <2>4, <2>5, <2>6
  <1>7. CASE files["caCert"] = Missing /\ pc = "ca cert" /\ UNCHANGED <<pc, keys>> /\ Truncate("caCert")
    <2>1. /\ files' = [g \in Files |-> files'[g]]
          /\ files'["caCert"] = Torn /\ \A g \in Files \ {"caCert"} : files'[g] = files[g]
      BY <1>7, <1>f, FileWritten DEF Truncate
    <2>2. TypeOK'
      BY <1>1, <1>7, <1>s, <2>1 DEF TypeOK, Whole
    <2>3. PlaceInv'
      BY <1>1, <1>7, <2>1 DEF PlaceInv, Whole, Files, Steps, Opened, Migrated, Linked,
         SecretsRead, CertsRead, Keyed
    <2>4. KeyInv'
      BY <1>1, <1>7, <2>1 DEF KeyInv, Fits, Writing, Whole, Files
    <2> QED BY <1>3, <2>2, <2>3, <2>4
  <1>8. CASE /\ files["caCert"] = Torn /\ Goto("ca cert", "jwt")
             /\ Fill("caCert", files["caKey"].ca) /\ UNCHANGED keys
    <2>1. /\ files' = [g \in Files |-> files'[g]]
          /\ files'["caCert"] = files["caKey"].ca /\ \A g \in Files \ {"caCert"} : files'[g] = files[g]
      BY <1>8, <1>f, FileWritten DEF Fill
    <2>2. Whole("caKey")
      BY <1>8 DEF Goto, PlaceInv, Steps, Opened, Migrated, Linked, SecretsRead, CertsRead, Keyed
    <2>3. files["caKey"] \in [to : 1..keys, ca : 1..keys]
      BY <1>f, <2>2 DEF TypeOK
    <2>4. files["caKey"].ca \in 1..keys /\ files["caKey"].ca # Missing /\ files["caKey"].ca # Torn
      BY <1>2, <2>3, NoMark
    <2>5. TypeOK'
      BY <1>1, <1>8, <1>s, <2>1, <2>4 DEF TypeOK, Whole
    <2>6. PlaceInv'
      BY <1>1, <1>8, <2>1 DEF PlaceInv, Whole, Goto, Files, Steps, Opened, Migrated, Linked,
         SecretsRead, CertsRead, Keyed
    <2>7. KeyInv'
      BY <1>1, <1>8, <2>1, <2>2, <2>4 DEF KeyInv, Fits, Writing, Whole, Goto, Files
    <2> QED BY <1>3, <2>5, <2>6, <2>7
  <1> QED BY <1>4, <1>5, <1>6, <1>7, <1>8 DEF LoadOrCreateCertificateAuthority, CreateCA

LEMMA JWTStep ==
  ASSUME StartInv, LoadOrCreateJWTSigner
  PROVE  StartInv'
  <1> USE DEF StartInv
  <1>1. /\ UNCHANGED <<config, schema, applied, columns, secrets, links, certs, held, socket, crashes, losses, cut, unfilled>>
        /\ pc \in {"jwt", "jwt key"} /\ pc' \in {"jwt key", "listen"}
    BY DEF LoadOrCreateJWTSigner, db, Goto
  <1>2. held \in 1..keys /\ files["identity"] = held /\ Whole("identity") /\ keys \in Nat
    BY <1>1, IdentityHeld DEF Opened, Steps
  <1>3. LinkInv'
    BY <1>1 DEF LinkInv
  <1>f. "jwt" \in Files
    BY DEF Files
  <1>s. pc' \in Steps /\ (held' = 0 <=> pc' \in {"load", "open", "identity"})
    BY <1>1 DEF TypeOK, Steps
  <1>4. CASE Whole("jwt") /\ Goto("jwt", "listen") /\ UNCHANGED <<files, keys>>
    <2>1. TypeOK'
      BY <1>1, <1>4, <1>s DEF TypeOK, Whole
    <2>2. PlaceInv'
      BY <1>1, <1>4 DEF PlaceInv, Whole, Goto, Steps, Opened, Migrated, Linked, SecretsRead,
         CertsRead, Keyed
    <2>3. KeyInv'
      BY <1>1, <1>4 DEF KeyInv, Fits, Writing, Whole, Goto
    <2> QED BY <1>3, <2>1, <2>2, <2>3
  <1>5. CASE files["jwt"] = Missing /\ Goto("jwt", "jwt key") /\ Truncate("jwt") /\ UNCHANGED keys
    <2>1. /\ files' = [g \in Files |-> files'[g]]
          /\ files'["jwt"] = Torn /\ \A g \in Files \ {"jwt"} : files'[g] = files[g]
      BY <1>5, <1>f, FileWritten DEF Truncate
    <2>2. TypeOK'
      BY <1>1, <1>5, <1>s, <2>1 DEF TypeOK, Whole
    <2>3. PlaceInv'
      BY <1>1, <1>5, <2>1 DEF PlaceInv, Whole, Goto, Files, Steps, Opened, Migrated, Linked,
         SecretsRead, CertsRead, Keyed
    <2>4. KeyInv'
      BY <1>1, <1>5, <2>1 DEF KeyInv, Fits, Writing, Whole, Goto, Files
    <2> QED BY <1>3, <2>2, <2>3, <2>4
  <1>6. CASE Goto("jwt key", "listen") /\ NewJWTSigner /\ Fill("jwt", keys')
    <2>1. /\ files' = [g \in Files |-> files'[g]]
          /\ files'["jwt"] = keys' /\ \A g \in Files \ {"jwt"} : files'[g] = files[g]
      BY <1>6, <1>f, FileWritten DEF Fill
    <2>2. /\ keys' \in Nat /\ keys' # 0 /\ keys' \in 1..keys' /\ 1..keys \subseteq 1..keys'
          /\ 1..keys \subseteq 0..keys'
          /\ keys' # Missing /\ keys' # Torn
      BY <1>2, <1>6, NewKey DEF NewJWTSigner
    <2>3. TypeOK'
      <3>1. held' \in 0..keys'
        BY <1>1, <1>2, <2>2
      <3>2. /\ secrets' \in [Hooks -> {None, Plain} \cup 1..keys']
            /\ certs' \in [Users -> {None, Null, Plain} \cup 1..keys']
        BY <1>1, <2>2 DEF TypeOK
      <3>3. \A f \in Files : Whole(f)' =>
              files'[f] \in IF f = "caKey" THEN [to : 1..keys', ca : 1..keys'] ELSE 1..keys'
        BY <2>1, <2>2 DEF TypeOK, Whole
      <3>4. config' \in {NoConfig, BadConfig} <=> pc' = "load"
        BY <1>1 DEF TypeOK
      <3> QED BY <1>1, <1>s, <3>1, <3>2, <3>3, <3>4 DEF TypeOK
    <2>4. PlaceInv'
      BY <1>1, <1>6, <2>1, <2>2 DEF PlaceInv, Whole, Goto, Files, Steps, Opened, Migrated,
         Linked, SecretsRead, CertsRead, Keyed
    <2>5. KeyInv'
      BY <1>1, <1>6, <2>1, <2>2 DEF KeyInv, Fits, Writing, Whole, Goto, Files
    <2> QED BY <1>3, <2>3, <2>4, <2>5
  <1> QED BY <1>4, <1>5, <1>6 DEF LoadOrCreateJWTSigner

LEMMA ListenerStep ==
  ASSUME StartInv, newSocketListener
  PROVE  StartInv'
  <1> USE DEF StartInv
  <1>1. /\ UNCHANGED <<schema, applied, columns, secrets, links, certs, files, keys, crashes, losses, cut, unfilled>>
        /\ pc = "listen" /\ socket' \in BOOLEAN
        /\ \/ pc' \in {"listen", "serving"} /\ UNCHANGED <<config, held>>
           \/ pc' = "load" /\ config' = BadConfig /\ held' = 0
        /\ pc' = "serving" => config.SocketGroup # "unknown"
    BY DEF newSocketListener, db, history, Goto, TypeOK
  <1>2. TypeOK'
    <2>1. held \in 0..keys /\ held # 0 /\ 0 \in 0..keys
      BY <1>1 DEF TypeOK, PlaceInv
    <2>2. held' \in 0..keys'
      BY <1>1, <2>1
    <2>3. pc' \in Steps /\ (held' = 0 <=> pc' \in {"load", "open", "identity"})
      BY <1>1, <2>1 DEF Steps
    <2>4. config' \in {NoConfig, BadConfig} <=> pc' = "load"
      BY <1>1 DEF TypeOK
    <2> QED BY <1>1, <2>2, <2>3, <2>4 DEF TypeOK, Whole
  <1>3. PlaceInv'
    BY <1>1 DEF PlaceInv, Whole, Steps, Opened, Migrated, Linked, SecretsRead, CertsRead, Keyed
  <1>4. LinkInv'
    BY <1>1 DEF LinkInv
  <1>5. KeyInv'
    BY <1>1 DEF KeyInv, Fits, Writing, Whole
  <1> QED BY <1>2, <1>3, <1>4, <1>5

\* What the daemon adds while it serves fits the identity it holds.
LEMMA ServeStep ==
  ASSUME StartInv, Serve
  PROVE  StartInv'
  <1> USE DEF StartInv
  <1>1. /\ UNCHANGED <<config, pc, schema, applied, columns, files, held, socket, keys, crashes, losses, cut, unfilled>>
        /\ pc = "serving"
    BY DEF Serve, history
  <1>2. held \in 1..keys /\ files["identity"] = held /\ Whole("identity") /\ keys \in Nat
    BY <1>1, IdentityHeld DEF Opened, Steps
  <1>3. /\ secrets' \in [Hooks -> {None, Plain} \cup 1..keys]
        /\ \A h \in Hooks : secrets'[h] \in {secrets[h], held}
    <2>1. secrets \in [Hooks -> {None, Plain} \cup 1..keys]
      BY DEF TypeOK
    <2>2. secrets' = secrets \/ \E h \in Hooks : secrets' = [secrets EXCEPT ![h] = held]
      BY DEF Serve
    <2> QED BY <1>2, <2>1, <2>2
  <1>4. /\ links' \in [Hooks -> {None, Null, Nameless} \cup Hooks]
        /\ \A h \in Hooks : links'[h] \in {links[h], h}
    <2>1. links \in [Hooks -> {None, Null, Nameless} \cup Hooks]
      BY DEF TypeOK
    <2>2. links' = links \/ \E h \in Hooks : links' = [links EXCEPT ![h] = h]
      BY DEF Serve
    <2> QED BY <2>1, <2>2
  <1>5. /\ certs' \in [Users -> {None, Null, Plain} \cup 1..keys]
        /\ \A u \in Users : certs'[u] \in {certs[u], held}
    <2>1. certs \in [Users -> {None, Null, Plain} \cup 1..keys]
      BY DEF TypeOK
    <2>2. certs' = certs \/ \E u \in Users : certs' = [certs EXCEPT ![u] = held]
      BY DEF Serve
    <2> QED BY <1>2, <2>1, <2>2
  <1>6. TypeOK'
    BY <1>1, <1>3, <1>4, <1>5 DEF TypeOK, Whole
  <1>7. PlaceInv'
    BY <1>1, <1>3, <1>5 DEF PlaceInv, Whole, Steps, Opened, Migrated, Linked, SecretsRead,
       CertsRead, Keyed
  <1>8. LinkInv'
    <2>1. Platform \in applied
      BY <1>1 DEF PlaceInv, Versions, Platform, Steps, Opened, Migrated
    <2> QED BY <1>1, <1>4, <2>1, StartUpAssumption DEF LinkInv
  <1>9. KeyInv'
    BY <1>1, <1>2, <1>3, <1>5 DEF KeyInv, Fits, Writing, Whole
  <1> QED BY <1>6, <1>7, <1>8, <1>9

\* Down again: the database and the files are as the daemon left them.
LEMMA Down ==
  ASSUME StartInv, Stop \/ Refuse \/ Crash
  PROVE  StartInv'
  <1> USE DEF StartInv
  <1>1. /\ UNCHANGED <<schema, applied, columns, secrets, links, certs, files, keys, losses>>
        /\ pc' = "load" /\ config' = NoConfig /\ held' = 0 /\ socket' \in BOOLEAN
        /\ crashes' \in 0..MaxCrashes
    <2>1. CASE Stop \/ Refuse
      BY <2>1 DEF Stop, Refuse, db, history, Goto, TypeOK
    <2>2. CASE Crash
      <3>1. crashes' \in 0..MaxCrashes
        <4>1. MaxCrashes \in Nat
          BY StartUpAssumption
        <4>2. crashes \in 0..MaxCrashes
          BY DEF TypeOK
        <4>3. crashes < MaxCrashes /\ crashes' = crashes + 1
          BY <2>2, Zenon DEF Crash
        <4> HIDE DEF StartInv
        <4> QED BY <4>1, <4>2, <4>3, SMT
      <3> QED BY <2>2, <3>1 DEF Crash, db, TypeOK
    <2> QED BY <2>1, <2>2
  <1>2. /\ cut' \in BOOLEAN /\ unfilled' \in BOOLEAN
        /\ ~cut' => ~cut /\ pc \notin {"identity", "fill certs", "ca key", "ca cert", "jwt key"}
        /\ ~unfilled' => ~unfilled /\ pc # "fill outbox"
    BY DEF Stop, Refuse, Crash, Goto, history, TypeOK
  <1>3. TypeOK'
    <2>1. 0 \in 0..keys
      <3>1. keys \in Nat
        BY DEF PlaceInv
      <3> QED BY <3>1, SMT
    <2>2. held' \in 0..keys'
      BY <1>1, <2>1
    <2>3. pc' \in Steps /\ (held' = 0 <=> pc' \in {"load", "open", "identity"})
      BY <1>1 DEF Steps
    <2>4. config' \in {NoConfig, BadConfig} <=> pc' = "load"
      BY <1>1
    <2> QED BY <1>1, <1>2, <2>2, <2>3, <2>4 DEF TypeOK, Whole
  <1>4. PlaceInv'
    BY <1>1 DEF PlaceInv, Steps, Opened, Migrated, Linked, SecretsRead, CertsRead, Keyed
  <1>5. LinkInv'
    BY <1>1, <1>2 DEF LinkInv
  <1>6. KeyInv'
    BY <1>1, <1>2 DEF KeyInv, Fits, Writing, Whole, Files
  <1> QED BY <1>3, <1>4, <1>5, <1>6

LEMMA LoseStep ==
  ASSUME StartInv, Lose
  PROVE  StartInv'
  <1> USE DEF StartInv
  <1>1. /\ UNCHANGED <<config, pc, schema, applied, columns, secrets, links, certs, held, socket, keys, crashes, cut, unfilled>>
        /\ pc = "load" /\ losses' \in 0..MaxLosses /\ losses' # 0
    BY StartUpAssumption DEF Lose, db, TypeOK
  <1>2. PICK f \in Files : files' = [files EXCEPT ![f] = Missing]
    BY DEF Lose
  <1>3. /\ files' = [g \in Files |-> files'[g]]
        /\ files'[f] = Missing /\ \A g \in Files \ {f} : files'[g] = files[g]
    BY <1>2, FileWritten
  <1>4. TypeOK'
    BY <1>1, <1>3 DEF TypeOK, Whole
  <1>5. PlaceInv'
    BY <1>1, <1>3 DEF PlaceInv, Steps, Opened, Migrated, Linked, SecretsRead, CertsRead, Keyed
  <1>6. LinkInv'
    BY <1>1 DEF LinkInv
  <1>7. KeyInv'
    BY <1>1, <1>3, StartUpAssumption DEF KeyInv, Writing
  <1> QED BY <1>4, <1>5, <1>6, <1>7

-----------------------------------------------------------------------------
(* The daemon.                                                             *)

LEMMA StartStep == StartInv /\ [Next]_vars => StartInv'
  <1> SUFFICES ASSUME StartInv, [Next]_vars PROVE StartInv'
    OBVIOUS
  <1>1. CASE UNCHANGED vars
    <2>1. UNCHANGED <<pc, config, schema, applied, columns, secrets, links, certs, files, held,
    socket,
                      keys, crashes, losses, cut, unfilled>>
      BY <1>1 DEF vars, db, history
    <2>2. TypeOK'
      BY <2>1 DEF StartInv, TypeOK, Whole
    <2>3. PlaceInv'
      BY <2>1 DEF StartInv, PlaceInv, Whole
    <2>4. LinkInv'
      BY <2>1 DEF StartInv, LinkInv
    <2>5. KeyInv'
      BY <2>1 DEF StartInv, KeyInv, Fits, Writing, Whole
    <2> QED BY <2>2, <2>3, <2>4, <2>5 DEF StartInv
  <1>2. CASE Next
    BY <1>2, LoadConfigStep, OpenStep, MigrateStep, RepairOutboxStep, RepairCertsStep,
       EncryptSecretsStep, EncryptCertsStep, CAStep, JWTStep, ListenerStep, ServeStep, Down,
       LoseStep
       DEF Next, Step, loadRuntimeSecrets
  <1> QED BY <1>1, <1>2

\* Whatever a start finds and wherever earlier ones were cut off, a daemon
\* that serves can decrypt its webhook secrets, user certificates and CA key,
\* has settings within the limits and, unless a repair stopped at it or failed,
\* an outbox linked as far as the rows' ids tell; what no start can mend comes
\* of a cut or of a lost file.
THEOREM StartsSoundlyCorrect == Spec => []StartsSoundly
  <1>1. StartInv => StartsSoundly
    <2> SUFFICES ASSUME StartInv PROVE StartsSoundly
      OBVIOUS
    <2> USE DEF StartInv
    <2>1. ServedSecretsReadable
      BY DEF ServedSecretsReadable, PlaceInv, Steps, Opened, Migrated, Linked, SecretsRead,
         CertsRead, Keyed
    <2>2. OutboxRowsLinked
      BY DEF OutboxRowsLinked, LinkInv, PlaceInv, Steps, Opened, Migrated, Linked
    <2>3. DamageNeedsACut
      <3> SUFFICES ASSUME pc = "load", ~cut, ~(losses > 0), \A u \in Users : certs[u] # Null
                   PROVE  ~Damaged
        BY DEF DamageNeedsACut
      <3>1. losses = 0
        BY StartUpAssumption DEF TypeOK
      <3>2. Fits /\ (Whole("caKey") <=> Whole("caCert"))
        BY <3>1 DEF KeyInv
      <3>3. Writing = "none"
        BY DEF Writing
      <3>4. \A f \in Files : files[f] # Torn
        BY <3>3 DEF KeyInv, Files
      <3> QED BY <3>2, <3>4 DEF Damaged, Fits, Whole
    <2>4. ServedWithinLimits
      <3>1. CASE pc = "serving"
        <4>1. config \in Accepted /\ config.SocketGroup # "unknown"
          BY <3>1 DEF PlaceInv
        <4> QED BY <4>1, AcceptedWithinLimits
      <3>2. CASE pc # "serving"
        BY <3>2 DEF ServedWithinLimits
      <3> QED BY <3>1, <3>2
    <2> QED BY <2>1, <2>2, <2>3, <2>4 DEF StartsSoundly
  <1> QED BY <1>1, StartInit, StartStep, PTL DEF Spec

\* No start replaces a key whose file is there: a file that is written is
\* one the same start created, or the certificate of a CA it created.
THEOREM KeysKeptCorrect == Spec => KeysKept
  <1>1. ASSUME StartInv, [Next]_vars, losses' = losses, NEW f \in Files, Whole(f)
        PROVE  files'[f] = files[f]
    <2>1. CASE Open
      BY <1>1, <2>1 DEF StartInv, PlaceInv, Open, LoadIdentity, Truncate, Fill, Whole, Goto, Files
    <2>2. CASE loadRuntimeSecrets
      BY <1>1, <2>2 DEF StartInv, PlaceInv, loadRuntimeSecrets, LoadOrCreateCertificateAuthority,
         LoadCA, CreateCA,
         LoadOrCreateJWTSigner, NoCA, Truncate, Fill, Whole, Goto, Files
    <2>3. CASE Lose
      BY <1>1, <2>3 DEF StartInv, TypeOK, Lose
    <2>4. CASE UNCHANGED files
      BY <2>4
    <2> QED BY <1>1, <2>1, <2>2, <2>3, <2>4 DEF Next, Step, LoadConfig, Migrate, RepairOutbox,
    RepairCerts,
        EncryptSecrets, EncryptCerts, newSocketListener, Refuse, Serve, Stop, Crash, vars
  <1>2. StartInv /\ [Next]_vars =>
          [losses' = losses => \A f \in Files : Whole(f) => files'[f] = files[f]]_vars
    BY <1>1
  <1> QED BY <1>2, StartInit, StartStep, PTL DEF Spec, KeysKept

-----------------------------------------------------------------------------
(* The poller.                                                             *)

\* The request's place agrees with Incus and with the table.
HandlerInv ==
  \A o \in Ops :
    /\ handler[o] \in {"new", "submitted"} => row[o] = "none"
    /\ handler[o] = "new" => upstream[o] = "none"
    /\ handler[o] = "submitted" => upstream[o] # "none"
    /\ (handler[o] = "submitted" \/ row[o] # "none") =>
         (upstream[o] = "sync" <=> opID[o] = NoID)
    /\ o \in known => upstream[o] \in {"running"} \cup Final
    /\ row[o] # "none" => upstream[o] # "none"

\* What the tick listed is still as it was listed.
SnapshotInv ==
  /\ \A o \in todo : row[o] \in Active /\ seen[o] = row[o]
  /\ reply # NoReply =>
       /\ reply.op \notin todo
       /\ row[reply.op] \in Active
       /\ row[reply.op] = reply.seen
       /\ upstream[reply.op] # "sync"
       /\ reply.status \in {"running", upstream[reply.op]}

PollerInv == PollerTypeOK /\ HandlerInv /\ SnapshotInv /\ FaithfulOutcome /\ AnswersHold

LEMMA ReplyFields ==
  ASSUME PollerTypeOK, reply # NoReply
  PROVE  /\ reply.op \in Ops
         /\ reply.seen \in Active
         /\ reply.status \in {"running"} \cup Final
BY DEF PollerTypeOK, Replies

\* The client finds the id of every operation Incus names, wherever the
\* answer names it, and no id in a synchronous answer.
LEMMA ReadAnswer ==
  ASSUME NEW a \in Answers
  PROVE  /\ a.did \in {"refused", "running", "sync"}
         /\ doOperation(a) \in {NoID, "id"}
         /\ a.error = NoError =>
              a.did # "refused" /\ (a.did = "sync" <=> doOperation(a) = NoID)
BY DEF Answers, doOperation, decodeResponse, NoID, NoError, Errors

\* Only 502 is said of a call that Incus may have taken, and 409 where the
\* name of the instance made it so.
LEMMA SubmitAnswered ==
  ASSUME NEW o, Submit(o)
  PROVE  \E a \in Answers, code \in {"404", "409", "502"} :
           /\ Call(o, a) /\ Answered(o, a, code)
           /\ a.error # NoError /\ code # "502" =>
                a.did = "refused" \/ (code = "409" /\ o \in Misnamed)
<1> USE DEF Answers, NoError, Errors, Text, Wrapped
<1>1. CASE handleCreateInstance(o)
  BY <1>1 DEF handleCreateInstance, CreateCode
<1>2. CASE handleDeleteInstance(o)
  BY <1>2 DEF handleDeleteInstance, DeleteCode
<1>3. CASE handleInstanceStateChange(o)
  BY <1>3 DEF handleInstanceStateChange, StateCode
<1>4. CASE handleRunSchedule(o)
  BY <1>4 DEF handleRunSchedule, RunCode
<1> QED BY <1>1, <1>2, <1>3, <1>4 DEF Submit

\* A state the client knows is the state Incus is in.
LEMMA ReportedState ==
  ASSUME NEW u \in {"running"} \cup Final, NEW s \in Reported(u) \ {"unknown"}
  PROVE  s = u
BY DEF Final, Reported, Words, StatusOf

LEMMA InitPoller == PollerInit => PollerInv
BY DEF PollerInit, PollerInv, PollerTypeOK, HandlerInv, SnapshotInv, FaithfulOutcome, Final,
       Active, AnswersHold, Refusals, Codes

\* A request touches neither a listed row nor a final one.
LEMMA RequestStep ==
  ASSUME PollerInv, NEW o \in Ops, Request(o)
  PROVE  PollerInv'
<1> USE PollerAssumption DEF PollerInv, PollerTypeOK, HandlerInv, SnapshotInv,
    FaithfulOutcome, Final, Active, AnswersHold, Codes, Refusals
<1>1. CASE Submit(o)
  <2>1. PICK a \in Answers, code \in {"404", "409", "502"} :
          /\ Call(o, a) /\ Answered(o, a, code)
          /\ a.error # NoError /\ code # "502" =>
               a.did = "refused" \/ (code = "409" /\ o \in Misnamed)
    BY <1>1, SubmitAnswered
  <2> QED BY <2>1, ReadAnswer, ReplyFields DEF Call, Answered
<1>2. CASE CreateOperation(o)
  BY <1>2, ReplyFields DEF CreateOperation
<1>3. CASE CreateOperationFails(o)
  BY <1>3, ReplyFields DEF CreateOperationFails
<1>4. CASE RefuseRequest(o)
  BY <1>4, ReplyFields DEF RefuseRequest
<1> QED BY <1>1, <1>2, <1>3, <1>4 DEF Request

LEMMA IncusStep ==
  ASSUME PollerInv, NEW o \in Ops, Incus(o)
  PROVE  PollerInv'
<1> USE PollerAssumption DEF PollerInv, PollerTypeOK, HandlerInv, SnapshotInv,
    FaithfulOutcome, Final, Active, AnswersHold, Codes, Refusals
<1>1. CASE Finish(o)
  BY <1>1, ReplyFields DEF Finish
<1>2. CASE Forget(o)
  BY <1>2, ReplyFields DEF Forget
<1> QED BY <1>1, <1>2 DEF Incus

LEMMA PollStep ==
  ASSUME PollerInv, NEW o \in Ops, Poll(o)
  PROVE  PollerInv'
<1> USE PollerAssumption DEF PollerInv, PollerTypeOK, HandlerInv, SnapshotInv,
    FaithfulOutcome, Final, Active, AnswersHold, Codes, Refusals
<1>1. CASE Bookkeep(o)
  BY <1>1 DEF Bookkeep
<1>2. CASE GetOperation(o)
  <2>1. upstream[o] \in {"running"} \cup Final
    BY <1>2 DEF GetOperation
  <2>2. reply' = [op |-> o, seen |-> seen[o], status |-> upstream[o]]
    BY <1>2, <2>1, ReportedState DEF GetOperation
  <2> QED BY <1>2, <2>1, <2>2 DEF GetOperation, Replies
<1>3. CASE GetOperationFails(o)
  BY <1>3 DEF GetOperationFails, AskInVain
<1> QED BY <1>1, <1>2, <1>3 DEF Poll

LEMMA TickStep ==
  ASSUME PollerInv, Tick \/ UpdateOperationStatus \/ UpdateFails \/ PollerStops
  PROVE  PollerInv'
<1> USE PollerAssumption DEF PollerInv, PollerTypeOK, HandlerInv, SnapshotInv,
    FaithfulOutcome, Final, Active, AnswersHold, Codes, Refusals
<1>1. CASE Tick
  BY <1>1 DEF Tick, ListActiveOperations
<1>2. CASE UpdateOperationStatus
  BY <1>2, ReplyFields DEF UpdateOperationStatus
<1>3. CASE UpdateFails
  BY <1>3, ReplyFields DEF UpdateFails
<1>4. CASE PollerStops
  BY <1>4 DEF PollerStops
<1> QED BY <1>1, <1>2, <1>3, <1>4

LEMMA PollerStep == PollerInv /\ [PollerNext]_pollerVars => PollerInv'
<1> SUFFICES ASSUME PollerInv, [PollerNext]_pollerVars PROVE PollerInv'
  OBVIOUS
<1>1. CASE UNCHANGED pollerVars
  BY <1>1 DEF pollerVars, PollerInv, PollerTypeOK, HandlerInv, SnapshotInv, FaithfulOutcome,
     AnswersHold
<1> QED BY <1>1, RequestStep, IncusStep, PollStep, TickStep DEF PollerNext

\* Every variable of handlers, Incus and poller keeps its type.
THEOREM PollerTypeCorrect == PollerSpec => []PollerTypeOK
<1>1. PollerInv => PollerTypeOK
  BY DEF PollerInv
<1> QED BY <1>1, InitPoller, PollerStep, PTL DEF PollerSpec

\* Whatever crashes, fails or is forgotten, a final status in the operations
\* table is the one Incus's operation ended with.
THEOREM FaithfulOutcomeCorrect == PollerSpec => []FaithfulOutcome
<1>1. PollerInv => FaithfulOutcome
  BY DEF PollerInv
<1> QED BY <1>1, InitPoller, PollerStep, PTL DEF PollerSpec

\* A client told 4xx or 503 started nothing, and one told 202 finds its row,
\* whichever answers of Incus are lost and whatever crashes; a 409 says so
\* only of an instance without "conflict" in its name.
THEOREM AnswersHoldCorrect == PollerSpec => []AnswersHold
<1>1. PollerInv => AnswersHold
  BY DEF PollerInv
<1> QED BY <1>1, InitPoller, PollerStep, PTL DEF PollerSpec

LEMMA StepForward ==
  ASSUME PollerInv, [PollerNext]_pollerVars, NEW o \in Ops
  PROVE  /\ row[o] \in Final => row'[o] = row[o]
         /\ row[o] = "running" => row'[o] # "pending"
<1> USE PollerAssumption DEF PollerInv, PollerTypeOK, HandlerInv, SnapshotInv, Final, Active
<1>1. ASSUME NEW q \in Ops, Request(q)
      PROVE  row'[o] = row[o] \/ row[o] = "none"
  <2>1. CASE Submit(q)
    BY <2>1, SubmitAnswered DEF Call
  <2>2. CASE RefuseRequest(q) \/ CreateOperation(q) \/ CreateOperationFails(q)
    BY <2>2 DEF RefuseRequest, CreateOperation, CreateOperationFails
  <2> QED BY <1>1, <2>1, <2>2 DEF Request
<1>2. ASSUME NEW q \in Ops, Incus(q) PROVE row'[o] = row[o]
  BY <1>2 DEF Incus, Finish, Forget
<1>3. ASSUME NEW q \in Ops, Poll(q)
      PROVE  row'[o] = row[o] \/ (row[o] \in Active /\ row'[o] = "success")
  BY <1>3 DEF Poll, Bookkeep, GetOperation, GetOperationFails, AskInVain
<1>4. CASE UpdateOperationStatus
  BY <1>4, ReplyFields DEF UpdateOperationStatus
<1>5. CASE Tick \/ UpdateFails \/ PollerStops \/ UNCHANGED pollerVars
  BY <1>5 DEF Tick, UpdateFails, PollerStops, pollerVars
<1> QED BY <1>1, <1>2, <1>3, <1>4, <1>5 DEF PollerNext

\* UpdateOperationStatus updates by id alone, and still no client ever sees a
\* status go back.
THEOREM NeverBackCorrect == PollerSpec => NeverBack
<1>1. PollerInv /\ [PollerNext]_pollerVars =>
        [\A o \in Ops : /\ row[o] \in Final => row'[o] = row[o]
                        /\ row[o] = "running" => row'[o] # "pending"]_pollerVars
  BY StepForward
<1> QED BY <1>1, InitPoller, PollerStep, PTL DEF PollerSpec, NeverBack
=============================================================================
