---------------------------- MODULE Configuration ----------------------------
(***************************************************************************)
(* What hellingd is configured with: defaults, over them the YAML file,    *)
(* over both the environment, and the result validated.  A path is its     *)
(* shape, a word or a group whether it is known, a mode whom it lets in.   *)
(* The Incus socket, project and server name, which validate lets be       *)
(* anything, are left out.                                                 *)
(***************************************************************************)
EXTENDS Naturals, FiniteSets, TLC

\* The permissions of 0660.
UserAndGroup == {"user", "group"}

Defaults ==
  [StateDir |-> "absolute", SocketPath |-> "absolute",
   SocketGroup |-> "known", SocketMode |-> UserAndGroup,
   LogLevel |-> "known", LogFormat |-> "known",
   SessionTTLHours |-> 24 * 7, AccessTTLMinutes |-> 15,
   JWTSigningKeyPath |-> "absolute", SetupTokenPath |-> "absolute", ScheduleTokenPath |-> "absolute",
   LoginRateLimit |-> 5, Argon2TimeCost |-> 3, Argon2MemoryKiB |-> 64 * 1024, Argon2Parallelism |-> 4,
   HellingCAKeyPath |-> "absolute", HellingCACertPath |-> "absolute",
   HTTPSEndpoint |-> "https", CACertPath |-> "certificates"]

Settings == DOMAIN Defaults
AuthNumbers ==
  [AccessTTLMinutes |-> Nat \ {0}, LoginRateLimit |-> Nat \ {0}, Argon2TimeCost |-> 1..10,
   Argon2MemoryKiB |-> (8 * 1024)..(256 * 1024), Argon2Parallelism |-> 1..8]
maxSessionTTLHours == 24 * 30
Numbers == DOMAIN AuthNumbers \cup {"SessionTTLHours"}
Paths == {"StateDir", "SocketPath", "JWTSigningKeyPath", "SetupTokenPath", "ScheduleTokenPath",
          "HellingCAKeyPath", "HellingCACertPath"}

-----------------------------------------------------------------------------
(* The environment: an empty variable says nothing, nor does, where a       *)
(* number is wanted, what is none or not positive (0 stands for these).    *)
BaseEnv == {"StateDir", "SocketPath", "LogLevel", "LogFormat"}
IncusEnv == {"HellingCAKeyPath", "HellingCACertPath", "HTTPSEndpoint", "CACertPath"}
AuthEnv == {"SessionTTLHours", "AccessTTLMinutes", "JWTSigningKeyPath", "SetupTokenPath", "ScheduleTokenPath"}

Says(env, s) == s \in DOMAIN env /\ env[s] # IF s \in Numbers THEN 0 ELSE ""

applyEnv(cfg, env) ==
  [s \in {t \in BaseEnv \cup IncusEnv \cup AuthEnv : Says(env, t)} |-> env[s]] @@ cfg

-----------------------------------------------------------------------------
AuthValid(cfg) ==
  /\ \A n \in DOMAIN AuthNumbers : cfg[n] \in AuthNumbers[n]
  /\ cfg.JWTSigningKeyPath # ""
  /\ cfg.SetupTokenPath = "absolute" /\ cfg.ScheduleTokenPath = "absolute"

IncusValid(cfg) == cfg.HellingCAKeyPath = "absolute" /\ cfg.HellingCACertPath = "absolute"

\* The group is not looked at.
Valid(cfg) ==
  /\ cfg.StateDir # "" /\ cfg.SocketPath = "absolute" /\ cfg.SocketMode \subseteq UserAndGroup
  /\ cfg.SessionTTLHours \in 1..maxSessionTTLHours
  /\ AuthValid(cfg) /\ IncusValid(cfg)
  /\ cfg.LogFormat = "known" /\ cfg.LogLevel = "known"

FileOver(file) == file @@ Defaults

\* A file that says `file' (nothing, when it is missing) and an environment.
Load(file, env) == applyEnv(FileOver(file), env)

\* Faulty variant: the file is validated, and then the environment applied.
AcceptsFile(file, env) == Valid(FileOver(file))

Accepts(file, env) == Valid(Load(file, env))

-----------------------------------------------------------------------------
(* What run makes of it.                                                   *)

\* Parallelism is narrowed to 8 bits; 32 hold every value offered of the others.
argon2ParamsFromConfig(cfg) ==
  [Time |-> cfg.Argon2TimeCost, MemoryKiB |-> cfg.Argon2MemoryKiB,
   Parallelism |-> cfg.Argon2Parallelism % 2^8]

\* A file that is not there, or holds no certificate, is an error.
loadCertPool(path) == path = "certificates"

NoProxy == [endpoint |-> "none", rootCAs |-> "none"]

\* The proxy for users that are not administrators; without one they are refused.
NewDelegatedIncusProxy(cfg) ==
  LET endpoint == IF cfg.HTTPSEndpoint = "" THEN "https" ELSE cfg.HTTPSEndpoint IN
  IF endpoint # "https" \/ (cfg.CACertPath # "" /\ ~loadCertPool(cfg.CACertPath))
  THEN NoProxy
  ELSE [endpoint |-> endpoint,
        rootCAs |-> IF cfg.CACertPath = "" THEN "system" ELSE cfg.CACertPath]

-----------------------------------------------------------------------------
\* Values that tell the cases apart: the first outside each limit, one inside.
Offered(s) ==
  CASE s \in Paths -> {"absolute", "relative", ""}
    [] s \in {"LogLevel", "LogFormat"} -> {"known", "unknown", ""}
    [] s = "HTTPSEndpoint" -> {"https", "http", ""}
    [] s = "CACertPath" -> {"certificates", "garbage", ""}
    [] s = "SocketGroup" -> {"unknown", ""}
    [] s = "SocketMode" -> {{"user"}, UserAndGroup \cup {"others"}}
    [] s = "SessionTTLHours" -> {0, maxSessionTTLHours, maxSessionTTLHours + 1}
    [] s = "Argon2MemoryKiB" -> {8 * 1024 - 1, 8 * 1024, 256 * 1024 + 1}
    [] s = "Argon2TimeCost" -> {0, 10, 11}
    [] s = "Argon2Parallelism" -> {0, 8, 256}
    [] s \in {"AccessTTLMinutes", "LoginRateLimit"} -> {0, 1}

\* What a file or an environment may say of one setting, or nothing.
About(s) == {[t \in {} |-> ""]} \cup [{s} -> Offered(s)]
Given == UNION {About(s) \X About(s) : s \in Settings}

Refused == {g \in Given : ~Accepts(g[1], g[2])}
Accepted == {Load(g[1], g[2]) : g \in Given \ Refused}
=============================================================================
