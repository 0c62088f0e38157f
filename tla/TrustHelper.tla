----------------------------- MODULE TrustHelper -----------------------------
(***************************************************************************)
(* helling-incus-trust, the setuid helper through which hellingd changes   *)
(* Incus's trust store.  hellingd leaves a manifest and names it on the    *)
(* command line; the helper compares the two, looks at the certificate     *)
(* that is staged, and asks the policy the operator wrote for the user.    *)
(* Names and files it composes or parses are the records they stand for.   *)
(***************************************************************************)
EXTENDS FiniteSets

CONSTANTS
  Users,      \* ids the users table may draw: none is drawn twice
  Certs,      \* fingerprints of certificates
  Projects,
  None,       \* nobody, nothing
  PolicyDirs  \* the policies the operator may have in place, now one and now another

Actions == {"register", "revoke"}

\* trustRequestManifest; a revocation names no certificate file.
Manifest(action, u, f, p) ==
  [action |-> action, user |-> u, fp |-> f, project |-> p,
   certFile |-> IF action = "register" THEN <<u, f>> ELSE None]

\* trustPolicy, by default for any user; `locked' when only root may write it.
Policies ==
  [user : Users \cup {None}, projects : SUBSET Projects, actions : SUBSET Actions, locked : BOOLEAN]

Directories == [locked : BOOLEAN, files : [Users \cup {"default"} -> Policies \cup {None}]]

ASSUME HelperAssumption == PolicyDirs \subseteq Directories

-----------------------------------------------------------------------------
\* Faulty variant: the default speaks where the user's own file does not.
PolicyOfUnion(dir, u) ==
  LET own == dir.files[u]  default == dir.files["default"] IN
  IF own = None THEN default
  ELSE IF default = None THEN own
  ELSE [own EXCEPT !.projects = own.projects \cup default.projects]

\* The user's own file, else the default: never both.
PolicyOf(dir, u) == IF dir.files[u] # None THEN dir.files[u] ELSE dir.files["default"]

\* What others than root could have written is not believed.
LockedDown(path) == path.locked
Readable(file) == file # None /\ LockedDown(file)
HasProjects(policy) == policy.projects # {}

Loadable(dir, u) ==
  LET policy == PolicyOf(dir, u) IN
  LockedDown(dir) /\ Readable(policy) /\ policy.user \in {None, u} /\ HasProjects(policy)

AllowsProject(policy, p) == p \in policy.projects
AllowsAction(policy, action) == action \in policy.actions

\* The file's name and its contents say what the command line says; only a
\* registration names user and project there.
ParsesAs(request, action, f) == request.action = action /\ request.fp = f
Matches(request, action, p, certFile) ==
  request.certFile = certFile /\ (action = "register" => request.project = p)

Permitted(dir, request, action, f, p, certFile) ==
  /\ ParsesAs(request, action, f) /\ Matches(request, action, p, certFile)
  /\ Loadable(dir, request.user)
  /\ AllowsProject(PolicyOf(dir, request.user), request.project)
  /\ AllowsAction(PolicyOf(dir, request.user), action)

\* The certificate staged is the one on the command line.
Staged(certFile, f) == certFile[2] = f

register(dir, request, f, p, certFile) ==
  /\ certFile[1] = request.user /\ Staged(certFile, f)
  /\ Permitted(dir, request, "register", f, p, certFile)

revoke(dir, request, f) == Permitted(dir, request, "revoke", f, None, None)

-----------------------------------------------------------------------------
\* The helper runs for a request as hellingd writes it.
Registers(dir, u, f, p) == register(dir, Manifest("register", u, f, p), f, p, <<u, f>>)
Revokes(dir, u, f, p) == revoke(dir, Manifest("revoke", u, f, p), f)

Runs(dir, action, u, f, p) ==
  IF action = "register" THEN Registers(dir, u, f, p) ELSE Revokes(dir, u, f, p)

\* The policy of the moment lets it, or does not.
MayRun(action, u, f, p) == \E dir \in PolicyDirs : Runs(dir, action, u, f, p)
MayRefuse(action, u, f, p) == \E dir \in PolicyDirs : ~Runs(dir, action, u, f, p)
=============================================================================
