----------------------------- MODULE UsersStore -----------------------------
(***************************************************************************)
(* What the two implementations of the users database share               *)
(* (users/db/db.go): the values that are stored, the outcome of a call,    *)
(* and the checks on an organization that come before either of them       *)
(* saves it.  Ids are numbers handed out in order of creation; external    *)
(* ids, emails, tokens and secrets are values without structure.           *)
(***************************************************************************)
EXTENDS Naturals, Sequences, FiniteSets, TLC

CONSTANTS
    Null,          \* SQL's NULL and Go's nil
    Emails,        \* email addresses, in lower case
    LoginIDs,      \* accounts at the one login provider
    ExternalIDs,   \* external ids of organizations, in lower case
    TeamIDs,       \* external ids of teams, in lower case
    TeamNames,     \* names for teams, different for any two case foldings
    Tokens,        \* probe tokens
    Accounts,      \* external ids of GCP accounts
    Secrets        \* secret ids of webhooks

(***************************************************************************)
(* A call maps a database to the database it leaves behind and what it     *)
(* returns.  Then is the "if err != nil { return err }" between two steps. *)
(***************************************************************************)
Ok(d, v) == [ok |-> TRUE, db |-> d, out |-> v]

Fail(d, e) == [ok |-> FALSE, db |-> d, out |-> e]

Then(r, Step(_, _)) == IF r.ok THEN Step(r.db, r.out) ELSE r

\* Go's nil error.
Nil == "nil"

Roles == {"admin", "viewer"}

(***************************************************************************)
(* The columns of an organization a caller sets.  A time is a number, zero *)
(* time is 0.  Columns holds the ones an organization is created with.     *)
(***************************************************************************)
FirstSeen == {"seen", "seen_flux", "seen_net", "seen_prom", "seen_scope"}

Columns ==
    [c \in FirstSeen \cup {"pending", "expired", "weekly", "zuora_at"} |-> Null]
    @@ [platform |-> "", environment |-> "", zuora |-> "", reason |-> "",
        version |-> "", access |-> FALSE, upload |-> FALSE, cleanup |-> FALSE]

\* environments.json, cut down to two platforms.
Environments(platform) ==
    CASE platform = "kubernetes" -> {"gke", "generic"}
      [] platform = "ecs" -> {"aws"}
      [] OTHER -> {}

Platforms == {"kubernetes", "ecs"}

(***************************************************************************)
(* Organization.Valid: the first check that fails, or Nil.                 *)
(***************************************************************************)
Valid(cols) ==
    CASE cols.name = "" -> "ErrOrgNameCannotBeBlank"
      [] cols.platform = "" /\ cols.environment # "" -> "ErrOrgPlatformRequired"
      [] cols.environment = "" /\ cols.platform # "" -> "ErrOrgEnvironmentRequired"
      [] cols.platform # "" /\ cols.platform \notin Platforms -> "ErrOrgPlatformInvalid"
      [] /\ cols.environment # ""
         /\ cols.environment \notin Environments(cols.platform) -> "ErrOrgEnvironmentInvalid"
      [] cols.trial = 0 -> "ErrOrgTrialExpiresInvalid"
      [] OTHER -> Nil

\* timeutil.ZeroTimeIsNil
ZeroTimeIsNil(t) == IF t = 0 THEN Null ELSE t

(***************************************************************************)
(* Applies an OrgWriteView, a function from the fields that are not nil.   *)
(***************************************************************************)
Written(cols, update) ==
    [c \in DOMAIN update |-> IF c \in {"pending", "expired"}
                             THEN ZeroTimeIsNil(update[c]) ELSE update[c]] @@ cols

HasFeatureFlag(flags, f) == \E i \in DOMAIN flags : flags[i] = f

\* DefaultTeamName: a name of its own for each external id; here, the id itself.
DefaultTeamName(x) == x

\* Removes the keys in S from a function.
Without(f, S) == [k \in DOMAIN f \ S |-> f[k]]
=============================================================================
