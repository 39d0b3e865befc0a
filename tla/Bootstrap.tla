----------------------------- MODULE Bootstrap -----------------------------
(***************************************************************************)
(* The bootstrap transaction with which New prepares a database            *)
(* (bootstrap.go), in any number of processes at once.                     *)
(*                                                                         *)
(* The catalog maps the objects bootstrap makes to their committed state;  *)
(* a transaction sees its own changes (draft) over it.  "database" is the  *)
(* row that holds the privileges on the database; the privileges on the    *)
(* schemas and on the gateway functions are in the rows of those.  A       *)
(* transaction that wants to change a row another one has changed waits    *)
(* for it, and goes on if that is rolled back; it fails if that commits,   *)
(* or if PostgreSQL finds the two waiting for each other.                  *)
(***************************************************************************)
EXTENDS Integers, FiniteSets

CONSTANTS
    Managers,    \* calls of New
    Identity,    \* the role each one connects as
    NoManager

ASSUME NoManagerAssumption == NoManager \notin Managers
ASSUME IdentityAssumption == \A m \in Managers : Identity[m] # "none"

Objects == {"internal", "api", "version", "islets", "database", "gateway"}

VARIABLES
    catalog,    \* the committed state of the objects
    draft,      \* what the transaction of each manager has changed
    advisory,   \* who holds the advisory lock
    boot,       \* where each bootstrap stands
    fate,       \* how it ended
    supported,  \* is the server PostgreSQL 17 or 18?
    exposed     \* does another schema grant access to PUBLIC?

bootVars == <<catalog, draft, advisory, boot, fate, supported, exposed>>

BootSteps == {"begin", "lock", "schemas", "owned", "version", "readVersion", "tables",
              "database", "scan", "gateway", "commit"}

Booting == {m \in Managers : boot[m] \in BootSteps}

NoChanges == [o \in {} |-> "none"]

\* A database nobody has prepared, one that a Manager has, and ones that
\* somebody else uses or a newer version has prepared.
Fresh == [o \in Objects |-> "none"]
Prepared(role) == [o \in Objects |-> CASE o \in {"internal", "api"} -> role
                                      [] o = "version" -> "1" [] OTHER -> "made"]

BootInit ==
    /\ catalog \in {Fresh, [Fresh EXCEPT !["internal"] = "somebody"], Prepared("somebody")}
                   \cup {Prepared(Identity[m]) : m \in Managers}
                   \cup {[Prepared(Identity[m]) EXCEPT !["version"] = "2"] : m \in Managers}
    /\ draft = [m \in Managers |-> NoChanges]
    /\ advisory = NoManager
    /\ boot = [m \in Managers |-> "new"]
    /\ fate = [m \in Managers |-> "none"]
    /\ supported \in BOOLEAN
    /\ exposed \in BOOLEAN

\* The function f, and g where f says nothing.
Over(f, g) == [x \in DOMAIN f \cup DOMAIN g |-> IF x \in DOMAIN f THEN f[x] ELSE g[x]]

\* What the transaction of m sees.
View(m) == Over(draft[m], catalog)

\* bootstrap returns; what was not committed is rolled back.
BootEnds(m, end) ==
    /\ boot' = [boot EXCEPT ![m] = "done"]
    /\ fate' = [fate EXCEPT ![m] = end]
    /\ draft' = [draft EXCEPT ![m] = NoChanges]
    /\ advisory' = IF advisory = m THEN NoManager ELSE advisory

BootFails(m, end) == BootEnds(m, end) /\ UNCHANGED <<catalog, supported, exposed>>

BootGoto(m, next) ==
    /\ boot' = [boot EXCEPT ![m] = next]
    /\ UNCHANGED <<catalog, draft, advisory, fate, supported, exposed>>

\* A test: m goes on, or the database is not supported.
Require(m, at, test, next) ==
    /\ boot[m] = at
    /\ \/ test /\ BootGoto(m, next)
       \/ ~test /\ BootFails(m, "unsupported")

\* A statement that changes some objects, whose rows other bootstraps or other
\* transactions (held) may have changed.
Change(m, at, changes, held, next) ==
    LET rivals == UNION {DOMAIN draft[k] : k \in Managers \ {m}}
        clash(rows) == rows \cap DOMAIN changes # {} IN
    /\ boot[m] = at
    /\ \/ clash(rivals) /\ BootFails(m, "collision")
       \/ clash(held) /\ BootFails(m, "conflict")
       \/ /\ ~clash(rivals) /\ ~clash(held)
          /\ draft' = [draft EXCEPT ![m] = Over(changes, @)]
          /\ boot' = [boot EXCEPT ![m] = next]
          /\ UNCHANGED <<catalog, advisory, fate, supported, exposed>>

\* The objects of a set that m does not see yet, with the state they get.
Missing(m, objects, state) == [o \in {x \in objects : View(m)[x] = "none"} |-> state]

CheckServer(m) == Require(m, "begin", supported, "lock")

\* As LockFree, but the lock is shared.
LockFreeShared == TRUE

LockFree == advisory = NoManager

\* pg_advisory_xact_lock
LockBootstrap(m) ==
    /\ boot[m] = "lock"
    /\ LockFree
    /\ advisory' = m
    /\ boot' = [boot EXCEPT ![m] = "schemas"]
    /\ UNCHANGED <<catalog, draft, fate, supported, exposed>>

CreateSchemas(m, held) ==
    Change(m, "schemas", Missing(m, {"internal", "api"}, Identity[m]), held, "owned")

\* As Owned, but somebody else may own one of them.
OwnedOne(m) == \E s \in {"internal", "api"} : View(m)[s] = Identity[m]

\* Both schemas belong to the role of m.
Owned(m) == \A s \in {"internal", "api"} : View(m)[s] = Identity[m]

CheckOwner(m) == Require(m, "owned", Owned(m), "version")

\* PUBLIC loses its privileges on the schemas; the version table is made and
\* filled unless it is there.
WriteVersion(m, held) ==
    Change(m, "version",
           Over(Missing(m, {"version"}, "1"), [o \in {"internal", "api"} |-> View(m)[o]]),
           held, "readVersion")

ReadVersion(m) == Require(m, "readVersion", View(m)["version"] = "1", "tables")

\* The REVOKEs that go with the tables, on them and on schema public, are left
\* out: they run under the same lock and no property is about them.
CreateTables(m, held) == Change(m, "tables", Missing(m, {"islets"}, "made"), held, "database")

RevokeDatabase(m, held) == Change(m, "database", [o \in {"database"} |-> "made"], held, "scan")

CheckExposed(m) == Require(m, "scan", ~exposed, "gateway")

\* CREATE OR REPLACE of enter and finish, and the list of reserved names.
CreateGateway(m, held) == Change(m, "gateway", [o \in {"gateway"} |-> "made"], held, "commit")

\* COMMIT succeeds, or fails, after being executed or not.
CommitBootstrap(m) ==
    /\ boot[m] = "commit"
    /\ \/ BootEnds(m, "ready") /\ catalog' = View(m)
       \/ BootEnds(m, "failure") /\ catalog' \in {catalog, View(m)}
    /\ UNCHANGED <<supported, exposed>>

\* A statement of bootstrap, or its COMMIT.
BootStep(m, held) ==
    \/ CheckServer(m) \/ LockBootstrap(m) \/ CreateSchemas(m, held) \/ CheckOwner(m)
    \/ WriteVersion(m, held) \/ ReadVersion(m) \/ CreateTables(m, held)
    \/ RevokeDatabase(m, held) \/ CheckExposed(m) \/ CreateGateway(m, held)
    \/ CommitBootstrap(m)

\* A statement fails or times out, or the process dies.
BootStepFails(m) == m \in Booting /\ BootFails(m, "failure")

\* Bootstraps never collide with each other, however many processes start at
\* once: what fails one of them is a lifecycle transaction, the database or its
\* state (the advisory lock that covers every change up to COMMIT).
BootstrapsSerialized == \A m \in Managers : fate[m] # "collision"

\* A Manager that New returns has a complete registry of its own version, in
\* schemas that belong to its role, and keeps it whatever later bootstraps do,
\* succeed or not.
ReadyComplete ==
    \A m \in Managers : fate[m] = "ready" => catalog = Prepared(Identity[m])

=============================================================================
