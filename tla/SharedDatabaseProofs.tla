------------------------ MODULE SharedDatabaseProofs ------------------------
(***************************************************************************)
(* BootstrapsSerialized and ReadyComplete for any number of Managers,      *)
(* calls and islets.  The inductive invariant says that only the holder of *)
(* the advisory lock has changed anything, that a bootstrap never changes  *)
(* what is committed into something else, and what its transaction has     *)
(* ascertained at each of its steps.  A second invariant, with the types,  *)
(* accounts for every connection of the pools, and a third for the locks   *)
(* that calls hold while they wait.                                        *)
(***************************************************************************)
EXTENDS SharedDatabase, FiniteSetTheorems, TLAPS

\* The steps of a bootstrap that has the advisory lock, and those it takes
\* after each thing it makes sure of.
Made == {"commit"}
Revoked == Made \cup {"scan", "gateway"}
Tabled == Revoked \cup {"database"}
Versioned == Tabled \cup {"tables"}
Checked == Versioned \cup {"version", "readVersion"}
Inside == Checked \cup {"schemas", "owned"}

\* The objects that are either missing or there.
Plain == {"islets", "database", "gateway"}

\* What the committed state may be.
Sound(f) == f = [o \in Objects |-> f[o]] /\ \A o \in Plain : f[o] \in {"none", "made"}

\* What the functions of the state are.
Shape ==
    /\ Sound(catalog)
    /\ draft = [m \in Managers |-> draft[m]]
    /\ boot = [m \in Managers |-> boot[m]]
    /\ fate = [m \in Managers |-> fate[m]]
    /\ \A m \in Managers : DOMAIN draft[m] \subseteq Objects

\* Only the holder of the lock is inside, and only who is inside has changes.
Exclusive ==
    \A m \in Managers : /\ boot[m] \in Inside => advisory = m
                        /\ boot[m] \notin Inside => DOMAIN draft[m] = {}

\* Nothing that is committed is changed into something else.
Keeps(f) == \A o \in DOMAIN f : /\ catalog[o] # "none" => f[o] = catalog[o]
                                /\ o \in Plain => f[o] \in {"none", "made"}

\* What o is for the transaction of m.
Sees(m, o) == IF o \in DOMAIN draft[m] THEN draft[m][o] ELSE catalog[o]

\* What the transaction of m has ascertained.
Ascertained(m) ==
    /\ boot[m] \in Checked => Sees(m, "internal") = Identity[m] /\ Sees(m, "api") = Identity[m]
    /\ boot[m] \in Versioned => Sees(m, "version") = "1"
    /\ boot[m] \in Tabled => Sees(m, "islets") = "made"
    /\ boot[m] \in Revoked => Sees(m, "database") = "made"
    /\ boot[m] \in Made => Sees(m, "gateway") = "made"

BootInv ==
    /\ Shape
    /\ Exclusive
    /\ \A m \in Managers : Keeps(draft[m])
    /\ \A m \in Managers : Ascertained(m)
    /\ BootstrapsSerialized
    /\ ReadyComplete

\* A transaction sees its own changes over the committed state.
LEMMA ViewIs ==
    ASSUME Shape, NEW m \in Managers
    PROVE  View(m) = [o \in Objects |-> Sees(m, o)]
BY DEF View, Shape, Sound, Sees, Over

\* A prepared database, object by object.
LEMMA PreparedIs ==
    ASSUME NEW role
    PROVE  /\ Prepared(role) = [o \in Objects |-> Prepared(role)[o]]
           /\ Prepared(role)["internal"] = role /\ Prepared(role)["api"] = role
           /\ Prepared(role)["version"] = "1"
           /\ \A o \in Plain : Prepared(role)[o] = "made"
BY DEF Prepared, Objects, Plain

\* The invariant holds at first.
LEMMA BootInvInit == BootInit => BootInv
<1> SUFFICES ASSUME BootInit PROVE BootInv
  OBVIOUS
<1>1. Shape
  <2>1. Sound(Fresh)
    BY DEF Sound, Fresh, Objects, Plain
  <2>2. ASSUME NEW role PROVE Sound(Prepared(role))
    BY DEF Sound, Prepared, Objects, Plain
  <2>3. ASSUME NEW f, Sound(f), NEW o \in {"internal", "version"}, NEW v
        PROVE  Sound([f EXCEPT ![o] = v])
    BY <2>3 DEF Sound, Plain
  <2>4. Sound(catalog)
    BY <2>1, <2>2, <2>3, IdentityAssumption DEF BootInit
  <2> QED
    BY <2>4 DEF BootInit, Shape, NoChanges
<1>2. Exclusive
  BY DEF BootInit, Exclusive, Inside, Checked, Versioned, Tabled, Revoked, Made, NoChanges
<1>3. \A m \in Managers : Keeps(draft[m])
  BY DEF BootInit, Keeps, NoChanges
<1>4. \A m \in Managers : Ascertained(m)
  BY DEF BootInit, Ascertained, Inside, Checked, Versioned, Tabled, Revoked, Made
<1>5. BootstrapsSerialized /\ ReadyComplete
  BY DEF BootInit, BootstrapsSerialized, ReadyComplete
<1> QED
  BY <1>1, <1>2, <1>3, <1>4, <1>5 DEF BootInv

\* A bootstrap that ends without a commit.
LEMMA BootFailsKeeps ==
    ASSUME BootInv, NEW m \in Managers, NEW end, end \notin {"ready", "collision"},
           BootFails(m, end)
    PROVE  BootInv'
<1>1. /\ catalog' = catalog
      /\ boot' = [boot EXCEPT ![m] = "done"] /\ fate' = [fate EXCEPT ![m] = end]
      /\ draft' = [draft EXCEPT ![m] = NoChanges]
      /\ advisory' = IF advisory = m THEN NoManager ELSE advisory
  BY DEF BootFails, BootEnds
<1>2. DOMAIN NoChanges = {}
  BY DEF NoChanges
<1>3. Shape'
  BY <1>1, <1>2 DEF BootInv, Shape
<1>4. "done" \notin Inside
  BY DEF Inside, Checked, Versioned, Tabled, Revoked, Made
<1>5. Exclusive'
  BY <1>1, <1>2, <1>4 DEF BootInv, Shape, Exclusive
<1>6. \A k \in Managers : Keeps(draft[k])'
  BY <1>1, <1>2 DEF BootInv, Shape, Keeps
<1>7. \A k \in Managers : Ascertained(k)'
  BY <1>1, <1>2, <1>4 DEF BootInv, Shape, Ascertained, Sees, Inside, Checked, Versioned, Tabled, Revoked, Made
<1>8. BootstrapsSerialized' /\ ReadyComplete'
  BY <1>1 DEF BootInv, Shape, BootstrapsSerialized, ReadyComplete
<1> QED
  BY <1>3, <1>5, <1>6, <1>7, <1>8 DEF BootInv

\* A step that only goes on, if what the next one relies on is ascertained.
LEMMA BootGotoKeeps ==
    ASSUME BootInv, NEW m \in Managers, NEW next, BootGoto(m, next),
           boot[m] \in Inside <=> next \in Inside,
           Ascertained(m)'
    PROVE  BootInv'
<1>1. /\ catalog' = catalog /\ draft' = draft /\ advisory' = advisory /\ fate' = fate
      /\ boot' = [boot EXCEPT ![m] = next]
  BY DEF BootGoto
<1>2. Shape'
  BY <1>1 DEF BootInv, Shape
<1>3. Exclusive'
  BY <1>1 DEF BootInv, Shape, Exclusive
<1>4. \A k \in Managers : Keeps(draft[k])'
  BY <1>1 DEF BootInv, Keeps
<1>5. \A k \in Managers : Ascertained(k)'
  <2> SUFFICES ASSUME NEW k \in Managers, k # m PROVE Ascertained(k)'
    OBVIOUS
  <2> QED
    BY <1>1 DEF BootInv, Shape, Ascertained, Sees
<1>6. BootstrapsSerialized' /\ ReadyComplete'
  BY <1>1 DEF BootInv, BootstrapsSerialized, ReadyComplete
<1> QED
  BY <1>2, <1>3, <1>4, <1>5, <1>6 DEF BootInv

\* Who is inside has nobody to collide with.
LEMMA NoRival ==
    ASSUME BootInv, NEW m \in Managers, boot[m] \in Inside, NEW k \in Managers \ {m}
    PROVE  boot[k] \notin Inside /\ DOMAIN draft[k] = {}
BY DEF BootInv, Exclusive

\* A step that changes objects fails because of a lifecycle transaction, or
\* keeps the invariant except for what it is there to ascertain.
LEMMA ChangeKeeps ==
    ASSUME BootInv, NEW m \in Managers, NEW at0 \in Inside, NEW next \in Inside,
           NEW changes, NEW held, Change(m, at0, changes, held, next),
           DOMAIN changes \subseteq Objects, Keeps(changes),
           /\ boot' = [boot EXCEPT ![m] = next]
           /\ \A o \in Objects : Sees(m, o)' = IF o \in DOMAIN changes THEN changes[o] ELSE Sees(m, o)
           => Ascertained(m)'
    PROVE  BootInv'
<1>1. boot[m] \in Inside
  BY DEF Change
<1>2. \A k \in Managers \ {m} : boot[k] \notin Inside /\ DOMAIN draft[k] = {}
  BY <1>1, NoRival
<1>3. UNION {DOMAIN draft[k] : k \in Managers \ {m}} = {}
  BY <1>2
<1>4. CASE BootFails(m, "conflict")
  BY <1>4, BootFailsKeeps
<1>5. CASE /\ draft' = [draft EXCEPT ![m] = Over(changes, @)]
           /\ boot' = [boot EXCEPT ![m] = next]
           /\ catalog' = catalog /\ advisory' = advisory /\ fate' = fate
  <2>1. draft'[m] = Over(changes, draft[m])
    BY <1>5 DEF BootInv, Shape
  <2>2. /\ DOMAIN draft'[m] = DOMAIN changes \cup DOMAIN draft[m]
        /\ \A o \in DOMAIN draft'[m] :
              draft'[m][o] = IF o \in DOMAIN changes THEN changes[o] ELSE draft[m][o]
    BY <2>1 DEF Over
  <2>3. \A k \in Managers \ {m} : draft'[k] = draft[k] /\ boot'[k] = boot[k]
    BY <1>5 DEF BootInv, Shape
  <2>4. Shape'
    BY <1>5, <2>2, <2>3 DEF BootInv, Shape
  <2>5. Exclusive'
    BY <1>1, <1>5, <2>3 DEF BootInv, Shape, Exclusive
  <2>6. \A k \in Managers : Keeps(draft[k])'
    BY <1>5, <2>2, <2>3 DEF BootInv, Keeps
  <2>7. \A o \in Objects : Sees(m, o)' = IF o \in DOMAIN changes THEN changes[o] ELSE Sees(m, o)
    BY <1>5, <2>2 DEF Sees
  <2>8. \A k \in Managers : Ascertained(k)'
    <3> SUFFICES ASSUME NEW k \in Managers, k # m PROVE Ascertained(k)'
      BY <1>5, <2>7
    <3> QED
      BY <1>5, <2>3 DEF BootInv, Shape, Ascertained, Sees
  <2>9. BootstrapsSerialized' /\ ReadyComplete'
    BY <1>5 DEF BootInv, BootstrapsSerialized, ReadyComplete
  <2> QED
    BY <2>4, <2>5, <2>6, <2>8, <2>9 DEF BootInv
<1> QED
  BY <1>3, <1>4, <1>5 DEF Change

\* The committed state is what a transaction sees that has no changes of its
\* own in the way.
LEMMA SeesKept ==
    ASSUME BootInv, NEW m \in Managers, NEW o \in Objects
    PROVE  /\ View(m)[o] = Sees(m, o)
           /\ catalog[o] # "none" => Sees(m, o) = catalog[o]
           /\ o \in Plain => Sees(m, o) \in {"none", "made"}
<1>1. View(m)[o] = Sees(m, o)
  BY ViewIs DEF BootInv
<1> QED
  BY <1>1 DEF BootInv, Shape, Sound, Keeps, Sees

\* What is made because it is missing replaces nothing.
LEMMA MissingKeeps ==
    ASSUME BootInv, NEW m \in Managers, NEW objects \in SUBSET Objects, NEW state,
           state = "made" \/ objects \cap Plain = {}
    PROVE  /\ DOMAIN Missing(m, objects, state) = {o \in objects : Sees(m, o) = "none"}
           /\ \A o \in DOMAIN Missing(m, objects, state) : Missing(m, objects, state)[o] = state
           /\ Keeps(Missing(m, objects, state))
BY SeesKept DEF Missing, Keeps

\* Who gets the advisory lock finds nobody inside (bootstrap.go:30).
LEMMA LockBootstrapKeeps ==
    ASSUME BootInv, NEW m \in Managers, LockBootstrap(m)
    PROVE  BootInv'
<1>1. /\ catalog' = catalog /\ draft' = draft /\ fate' = fate /\ advisory' = m
      /\ boot' = [boot EXCEPT ![m] = "schemas"] /\ advisory = NoManager
  BY DEF LockBootstrap, LockFree
<1>2. \A k \in Managers : boot[k] \notin Inside
  BY <1>1, NoManagerAssumption DEF BootInv, Exclusive
<1>3. Shape'
  BY <1>1 DEF BootInv, Shape
<1>4. Exclusive'
  BY <1>1, <1>2 DEF BootInv, Shape, Exclusive, Inside
<1>5. \A k \in Managers : Keeps(draft[k])'
  BY <1>1 DEF BootInv, Keeps
<1>6. \A k \in Managers : Ascertained(k)'
  BY <1>1 DEF BootInv, Shape, Ascertained, Sees, Checked, Versioned, Tabled, Revoked, Made
<1>7. BootstrapsSerialized' /\ ReadyComplete'
  BY <1>1 DEF BootInv, BootstrapsSerialized, ReadyComplete
<1> QED
  BY <1>3, <1>4, <1>5, <1>6, <1>7 DEF BootInv

\* Schemas that are there stay what they are (bootstrap.go:34).
LEMMA CreateSchemasKeeps ==
    ASSUME BootInv, NEW m \in Managers, NEW held, CreateSchemas(m, held)
    PROVE  BootInv'
<1> DEFINE made == Missing(m, {"internal", "api"}, Identity[m])
<1>1. Keeps(made) /\ DOMAIN made \subseteq Objects
  <2>1. {"internal", "api"} \in SUBSET Objects /\ {"internal", "api"} \cap Plain = {}
    BY DEF Objects, Plain
  <2>2. /\ DOMAIN made = {o \in {"internal", "api"} : Sees(m, o) = "none"}
        /\ Keeps(made)
    <3> HIDE DEF made
    <3>1. made = Missing(m, {"internal", "api"}, Identity[m])
      BY DEF made
    <3> QED
      BY <2>1, <3>1, MissingKeeps
  <2> QED
    BY <2>1, <2>2
<1>2. Change(m, "schemas", made, held, "owned")
  BY DEF CreateSchemas
<1>3. boot' = [boot EXCEPT ![m] = "owned"] => Ascertained(m)'
  BY DEF BootInv, Shape, Ascertained, Checked, Versioned, Tabled, Revoked, Made
<1>4. "schemas" \in Inside /\ "owned" \in Inside
  BY DEF Inside
<1> HIDE DEF made
<1> QED
  BY <1>1, <1>2, <1>3, <1>4, ChangeKeeps

\* So does a version that is there; the schemas keep their owner (bootstrap.go:48).
LEMMA WriteVersionKeeps ==
    ASSUME BootInv, NEW m \in Managers, NEW held, WriteVersion(m, held)
    PROVE  BootInv'
<1> DEFINE made == Missing(m, {"version"}, "1")
           changes == Over(made, [o \in {"internal", "api"} |-> View(m)[o]])
<1>1. /\ DOMAIN made = {o \in {"version"} : Sees(m, o) = "none"}
      /\ \A o \in DOMAIN made : made[o] = "1"
      /\ Keeps(made)
  BY MissingKeeps DEF Objects, Plain
<1>2. /\ DOMAIN changes = DOMAIN made \cup {"internal", "api"}
      /\ \A o \in DOMAIN changes : changes[o] = IF o \in DOMAIN made THEN made[o] ELSE View(m)[o]
  <2> HIDE DEF made
  <2> QED
    BY DEF Over
<1>3. DOMAIN changes \subseteq Objects
  BY <1>1, <1>2 DEF Objects
<1>4. \A o \in {"internal", "api"} : changes[o] = Sees(m, o)
  BY <1>1, <1>2, SeesKept DEF Objects
<1>5. Keeps(changes)
  <2> HIDE DEF made, changes
  <2> QED
    BY <1>1, <1>2, <1>3, SeesKept DEF Keeps
<1>6. Change(m, "version", changes, held, "readVersion")
  BY DEF WriteVersion
<1>7. boot[m] = "version" /\ "version" \in Checked /\ "readVersion" \in Checked
  BY <1>6 DEF Change, Checked
<1>8. "version" \in Inside /\ "readVersion" \in Inside
  BY <1>7 DEF Inside
<1>9. ASSUME boot' = [boot EXCEPT ![m] = "readVersion"],
             \A o \in Objects : Sees(m, o)' = IF o \in DOMAIN changes THEN changes[o] ELSE Sees(m, o)
      PROVE  Ascertained(m)'
  <2>1. boot'[m] = "readVersion" /\ "readVersion" \notin Versioned
    BY <1>9 DEF BootInv, Shape, Versioned, Tabled, Revoked, Made
  <2>2. Sees(m, "internal")' = Identity[m] /\ Sees(m, "api")' = Identity[m]
    <3> HIDE DEF made, changes
    <3> QED
      BY <1>4, <1>7, <1>9 DEF BootInv, Ascertained, Objects
  <2> QED
    BY <2>1, <2>2 DEF Ascertained, Versioned, Tabled, Revoked, Made
<1> HIDE DEF made, changes
<1> QED
  BY <1>3, <1>5, <1>6, <1>8, <1>9, ChangeKeeps

\* A step that makes a plain object, or finds it there.
LEMMA PlainChangeKeeps ==
    ASSUME BootInv, NEW m \in Managers, NEW held, NEW object \in Plain, NEW changes,
           NEW at0 \in Inside, NEW next \in Inside, Change(m, at0, changes, held, next),
           DOMAIN changes \subseteq {object}, \A o \in DOMAIN changes : changes[o] = "made",
           object \notin DOMAIN changes => Sees(m, object) # "none",
           /\ boot' = [boot EXCEPT ![m] = next] /\ boot[m] = at0
           /\ Sees(m, object)' = "made"
           /\ \A o \in Objects \ {object} : Sees(m, o)' = Sees(m, o)
           => Ascertained(m)'
    PROVE  BootInv'
<1>1. object \in Objects
  BY DEF Objects, Plain
<1>2. Keeps(changes)
  BY DEF BootInv, Shape, Sound, Keeps
<1>3. Sees(m, object) # "none" => Sees(m, object) = "made"
  BY <1>1, SeesKept
<1>4. boot[m] = at0
  BY DEF Change
<1>5. DOMAIN changes \subseteq Objects
  BY <1>1
<1>6. ASSUME boot' = [boot EXCEPT ![m] = next],
             \A o \in Objects : Sees(m, o)' = IF o \in DOMAIN changes THEN changes[o] ELSE Sees(m, o)
      PROVE  Ascertained(m)'
  <2>1. Sees(m, object)' = "made"
    BY <1>1, <1>3, <1>6
  <2>2. \A o \in Objects \ {object} : Sees(m, o)' = Sees(m, o)
    BY <1>6
  <2> QED
    BY <1>4, <1>6, <2>1, <2>2
<1> QED
  BY <1>2, <1>5, <1>6, ChangeKeeps

\* The registry's table (bootstrap.go:62).
LEMMA CreateTablesKeeps ==
    ASSUME BootInv, NEW m \in Managers, NEW held, CreateTables(m, held)
    PROVE  BootInv'
<1> DEFINE made == Missing(m, {"islets"}, "made")
<1>1. /\ DOMAIN made = {o \in {"islets"} : Sees(m, o) = "none"}
      /\ \A o \in DOMAIN made : made[o] = "made"
  BY MissingKeeps DEF Objects, Plain
<1>2. Change(m, "tables", made, held, "database")
  BY DEF CreateTables
<1>3. /\ boot' = [boot EXCEPT ![m] = "database"] /\ boot[m] = "tables"
      /\ Sees(m, "islets")' = "made"
      /\ \A o \in Objects \ {"islets"} : Sees(m, o)' = Sees(m, o)
      => Ascertained(m)'
  BY DEF BootInv, Shape, Ascertained, Checked, Versioned, Tabled, Revoked, Made, Objects
<1>4. "tables" \in Inside /\ "database" \in Inside /\ "islets" \in Plain
  BY DEF Inside, Checked, Versioned, Tabled, Plain
<1> HIDE DEF made
<1> QED
  BY <1>1, <1>2, <1>3, <1>4, PlainChangeKeeps

\* The privileges on the database (bootstrap.go:72).
LEMMA RevokeDatabaseKeeps ==
    ASSUME BootInv, NEW m \in Managers, NEW held, RevokeDatabase(m, held)
    PROVE  BootInv'
<1>1. Change(m, "database", [o \in {"database"} |-> "made"], held, "scan")
  BY DEF RevokeDatabase
<1>2. /\ boot' = [boot EXCEPT ![m] = "scan"] /\ boot[m] = "database"
      /\ Sees(m, "database")' = "made"
      /\ \A o \in Objects \ {"database"} : Sees(m, o)' = Sees(m, o)
      => Ascertained(m)'
  BY DEF BootInv, Shape, Ascertained, Checked, Versioned, Tabled, Revoked, Made, Objects
<1>3. "database" \in Inside /\ "scan" \in Inside /\ "database" \in Plain
  BY DEF Inside, Checked, Versioned, Tabled, Revoked, Plain
<1> QED
  BY <1>1, <1>2, <1>3, PlainChangeKeeps

\* The gateway functions (bootstrap.go:86).
LEMMA CreateGatewayKeeps ==
    ASSUME BootInv, NEW m \in Managers, NEW held, CreateGateway(m, held)
    PROVE  BootInv'
<1>1. Change(m, "gateway", [o \in {"gateway"} |-> "made"], held, "commit")
  BY DEF CreateGateway
<1>2. /\ boot' = [boot EXCEPT ![m] = "commit"] /\ boot[m] = "gateway"
      /\ Sees(m, "gateway")' = "made"
      /\ \A o \in Objects \ {"gateway"} : Sees(m, o)' = Sees(m, o)
      => Ascertained(m)'
  BY DEF BootInv, Shape, Ascertained, Checked, Versioned, Tabled, Revoked, Made, Objects
<1>3. "gateway" \in Inside /\ "commit" \in Inside /\ "gateway" \in Plain
  BY DEF Inside, Checked, Versioned, Tabled, Revoked, Made, Plain
<1> QED
  BY <1>1, <1>2, <1>3, PlainChangeKeeps

\* The tests of bootstrap.
LEMMA TestsKeep ==
    ASSUME BootInv, NEW m \in Managers,
           CheckServer(m) \/ CheckOwner(m) \/ ReadVersion(m) \/ CheckExposed(m)
    PROVE  BootInv'
<1> USE DEF Inside, Checked, Versioned, Tabled, Revoked, Made
<1>1. CASE CheckServer(m)
  <2>1. boot[m] = "begin" /\ (BootGoto(m, "lock") \/ BootFails(m, "unsupported"))
    BY <1>1 DEF CheckServer, Require
  <2>2. BootGoto(m, "lock") => Ascertained(m)'
    BY DEF BootGoto, BootInv, Shape, Ascertained
  <2> QED
    BY <2>1, <2>2, BootGotoKeeps, BootFailsKeeps
<1>2. CASE CheckOwner(m)
  <2>1. Owned(m) => Sees(m, "internal") = Identity[m] /\ Sees(m, "api") = Identity[m]
    BY SeesKept DEF Owned, Objects
  <2>2. /\ boot[m] = "owned"
        /\ (BootGoto(m, "version") /\ Owned(m)) \/ BootFails(m, "unsupported")
    BY <1>2 DEF CheckOwner, Require
  <2>3. BootGoto(m, "version") /\ Owned(m) => Ascertained(m)'
    BY <2>1 DEF BootGoto, BootInv, Shape, Ascertained, Sees
  <2> QED
    BY <2>2, <2>3, BootGotoKeeps, BootFailsKeeps
<1>3. CASE ReadVersion(m)
  <2>1. View(m)["version"] = Sees(m, "version")
    BY SeesKept DEF Objects
  <2>2. /\ boot[m] = "readVersion"
        /\ (BootGoto(m, "tables") /\ Sees(m, "version") = "1") \/ BootFails(m, "unsupported")
    BY <1>3, <2>1 DEF ReadVersion, Require
  <2>3. BootGoto(m, "tables") /\ boot[m] = "readVersion" /\ Sees(m, "version") = "1"
        => Ascertained(m)'
    BY DEF BootGoto, BootInv, Shape, Ascertained, Sees
  <2> QED
    BY <2>2, <2>3, BootGotoKeeps, BootFailsKeeps
<1>4. CASE CheckExposed(m)
  <2>1. boot[m] = "scan" /\ (BootGoto(m, "gateway") \/ BootFails(m, "unsupported"))
    BY <1>4 DEF CheckExposed, Require
  <2>2. BootGoto(m, "gateway") /\ boot[m] = "scan" => Ascertained(m)'
    BY DEF BootGoto, BootInv, Shape, Ascertained, Sees
  <2> QED
    BY <2>1, <2>2, BootGotoKeeps, BootFailsKeeps
<1> QED
  BY <1>1, <1>2, <1>3, <1>4

\* What a bootstrap commits is a complete registry, and what was committed
\* before stays.
LEMMA CommittedIs ==
    ASSUME BootInv, NEW m \in Managers, boot[m] = "commit"
    PROVE  View(m) = Prepared(Identity[m])
<1>1. /\ Sees(m, "internal") = Identity[m] /\ Sees(m, "api") = Identity[m]
      /\ Sees(m, "version") = "1"
      /\ \A o \in Plain : Sees(m, o) = "made"
  BY DEF BootInv, Ascertained, Checked, Versioned, Tabled, Revoked, Made, Plain
<1>2. \A o \in Objects : Prepared(Identity[m])[o] = Sees(m, o)
  BY <1>1, PreparedIs DEF Objects, Plain
<1>3. View(m) = [o \in Objects |-> Sees(m, o)]
  BY ViewIs DEF BootInv
<1> QED
  BY <1>2, <1>3, PreparedIs

\* COMMIT, answered or not (bootstrap.go:114).
LEMMA CommitKeeps ==
    ASSUME BootInv, NEW m \in Managers, CommitBootstrap(m)
    PROVE  BootInv'
<1> USE DEF Inside, Checked, Versioned, Tabled, Revoked, Made
<1>1. boot[m] = "commit" /\ View(m) = Prepared(Identity[m])
  BY CommittedIs DEF CommitBootstrap
<1>2. CASE BootFails(m, "failure")
  BY <1>2, BootFailsKeeps
<1>3. CASE /\ catalog' = View(m)
           /\ BootEnds(m, "ready") \/ BootEnds(m, "failure")
  <2>1. /\ boot' = [boot EXCEPT ![m] = "done"]
        /\ \E end \in {"ready", "failure"} : fate' = [fate EXCEPT ![m] = end]
        /\ draft' = [draft EXCEPT ![m] = NoChanges]
        /\ advisory' = IF advisory = m THEN NoManager ELSE advisory
    BY <1>3 DEF BootEnds
  <2>2. \A k \in Managers : DOMAIN draft'[k] = {} /\ boot'[k] \notin Inside
    BY <1>1, <2>1, NoRival DEF BootInv, Shape, NoChanges
  <2>3. Sound(catalog')
    BY <1>1, <1>3, PreparedIs DEF Sound
  <2>4. Shape'
    BY <2>1, <2>2, <2>3 DEF BootInv, Shape
  <2>5. Exclusive' /\ \A k \in Managers : Keeps(draft[k])' /\ Ascertained(k)'
    BY <2>2 DEF Exclusive, Keeps, Ascertained
  <2>6. BootstrapsSerialized'
    BY <2>1 DEF BootInv, Shape, BootstrapsSerialized
  <2>7. ASSUME NEW k \in Managers, fate'[k] = "ready" PROVE catalog' = Prepared(Identity[k])
    <3>1. CASE k = m
      BY <1>1, <1>3, <3>1
    <3>2. CASE k # m
      <4>1. catalog = Prepared(Identity[k])
        BY <2>1, <2>7, <3>2 DEF BootInv, Shape, ReadyComplete
      <4>2. \A o \in Objects : catalog[o] # "none"
        BY <4>1, PreparedIs, IdentityAssumption DEF Objects, Plain
      <4>3. \A o \in Objects : Sees(m, o) = catalog[o]
        BY <4>2, SeesKept
      <4>4. View(m) = catalog
        BY <4>3, ViewIs DEF BootInv, Shape, Sound
      <4> QED
        BY <1>3, <4>1, <4>4
    <3> QED
      BY <3>1, <3>2
  <2> QED
    BY <2>4, <2>5, <2>6, <2>7 DEF BootInv, ReadyComplete
<1> QED
  BY <1>2, <1>3 DEF CommitBootstrap, BootFails

\* Every step keeps the invariant.
LEMMA BootInvNext == BootInv /\ [Next]_vars => BootInv'
<1> SUFFICES ASSUME BootInv, [Next]_vars PROVE BootInv'
  OBVIOUS
<1>1. CASE UNCHANGED bootVars
  <2>1. /\ catalog' = catalog /\ draft' = draft /\ advisory' = advisory
        /\ boot' = boot /\ fate' = fate
    BY <1>1 DEF bootVars
  <2> QED
    BY <2>1 DEF BootInv, Shape, Sound, Exclusive, Keeps, Ascertained, Sees,
                BootstrapsSerialized, ReadyComplete
<1>2. ASSUME NEW m \in Managers, New(m) PROVE BootInv'
  <2>1. /\ catalog' = catalog /\ draft' = draft /\ advisory' = advisory /\ fate' = fate
        /\ boot' = [boot EXCEPT ![m] = "begin"] /\ boot[m] = "new"
    BY <1>2 DEF New
  <2>2. boot[m] \notin Inside /\ "begin" \notin Inside
    BY <2>1 DEF Inside, Checked, Versioned, Tabled, Revoked, Made
  <2>3. Shape' /\ Exclusive'
    BY <2>1, <2>2 DEF BootInv, Shape, Exclusive
  <2>4. \A k \in Managers : Keeps(draft[k])' /\ Ascertained(k)'
    BY <2>1, <2>2 DEF BootInv, Shape, Keeps, Ascertained, Sees,
                      Inside, Checked, Versioned, Tabled, Revoked, Made
  <2> QED
    BY <2>1, <2>3, <2>4 DEF BootInv, BootstrapsSerialized, ReadyComplete
<1>3. ASSUME NEW m \in Managers, Bootstraps(m) PROVE BootInv'
  BY <1>3, LockBootstrapKeeps, CreateSchemasKeeps, WriteVersionKeeps, CreateTablesKeeps,
     RevokeDatabaseKeeps, CreateGatewayKeeps, TestsKeep, CommitKeeps DEF Bootstraps, BootStep
<1>4. ASSUME NEW m \in Managers, BootstrapFails(m) PROVE BootInv'
  BY <1>4, BootFailsKeeps DEF BootstrapFails, BootStepFails
<1>5. ASSUME NEW m \in Managers, CloseManager(m) \/ PoolCloses(m) PROVE UNCHANGED bootVars
  BY <1>5 DEF CloseManager, PoolCloses
<1>6. ASSUME NEW c \in Calls, Call(c) \/ Progress(c) \/ Fails(c) PROVE UNCHANGED bootVars
  BY <1>6 DEF Call, Progress, Fails
<1>7. CASE Quiet \/ UNCHANGED vars
  BY <1>1, <1>7 DEF Quiet, vars
<1> QED
  BY <1>1, <1>2, <1>3, <1>4, <1>5, <1>6, <1>7 DEF Next

\* The invariant holds in every reachable state.
LEMMA BootInvariant == Spec => []BootInv
<1>1. Init => BootInv
  BY BootInvInit DEF Init
<1> QED
  BY <1>1, BootInvNext, PTL DEF Spec

\* Bootstraps of any number of processes never collide (bootstrap.go:30).
THEOREM BootstrapsAreSerialized == Spec => []BootstrapsSerialized
<1>1. BootInv => BootstrapsSerialized
  BY DEF BootInv
<1> QED
  BY <1>1, BootInvariant, PTL

\* Whoever New returns a Manager to has a complete registry of his own, and
\* keeps it, however many other processes bootstrap, fail or crash.
THEOREM ReadyIsComplete == Spec => []ReadyComplete
<1>1. BootInv => ReadyComplete
  BY DEF BootInv
<1> QED
  BY <1>1, BootInvariant, PTL


(***************************************************************************)
(* Types and the balance of the pools.  Every connection of a pool is      *)
(* free, with a call, or with the bootstrap of its Manager.                *)
(***************************************************************************)

Balanced ==
    \A m \in Managers : /\ IsFiniteSet(Users(m))
                        /\ free[m] \in Nat
                        /\ free[m] + Cardinality(Users(m)) + BootUses(m) = PoolSize

\* The states of an object, and the fates of a bootstrap.
States == {"none", "made", "1", "2", "somebody"} \cup {Identity[m] : m \in Managers}
Fates == {"none", "ready", "unsupported", "collision", "conflict", "failure"}

Valued(f) == \A o \in DOMAIN f : f[o] \in States

BootTyped ==
    /\ Valued(catalog)
    /\ \A m \in Managers : Valued(draft[m])
    /\ advisory \in Managers \cup {NoManager}
    /\ boot \in [Managers -> BootSteps \cup {"new", "done"}]
    /\ fate \in [Managers -> Fates]
    /\ supported \in BOOLEAN /\ exposed \in BOOLEAN
    /\ \A m \in Managers : fate[m] = "ready" => boot[m] = "done"

Places == Holding \cup Waiting \cup AtRuntime \cup {"idle", "done"}

PoolTyped ==
    /\ free = [m \in Managers |-> free[m]]
    /\ pool \in [Managers -> {"open", "closing", "closed"}]
    /\ at \in [Calls -> Places]
    /\ job \in [Calls -> [kind : Kinds \cup {"none"}, by : Managers \cup {Nobody},
                          id : Islets \cup {Nobody}]]
    /\ islet \in [Islets -> Calls \cup {"ready", "gone"}]
    /\ rowLock \in [Islets -> Calls \cup {Nobody}]
    /\ granting = [c \in Calls |-> granting[c]]

\* The rows a call can have changed before the last one.
Partly == {{}, {"database"}, {"database", "api"}}

\* A call runs on a Manager that New has returned; it changes rows one after
\* the other, in its transaction only.
Placed(c) ==
    /\ Active(c) => /\ job[c].by \in Managers /\ job[c].id \in Islets
                    /\ fate[job[c].by] = "ready"
    /\ granting[c] \in Partly \cup {{"database", "api", "gateway"}}
    /\ at[c] \in {"work", "create"} => granting[c] \in Partly
    /\ at[c] \notin {"work", "create", "commit"} => granting[c] = {}

PoolInv == BootTyped /\ PoolTyped /\ Balanced /\ \A c \in Calls : Placed(c)

\* A Manager whose bootstrap has not ended serves no call.
LEMMA NoUsersYet ==
    ASSUME PoolInv, NEW m \in Managers, boot[m] # "done"
    PROVE  Users(m) = {}
BY DEF PoolInv, BootTyped, Placed, Users, HasConnection, Active

\* The next row is a row, and the calls change them in order.
LEMMA NextRowIs ==
    ASSUME NEW c \in Calls, granting[c] \in Partly
    PROVE  /\ granting[c] \cup {NextRow(c)} \in Partly \cup {{"database", "api", "gateway"}}
           /\ NextRow(c) # "gateway" => granting[c] \cup {NextRow(c)} \in Partly
<1>1. Cardinality({}) = 0
  BY FS_EmptySet
<1>2. IsFiniteSet({"database"}) /\ Cardinality({"database"}) = 1
  BY FS_Singleton
<1>3. Cardinality({"database", "api"}) = 2
  <2>1. {"database", "api"} = {"database"} \cup {"api"} /\ "api" \notin {"database"}
    OBVIOUS
  <2>2. Cardinality({"database"} \cup {"api"})
        = IF "api" \in {"database"} THEN Cardinality({"database"}) ELSE Cardinality({"database"}) + 1
    BY <1>2, FS_AddElement
  <2> QED
    BY <1>2, <2>1, <2>2
<1>4. CASE granting[c] = {}
  <2>1. NextRow(c) = "database"
    BY <1>1, <1>4 DEF NextRow, GrantRows
  <2> QED
    BY <1>4, <2>1 DEF Partly
<1>5. CASE granting[c] = {"database"}
  <2>1. NextRow(c) = "api"
    BY <1>2, <1>5 DEF NextRow, GrantRows
  <2> QED
    BY <1>5, <2>1 DEF Partly
<1>6. CASE granting[c] = {"database", "api"}
  <2>1. NextRow(c) = "gateway"
    BY <1>3, <1>6 DEF NextRow, GrantRows
  <2> QED
    BY <1>6, <2>1 DEF Partly
<1> QED
  BY <1>4, <1>5, <1>6 DEF Partly

\* A call that goes from one place to another takes or gives back a connection
\* just if it has one at only one of them.
Moves(c, p) ==
    /\ at' = [at EXCEPT ![c] = p]
    /\ job' = job
    /\ \/ at[c] \in Holding /\ p \in Holding /\ free' = free
       \/ at[c] \notin Holding /\ p \notin Holding /\ free' = free
       \/ at[c] \in Holding /\ p \notin Holding /\ free' = [free EXCEPT ![job[c].by] = @ + 1]
       \/ /\ at[c] \notin Holding /\ p \in Holding
          /\ free[job[c].by] > 0 /\ free' = [free EXCEPT ![job[c].by] = @ - 1]

LEMMA MoveBalances ==
    ASSUME PoolInv, NEW c \in Calls, Active(c), NEW p, Moves(c, p), boot' = boot
    PROVE  Balanced'
<1> SUFFICES ASSUME NEW m \in Managers
             PROVE  /\ IsFiniteSet(Users(m)')
                    /\ free'[m] \in Nat
                    /\ free'[m] + Cardinality(Users(m)') + BootUses(m)' = PoolSize
  BY DEF Balanced
<1>1. /\ IsFiniteSet(Users(m)) /\ free[m] \in Nat /\ Cardinality(Users(m)) \in Nat
      /\ free[m] + Cardinality(Users(m)) + BootUses(m) = PoolSize
  BY FS_CardinalityType DEF PoolInv, Balanced
<1>2. BootUses(m)' = BootUses(m) /\ BootUses(m) \in {0, 1}
  BY DEF BootUses
<1>3. PoolSize \in Nat
  BY PoolSizeAssumption
<1>4. job[c].by \in Managers
  BY DEF PoolInv, Placed
<1>5. /\ \A d \in Calls : at'[d] = IF d = c THEN p ELSE at[d]
      /\ job' = job
  BY DEF Moves, PoolInv, PoolTyped
<1>6. CASE job[c].by # m \/ (at[c] \in Holding <=> p \in Holding)
  <2>1. Users(m)' = Users(m)
    BY <1>5, <1>6 DEF Users, HasConnection
  <2>2. free'[m] = free[m]
    BY <1>4, <1>6 DEF Moves, PoolInv, PoolTyped
  <2> QED
    BY <1>1, <1>2, <2>1, <2>2
<1>7. CASE job[c].by = m /\ at[c] \in Holding /\ p \notin Holding
  <2>1. Users(m)' = Users(m) \ {c} /\ c \in Users(m)
    BY <1>5, <1>7 DEF Users, HasConnection
  <2>2. IsFiniteSet(Users(m)') /\ Cardinality(Users(m)') = Cardinality(Users(m)) - 1
    BY <1>1, <2>1, FS_RemoveElement
  <2>3. free'[m] = free[m] + 1
    BY <1>4, <1>7 DEF Moves, PoolInv, PoolTyped
  <2> QED
    BY <1>1, <1>2, <1>3, <2>2, <2>3
<1>8. CASE job[c].by = m /\ at[c] \notin Holding /\ p \in Holding
  <2>1. Users(m)' = Users(m) \cup {c} /\ c \notin Users(m)
    BY <1>5, <1>8 DEF Users, HasConnection
  <2>2. IsFiniteSet(Users(m)') /\ Cardinality(Users(m)') = Cardinality(Users(m)) + 1
    BY <1>1, <2>1, FS_AddElement
  <2>3. free'[m] = free[m] - 1 /\ free[m] > 0
    BY <1>4, <1>8 DEF Moves, PoolInv, PoolTyped
  <2> QED
    BY <1>1, <1>2, <1>3, <2>2, <2>3
<1> QED
  BY <1>6, <1>7, <1>8

\* Calls go on one at a time, each by a move that keeps the other variables in
\* their types.
LEMMA CallMoves ==
    ASSUME PoolInv, NEW c \in Calls, NEW held, CallStep(c, held) \/ CallFails(c)
    PROVE  /\ Active(c) /\ pool' = pool
           /\ \E p \in Places \ {"idle"} : Moves(c, p)
<1> USE DEF Holding, Waiting, AtRuntime, Places
<1>1. AfterFailure(c) \in {"mark", "open", "done"}
  BY DEF AfterFailure
<1>2. CASE Acquire(c)
  <2>1. at[c] \in Waiting /\ Acquired(c) \in Holding
    BY <1>2 DEF Acquire, Acquired
  <2>2. Moves(c, Acquired(c)) /\ pool' = pool
    BY <1>2, <2>1 DEF Acquire, At, Moves
  <2> QED
    BY <2>1, <2>2 DEF Active
<1>3. CASE AcquireClosed(c)
  <2>1. Moves(c, AfterFailure(c)) /\ pool' = pool /\ at[c] \in Waiting
    BY <1>1, <1>3 DEF AcquireClosed, At, Moves
  <2> QED
    BY <1>1, <2>1 DEF Active
<1>4. ASSUME GiveUp(c), at[c] \in {"lock", "create"}
      PROVE  Moves(c, AfterFailure(c)) /\ pool' = pool /\ Active(c)
  BY <1>1, <1>4 DEF GiveUp, At, Returned, Moves, Active
<1>5. CASE LockRow(c)
  <2>1. CASE GiveUp(c)
    BY <1>1, <1>4, <1>5, <2>1 DEF LockRow
  <2>2. CASE At(c, "work") /\ UNCHANGED <<free, pool, job>>
    <3>1. Moves(c, "work")
      BY <1>5, <2>2 DEF LockRow, At, Moves
    <3> QED
      BY <1>5, <2>2, <3>1 DEF LockRow, Active
  <2> QED
    BY <1>5, <2>1, <2>2 DEF LockRow
<1>6. ASSUME Grant(c, "commit"), at[c] \in {"work", "create"}
      PROVE  \E p \in {"work", "create", "commit"} : Moves(c, p) /\ pool' = pool
  <2>1. PICK p \in {"work", "create", "commit"} : At(c, p)
    BY <1>6 DEF Grant
  <2> QED
    BY <1>6, <2>1 DEF Grant, At, Moves
<1>7. CASE Work(c, held)
  <2>1. CASE Grant(c, "commit")
    BY <1>6, <1>7, <2>1 DEF Work, Active
  <2>2. CASE At(c, "commit") /\ UNCHANGED <<free, pool, job>>
    <3>1. Moves(c, "commit")
      BY <1>7, <2>2 DEF Work, At, Moves
    <3> QED
      BY <1>7, <2>2, <3>1 DEF Work, Active
  <2> QED
    BY <1>7, <2>1, <2>2 DEF Work
<1>8. CASE CreateIslet(c, held)
  BY <1>1, <1>4, <1>6, <1>8 DEF CreateIslet, Active
<1>9. ASSUME Returned(c), at[c] \in Holding, NEW p \in {"lookup", "enter", "mark", "run", "open", "done"},
             At(c, p), UNCHANGED <<pool, job>>
      PROVE  Active(c) /\ pool' = pool /\ \E q \in Places \ {"idle"} : Moves(c, q)
  <2>1. Moves(c, p)
    BY <1>9 DEF Returned, At, Moves
  <2> QED
    BY <1>9, <2>1 DEF Active
<1>10. CASE CommitLifecycle(c)
  <2>1. \E p \in {"lookup", "done"} : At(c, p)
    BY <1>10 DEF CommitLifecycle
  <2> QED
    BY <1>9, <1>10, <2>1 DEF CommitLifecycle
<1>11. CASE Lookup(c)
  <2>1. \E p \in {"mark", "open", "done", "enter"} : At(c, p)
    BY <1>1, <1>11 DEF Lookup
  <2> QED
    BY <1>9, <1>11, <2>1 DEF Lookup
<1>12. CASE CheckBatch(c) \/ Mark(c) \/ Open(c)
  BY <1>9, <1>12 DEF CheckBatch, Mark, Open
<1>13. CASE Enter(c) \/ Run(c)
  <2>1. \E p \in {"check", "mark", "open", "done"} : At(c, p)
    BY <1>1, <1>13 DEF Enter, Run
  <2>2. at[c] \in AtRuntime /\ UNCHANGED <<free, pool, job>>
    BY <1>13 DEF Enter, Run
  <2>3. \E p \in {"check", "mark", "open", "done"} : Moves(c, p)
    BY <2>1, <2>2 DEF At, Moves
  <2> QED
    BY <2>2, <2>3 DEF Active
<1>14. CASE CallFails(c)
  <2>1. Moves(c, AfterFailure(c))
    BY <1>1, <1>14 DEF CallFails, At, HasConnection, Moves
  <2> QED
    BY <1>1, <1>14, <2>1 DEF CallFails
<1> QED
  BY <1>2, <1>3, <1>5, <1>7, <1>8, <1>10, <1>11, <1>12, <1>13, <1>14 DEF CallStep

\* What a call leaves of its islet and of the lock on its row.
LEMMA CallTyped ==
    ASSUME PoolInv, NEW c \in Calls, NEW held, CallStep(c, held) \/ CallFails(c)
    PROVE  /\ islet' \in [Islets -> Calls \cup {"ready", "gone"}]
           /\ rowLock' \in [Islets -> Calls \cup {Nobody}]
<1>1. job[c].id \in Islets
  BY CallMoves DEF PoolInv, Placed
<1>2. /\ islet \in [Islets -> Calls \cup {"ready", "gone"}]
      /\ rowLock \in [Islets -> Calls \cup {Nobody}]
  BY DEF PoolInv, PoolTyped
<1>3. Effect(c) \in Calls \cup {"ready", "gone"}
  BY <1>1, <1>2 DEF Effect
<1>4. islet' \in {islet, [islet EXCEPT ![job[c].id] = Effect(c)], [islet EXCEPT ![job[c].id] = "ready"]}
  BY DEF CallStep, CallFails, Acquire, AcquireClosed, LockRow, GiveUp, Work, Grant, CreateIslet,
         CommitLifecycle, Lookup, Enter, CheckBatch, Run, Mark, Open
<1>5. \/ rowLock' = rowLock
      \/ Unlocked(c)
      \/ rowLock' = [rowLock EXCEPT ![job[c].id] = c]
  BY DEF CallStep, CallFails, Acquire, AcquireClosed, LockRow, GiveUp, Work, Grant, CreateIslet,
         CommitLifecycle, Lookup, Enter, CheckBatch, Run, Mark, Open
<1>6. islet' \in [Islets -> Calls \cup {"ready", "gone"}]
  BY <1>1, <1>2, <1>3, <1>4
<1>7. rowLock' \in [Islets -> Calls \cup {Nobody}]
  BY <1>1, <1>2, <1>5 DEF Unlocked
<1> QED
  BY <1>6, <1>7

\* A call changes rows in its transaction, one after the other.
LEMMA CallPlaced ==
    ASSUME PoolInv, NEW c \in Calls, NEW held, CallStep(c, held) \/ CallFails(c)
    PROVE  /\ granting' = [granting EXCEPT ![c] = granting'[c]]
           /\ granting'[c] \in Partly \cup {{"database", "api", "gateway"}}
           /\ at'[c] \in {"work", "create"} => granting'[c] \in Partly
           /\ at'[c] \notin {"work", "create", "commit"} => granting'[c] = {}
<1> USE DEF Holding, Waiting, AtRuntime
<1>1. at \in [Calls -> Places] /\ granting = [d \in Calls |-> granting[d]]
  BY DEF PoolInv, PoolTyped
<1>2. Placed(c)
  BY DEF PoolInv
<1>3. {} \in Partly /\ "work" # "commit" /\ "create" # "commit"
  BY DEF Partly
<1>4. AfterFailure(c) \in {"mark", "open", "done"}
  BY DEF AfterFailure
<1>5. CASE granting' = granting /\ granting[c] = {}
  BY <1>1, <1>3, <1>5
<1>6. CASE granting' = [granting EXCEPT ![c] = {}]
  BY <1>1, <1>3, <1>6
<1>7. ASSUME Grant(c, "commit"), at[c] \in {"work", "create"}
      PROVE  /\ granting' = [granting EXCEPT ![c] = granting'[c]]
             /\ granting'[c] \in Partly \cup {{"database", "api", "gateway"}}
             /\ at'[c] \in {"work", "create"} => granting'[c] \in Partly
             /\ at'[c] \in {"work", "create", "commit"}
  <2>1. granting' = [granting EXCEPT ![c] = granting[c] \cup {NextRow(c)}]
        /\ at'[c] = IF NextRow(c) = "gateway" THEN "commit" ELSE at[c]
    BY <1>1, <1>7 DEF Grant, At
  <2>2. granting'[c] = granting[c] \cup {NextRow(c)}
    BY <1>1, <2>1
  <2>3. granting[c] \in Partly
    BY <1>2, <1>7 DEF Placed
  <2>4. /\ granting[c] \cup {NextRow(c)} \in Partly \cup {{"database", "api", "gateway"}}
        /\ NextRow(c) # "gateway" => granting[c] \cup {NextRow(c)} \in Partly
    BY <2>3, NextRowIs
  <2> QED
    BY <1>7, <2>1, <2>2, <2>4
<1>8. CASE Acquire(c)
  <2>1. granting' = granting /\ granting[c] = {}
    BY <1>2, <1>8 DEF Acquire, Placed
  <2> QED
    BY <1>5, <2>1
<1>9. CASE AcquireClosed(c) \/ Lookup(c) \/ Enter(c) \/ CheckBatch(c) \/ Run(c) \/ Mark(c) \/ Open(c)
  <2>1. granting' = granting /\ granting[c] = {}
    BY <1>2, <1>9 DEF AcquireClosed, Lookup, Enter, CheckBatch, Run, Mark, Open, Placed
  <2> QED
    BY <1>5, <2>1
<1>10. CASE LockRow(c)
  <2>1. granting' = [granting EXCEPT ![c] = {}] \/ (granting' = granting /\ granting[c] = {})
    BY <1>2, <1>10 DEF LockRow, GiveUp, Placed
  <2> QED
    BY <1>5, <1>6, <2>1
<1>11. CASE Work(c, held) \/ CreateIslet(c, held)
  <2>1. \/ Grant(c, "commit") /\ at[c] \in {"work", "create"}
        \/ granting' = [granting EXCEPT ![c] = {}]
    BY <1>11 DEF Work, CreateIslet, GiveUp
  <2> QED
    BY <1>6, <1>7, <2>1
<1>12. CASE CommitLifecycle(c) \/ CallFails(c)
  BY <1>6, <1>12 DEF CommitLifecycle, CallFails
<1> QED
  BY <1>8, <1>9, <1>10, <1>11, <1>12 DEF CallStep

\* A step of a call, or its failure, keeps the invariant.
LEMMA CallKeeps ==
    ASSUME PoolInv, NEW c \in Calls, NEW held, CallStep(c, held) \/ CallFails(c),
           UNCHANGED bootVars
    PROVE  PoolInv'
<1>1. PICK p \in Places \ {"idle"} : Moves(c, p)
  BY CallMoves
<1>2. Active(c) /\ pool' = pool
  BY CallMoves
<1>3. /\ catalog' = catalog /\ draft' = draft /\ advisory' = advisory /\ boot' = boot
      /\ fate' = fate /\ supported' = supported /\ exposed' = exposed
  BY DEF bootVars
<1>4. BootTyped'
  BY <1>3 DEF PoolInv, BootTyped, Valued
<1>5. Balanced'
  BY <1>1, <1>2, <1>3, MoveBalances
<1>6. /\ at' = [at EXCEPT ![c] = p] /\ job' = job
      /\ at \in [Calls -> Places] /\ granting = [d \in Calls |-> granting[d]]
      /\ free = [m \in Managers |-> free[m]]
  BY <1>1 DEF Moves, PoolInv, PoolTyped
<1>7. free' = [m \in Managers |-> free'[m]]
  BY <1>1, <1>6 DEF Moves
<1>8. PoolTyped'
  BY <1>2, <1>6, <1>7, CallTyped, CallPlaced DEF PoolInv, PoolTyped
<1>9. ASSUME NEW d \in Calls PROVE Placed(d)'
  <2>1. CASE d = c
    <3>1. job[c].by \in Managers /\ job[c].id \in Islets /\ fate[job[c].by] = "ready"
      BY <1>2 DEF PoolInv, Placed
    <3> QED
      BY <1>3, <1>6, <2>1, <3>1, CallPlaced DEF Placed
  <2>2. CASE d # c
    <3>1. at'[d] = at[d] /\ granting'[d] = granting[d]
      BY <1>6, <2>2, CallPlaced
    <3> QED
      BY <1>3, <1>6, <3>1 DEF PoolInv, Placed, Active
  <2> QED
    BY <2>1, <2>2
<1> QED
  BY <1>4, <1>5, <1>8, <1>9 DEF PoolInv

\* A call that begins has nothing yet.
LEMMA InvokeKeeps ==
    ASSUME PoolInv, NEW c \in Calls, Call(c)
    PROVE  PoolInv'
<1>1. PICK kind \in Kinds, m \in Ready, i \in Islets : Invoke(c, kind, m, i)
  BY DEF Call
<1>2. /\ at[c] = "idle" /\ job' = [job EXCEPT ![c] = [kind |-> kind, by |-> m, id |-> i]]
      /\ at' = [at EXCEPT ![c] = Entry(kind)]
      /\ UNCHANGED <<free, pool, islet, rowLock, granting>>
  BY <1>1 DEF Invoke, At
<1>3. Entry(kind) \in Waiting
  BY DEF Entry, Waiting
<1>4. m \in Managers /\ fate[m] = "ready"
  BY DEF Ready
<1>5. /\ catalog' = catalog /\ draft' = draft /\ advisory' = advisory /\ boot' = boot
      /\ fate' = fate /\ supported' = supported /\ exposed' = exposed
  BY DEF Call, bootVars
<1>6. /\ at \in [Calls -> Places]
      /\ job \in [Calls -> [kind : Kinds \cup {"none"}, by : Managers \cup {Nobody},
                            id : Islets \cup {Nobody}]]
  BY DEF PoolInv, PoolTyped
<1>7. /\ \A d \in Calls : at'[d] = IF d = c THEN Entry(kind) ELSE at[d]
      /\ \A d \in Calls : d # c => job'[d] = job[d]
      /\ job'[c].by = m /\ job'[c].id = i
  BY <1>2, <1>6
<1>8. BootTyped'
  BY <1>5 DEF PoolInv, BootTyped, Valued
<1>9. PoolTyped'
  <2>1. at' \in [Calls -> Places]
    BY <1>2, <1>3, <1>6 DEF Places
  <2>2. job' \in [Calls -> [kind : Kinds \cup {"none"}, by : Managers \cup {Nobody},
                            id : Islets \cup {Nobody}]]
    BY <1>2, <1>4, <1>6
  <2> QED
    BY <1>2, <2>1, <2>2 DEF PoolInv, PoolTyped
<1>10. Balanced'
  <2>1. Entry(kind) \notin Holding /\ at[c] \notin Holding
    BY <1>2, <1>3 DEF Waiting, Holding
  <2>2. \A k \in Managers : Users(k)' = Users(k) /\ BootUses(k)' = BootUses(k)
    BY <1>5, <1>7, <2>1 DEF Users, HasConnection, BootUses
  <2> QED
    BY <1>2, <2>2 DEF PoolInv, Balanced
<1>11. ASSUME NEW d \in Calls PROVE Placed(d)'
  <2>1. CASE d = c
    <3>1. granting[c] = {} /\ {} \in Partly
      BY <1>2 DEF PoolInv, Placed, Partly
    <3>2. granting'[c] = {} /\ fate'[job'[c].by] = "ready"
      BY <1>2, <1>4, <1>5, <1>7, <3>1
    <3> QED
      BY <1>4, <1>7, <2>1, <3>1, <3>2 DEF Placed
  <2>2. CASE d # c
    BY <1>2, <1>5, <1>7, <2>2 DEF PoolInv, Placed, Active
  <2> QED
    BY <2>1, <2>2
<1> QED
  BY <1>8, <1>9, <1>10, <1>11 DEF PoolInv

\* Where a step of a bootstrap leads.
LEMMA BootMoves ==
    ASSUME BootInv, PoolInv, NEW m \in Managers, NEW held, BootStep(m, held) \/ BootStepFails(m)
    PROVE  /\ boot[m] \in BootSteps
           /\ supported' = supported /\ exposed' = exposed
           /\ advisory' \in {advisory, m, NoManager}
           /\ \E next \in BootSteps \cup {"done"}, end \in Fates :
                 /\ boot' = [boot EXCEPT ![m] = next] /\ fate' = [fate EXCEPT ![m] = end]
                 /\ end = "ready" => next = "done"
<1>1. boot[m] \in BootSteps => fate[m] \in Fates \ {"ready"} /\ fate = [fate EXCEPT ![m] = fate[m]]
  BY DEF PoolInv, BootTyped, BootSteps
<1>2. ASSUME NEW end \in Fates, BootFails(m, end), boot[m] \in BootSteps
      PROVE  /\ supported' = supported /\ exposed' = exposed
             /\ advisory' \in {advisory, m, NoManager}
             /\ boot' = [boot EXCEPT ![m] = "done"] /\ fate' = [fate EXCEPT ![m] = end]
  BY <1>2 DEF BootFails, BootEnds
<1>3. CASE BootStepFails(m)
  <2>1. boot[m] \in BootSteps /\ BootFails(m, "failure")
    BY <1>3 DEF BootStepFails, Booting
  <2> QED
    BY <1>2, <2>1 DEF Fates
<1>4. ASSUME NEW from \in BootSteps, NEW test, NEW next \in BootSteps, Require(m, from, test, next)
      PROVE  /\ boot[m] \in BootSteps
             /\ supported' = supported /\ exposed' = exposed
             /\ advisory' \in {advisory, m, NoManager}
             /\ \E to \in BootSteps \cup {"done"}, end \in Fates :
                   /\ boot' = [boot EXCEPT ![m] = to] /\ fate' = [fate EXCEPT ![m] = end]
                   /\ end = "ready" => to = "done"
  <2>1. boot[m] \in BootSteps
    BY <1>4 DEF Require
  <2>2. CASE BootGoto(m, next)
    BY <1>1, <2>1, <2>2 DEF BootGoto
  <2>3. CASE BootFails(m, "unsupported")
    BY <1>2, <2>1, <2>3 DEF Fates
  <2> QED
    BY <1>4, <2>2, <2>3 DEF Require
<1>5. ASSUME NEW from \in BootSteps, NEW changes, NEW rows, NEW next \in BootSteps,
             Change(m, from, changes, rows, next)
      PROVE  /\ boot[m] \in BootSteps
             /\ supported' = supported /\ exposed' = exposed
             /\ advisory' \in {advisory, m, NoManager}
             /\ \E to \in BootSteps \cup {"done"}, end \in Fates :
                   /\ boot' = [boot EXCEPT ![m] = to] /\ fate' = [fate EXCEPT ![m] = end]
                   /\ end = "ready" => to = "done"
  <2>1. boot[m] \in BootSteps
    BY <1>5 DEF Change
  <2>2. CASE boot' = [boot EXCEPT ![m] = next] /\ UNCHANGED <<catalog, advisory, fate, supported, exposed>>
    BY <1>1, <2>1, <2>2
  <2>3. CASE BootFails(m, "collision") \/ BootFails(m, "conflict")
    BY <1>2, <2>1, <2>3 DEF Fates
  <2> QED
    BY <1>5, <2>2, <2>3 DEF Change
<1>6. CASE LockBootstrap(m)
  <2>1. boot[m] \in BootSteps /\ "schemas" \in BootSteps
    BY <1>6 DEF LockBootstrap, BootSteps
  <2> QED
    BY <1>1, <1>6, <2>1 DEF LockBootstrap
<1>7. CASE CommitBootstrap(m)
  <2>1. boot[m] \in BootSteps /\ \E end \in {"ready", "failure"} : BootEnds(m, end)
    BY <1>7 DEF CommitBootstrap, BootSteps
  <2> QED
    BY <1>7, <2>1 DEF CommitBootstrap, BootEnds, Fates
<1>8. BootSteps = {"begin", "lock", "schemas", "owned", "version", "readVersion", "tables",
                   "database", "scan", "gateway", "commit"}
  BY DEF BootSteps
<1>9. CASE CheckServer(m) \/ CheckOwner(m) \/ ReadVersion(m) \/ CheckExposed(m)
  BY <1>4, <1>8, <1>9 DEF CheckServer, CheckOwner, ReadVersion, CheckExposed
<1>10. CASE \/ CreateSchemas(m, held) \/ WriteVersion(m, held) \/ CreateTables(m, held)
            \/ RevokeDatabase(m, held) \/ CreateGateway(m, held)
  BY <1>5, <1>8, <1>10 DEF CreateSchemas, WriteVersion, CreateTables, RevokeDatabase, CreateGateway
<1> QED
  BY <1>3, <1>6, <1>7, <1>9, <1>10 DEF BootStep

\* What a bootstrap writes are states of objects.
LEMMA BootValued ==
    ASSUME BootInv, PoolInv, NEW m \in Managers, NEW held, BootStep(m, held) \/ BootStepFails(m)
    PROVE  Valued(catalog') /\ \A k \in Managers : Valued(draft'[k])
<1>1. Valued(catalog) /\ \A k \in Managers : Valued(draft[k])
  BY DEF PoolInv, BootTyped
<1>2. draft = [k \in Managers |-> draft[k]] /\ catalog = [o \in Objects |-> catalog[o]]
      /\ \A k \in Managers : DOMAIN draft[k] \subseteq Objects
  BY DEF BootInv, Shape, Sound
<1>3. /\ DOMAIN View(m) = Objects
      /\ \A o \in Objects : View(m)[o] \in States
  BY <1>1, <1>2, ViewIs DEF BootInv, Sees, Valued
<1>4. Valued(View(m)) /\ Valued(NoChanges)
  BY <1>3 DEF Valued, NoChanges
<1>5. ASSUME catalog' \in {catalog, View(m)},
             draft' = draft \/ draft' = [draft EXCEPT ![m] = NoChanges]
      PROVE  Valued(catalog') /\ \A k \in Managers : Valued(draft'[k])
  BY <1>1, <1>2, <1>4, <1>5
<1>6. ASSUME NEW from, NEW changes, NEW rows, NEW next, Change(m, from, changes, rows, next),
             Valued(changes)
      PROVE  Valued(catalog') /\ \A k \in Managers : Valued(draft'[k])
  <2>1. CASE BootFails(m, "collision") \/ BootFails(m, "conflict")
    BY <1>5, <2>1 DEF BootFails, BootEnds
  <2>2. CASE draft' = [draft EXCEPT ![m] = Over(changes, @)] /\ catalog' = catalog
    <3>1. Valued(Over(changes, draft[m]))
      BY <1>1, <1>6 DEF Valued, Over
    <3> QED
      BY <1>1, <1>2, <2>2, <3>1
  <2> QED
    BY <1>6, <2>1, <2>2 DEF Change
<1>7. ASSUME NEW objects, NEW state \in States PROVE Valued(Missing(m, objects, state))
  BY DEF Valued, Missing
<1>8. Identity[m] \in States /\ "1" \in States /\ "made" \in States
  BY DEF States
<1>9. CASE \/ BootStepFails(m) \/ CheckServer(m) \/ LockBootstrap(m) \/ CheckOwner(m)
           \/ ReadVersion(m) \/ CheckExposed(m) \/ CommitBootstrap(m)
  <2>1. /\ catalog' \in {catalog, View(m)}
        /\ draft' = draft \/ draft' = [draft EXCEPT ![m] = NoChanges]
    BY <1>9 DEF BootStepFails, CheckServer, LockBootstrap, CheckOwner, ReadVersion, CheckExposed,
                CommitBootstrap, Require, BootGoto, BootFails, BootEnds
  <2> QED
    BY <1>5, <2>1
<1>10. CASE CreateSchemas(m, held)
  BY <1>6, <1>7, <1>8, <1>10 DEF CreateSchemas
<1>11. CASE WriteVersion(m, held)
  <2>1. Valued(Missing(m, {"version"}, "1"))
    BY <1>7, <1>8
  <2>2. Valued([o \in {"internal", "api"} |-> View(m)[o]])
    BY <1>3 DEF Valued, Objects
  <2>3. ASSUME NEW f, NEW g, Valued(f), Valued(g) PROVE Valued(Over(f, g))
    BY <2>3 DEF Valued, Over
  <2> QED
    BY <1>6, <1>11, <2>1, <2>2, <2>3 DEF WriteVersion
<1>12. CASE CreateTables(m, held)
  BY <1>6, <1>7, <1>8, <1>12 DEF CreateTables
<1>13. CASE RevokeDatabase(m, held) \/ CreateGateway(m, held)
  <2>1. Valued([o \in {"database"} |-> "made"]) /\ Valued([o \in {"gateway"} |-> "made"])
    BY <1>8 DEF Valued
  <2> QED
    BY <1>6, <1>13, <2>1 DEF RevokeDatabase, CreateGateway
<1> QED
  BY <1>9, <1>10, <1>11, <1>12, <1>13 DEF BootStep

\* A bootstrap gives its connection back when it ends, and only then.
LEMMA BootKeeps ==
    ASSUME BootInv, PoolInv, NEW m \in Managers, NEW held,
           BootStep(m, held) \/ BootStepFails(m), Settle(m),
           UNCHANGED <<at, job, islet, rowLock, granting>>
    PROVE  PoolInv'
<1>1. PICK next \in BootSteps \cup {"done"}, end \in Fates :
         /\ boot' = [boot EXCEPT ![m] = next] /\ fate' = [fate EXCEPT ![m] = end]
         /\ end = "ready" => next = "done"
  BY BootMoves
<1>2. boot[m] \in BootSteps /\ "done" \notin BootSteps
  BY BootMoves DEF BootSteps
<1>3. /\ boot \in [Managers -> BootSteps \cup {"new", "done"}] /\ fate \in [Managers -> Fates]
      /\ free = [k \in Managers |-> free[k]] /\ pool \in [Managers -> {"open", "closing", "closed"}]
      /\ fate[m] # "ready"
  BY <1>2 DEF PoolInv, BootTyped, PoolTyped
<1>4. BootTyped'
  <2>1. Valued(catalog') /\ \A k \in Managers : Valued(draft'[k])
    BY BootValued
  <2>2. advisory' \in Managers \cup {NoManager} /\ supported' \in BOOLEAN /\ exposed' \in BOOLEAN
    BY BootMoves DEF PoolInv, BootTyped
  <2>3. /\ boot' \in [Managers -> BootSteps \cup {"new", "done"}] /\ fate' \in [Managers -> Fates]
        /\ \A k \in Managers : fate'[k] = "ready" => boot'[k] = "done"
    BY <1>1, <1>3 DEF PoolInv, BootTyped
  <2> QED
    BY <2>1, <2>2, <2>3 DEF BootTyped
<1>5. /\ free' = IF next = "done" THEN [free EXCEPT ![m] = @ + 1] ELSE free
      /\ pool' \in {pool, [pool EXCEPT ![m] = "closing"]}
  BY <1>1, <1>3 DEF Settle
<1>6. PoolTyped'
  BY <1>3, <1>5 DEF PoolInv, PoolTyped
<1>7. Balanced'
  <2> SUFFICES ASSUME NEW k \in Managers
               PROVE  /\ IsFiniteSet(Users(k)')
                      /\ free'[k] \in Nat
                      /\ free'[k] + Cardinality(Users(k)') + BootUses(k)' = PoolSize
    BY DEF Balanced
  <2>1. /\ IsFiniteSet(Users(k)) /\ free[k] \in Nat /\ Cardinality(Users(k)) \in Nat
        /\ free[k] + Cardinality(Users(k)) + BootUses(k) = PoolSize
    BY FS_CardinalityType DEF PoolInv, Balanced
  <2>2. Users(k)' = Users(k)
    BY DEF Users, HasConnection
  <2>3. CASE k = m /\ next = "done"
    <3>1. free'[k] = free[k] + 1 /\ BootUses(k) = 1 /\ BootUses(k)' = 0
      BY <1>1, <1>2, <1>3, <1>5, <2>3 DEF BootUses
    <3> QED
      BY <2>1, <2>2, <3>1, PoolSizeAssumption
  <2>4. CASE k # m \/ next # "done"
    <3>1. free'[k] = free[k] /\ BootUses(k)' = BootUses(k)
      BY <1>1, <1>2, <1>3, <1>5, <2>4 DEF BootUses
    <3> QED
      BY <2>1, <2>2, <3>1
  <2> QED
    BY <2>3, <2>4
<1>8. ASSUME NEW c \in Calls PROVE Placed(c)'
  <2>1. Active(c) => fate'[job[c].by] = "ready"
    BY <1>1, <1>3 DEF PoolInv, Placed
  <2> QED
    BY <2>1 DEF PoolInv, Placed, Active
<1> QED
  BY <1>4, <1>6, <1>7, <1>8 DEF PoolInv

\* New takes a connection of a pool nobody uses yet, so there is one.
LEMMA NewKeeps ==
    ASSUME PoolInv, NEW m \in Managers, New(m)
    PROVE  PoolInv'
<1>1. /\ boot[m] = "new" /\ boot' = [boot EXCEPT ![m] = "begin"]
      /\ free' = [free EXCEPT ![m] = @ - 1]
      /\ catalog' = catalog /\ draft' = draft /\ advisory' = advisory /\ fate' = fate
      /\ supported' = supported /\ exposed' = exposed /\ pool' = pool /\ at' = at /\ job' = job
      /\ islet' = islet /\ rowLock' = rowLock /\ granting' = granting
  BY DEF New
<1>2. "begin" \in BootSteps /\ "new" \notin BootSteps
  BY DEF BootSteps
<1>3. BootTyped'
  BY <1>1, <1>2 DEF PoolInv, BootTyped, Valued
<1>4. PoolTyped'
  BY <1>1 DEF PoolInv, PoolTyped
<1>5. Balanced'
  <2> SUFFICES ASSUME NEW k \in Managers
               PROVE  /\ IsFiniteSet(Users(k)')
                      /\ free'[k] \in Nat
                      /\ free'[k] + Cardinality(Users(k)') + BootUses(k)' = PoolSize
    BY DEF Balanced
  <2>1. /\ IsFiniteSet(Users(k)) /\ free[k] \in Nat /\ Cardinality(Users(k)) \in Nat
        /\ free[k] + Cardinality(Users(k)) + BootUses(k) = PoolSize
    BY FS_CardinalityType DEF PoolInv, Balanced
  <2>2. Users(k)' = Users(k)
    BY <1>1 DEF Users, HasConnection
  <2>3. CASE k = m
    <3>1. Cardinality(Users(k)) = 0
      BY <1>1, <2>3, NoUsersYet, FS_EmptySet
    <3>2. free'[k] = free[k] - 1 /\ BootUses(k) = 0 /\ BootUses(k)' = 1
      BY <1>1, <1>2, <2>3 DEF PoolInv, BootTyped, PoolTyped, BootUses
    <3> QED
      BY <2>1, <2>2, <3>1, <3>2, PoolSizeAssumption
  <2>4. CASE k # m
    <3>1. free'[k] = free[k] /\ BootUses(k)' = BootUses(k)
      BY <1>1, <2>4 DEF PoolInv, BootTyped, PoolTyped, BootUses
    <3> QED
      BY <2>1, <2>2, <3>1
  <2> QED
    BY <2>3, <2>4
<1>6. \A c \in Calls : Placed(c)'
  BY <1>1 DEF PoolInv, Placed, Active
<1> QED
  BY <1>3, <1>4, <1>5, <1>6 DEF PoolInv

\* At first every connection is free.
LEMMA PoolInvInit == Init => PoolInv
<1> SUFFICES ASSUME Init PROVE PoolInv
  OBVIOUS
<1>1. BootInit /\ PoolInit
  BY DEF Init
<1>2. Valued(catalog)
  <2>1. Valued(Fresh) /\ Valued([Fresh EXCEPT !["internal"] = "somebody"])
    BY DEF Valued, Fresh, States, Objects
  <2>2. ASSUME NEW role \in States
        PROVE  Valued(Prepared(role)) /\ Valued([Prepared(role) EXCEPT !["version"] = "2"])
    BY DEF Valued, Prepared, States, Objects
  <2>3. "somebody" \in States /\ \A m \in Managers : Identity[m] \in States
    BY DEF States
  <2> QED
    BY <1>1, <2>1, <2>2, <2>3 DEF BootInit
<1>3. BootTyped
  BY <1>1, <1>2 DEF BootInit, BootTyped, Valued, NoChanges, Fates
<1>4. PoolTyped
  BY <1>1 DEF PoolInit, PoolTyped, Places
<1>5. Balanced
  <2>1. \A m \in Managers : /\ Users(m) = {} /\ BootUses(m) = 0 /\ free[m] = PoolSize
    BY <1>1 DEF PoolInit, BootInit, Users, HasConnection, Holding, BootUses, BootSteps
  <2> QED
    BY <2>1, FS_EmptySet, PoolSizeAssumption DEF Balanced
<1>6. \A c \in Calls : Placed(c)
  BY <1>1 DEF PoolInit, Placed, Active, Holding, Waiting, AtRuntime, Partly
<1> QED
  BY <1>3, <1>4, <1>5, <1>6 DEF PoolInv

\* Every step keeps types and balance.
LEMMA PoolInvNext == BootInv /\ PoolInv /\ [Next]_vars => PoolInv'
<1> SUFFICES ASSUME BootInv, PoolInv, [Next]_vars PROVE PoolInv'
  OBVIOUS
<1>1. ASSUME UNCHANGED <<bootVars, free, at, job, islet, rowLock, granting>>,
             pool' \in [Managers -> {"open", "closing", "closed"}]
      PROVE  PoolInv'
  <2>1. /\ catalog' = catalog /\ draft' = draft /\ advisory' = advisory /\ boot' = boot
        /\ fate' = fate /\ supported' = supported /\ exposed' = exposed
        /\ free' = free /\ at' = at /\ job' = job /\ islet' = islet /\ rowLock' = rowLock
        /\ granting' = granting
    BY <1>1 DEF bootVars
  <2>2. BootTyped'
    BY <2>1 DEF PoolInv, BootTyped, Valued
  <2>3. PoolTyped'
    BY <1>1, <2>1 DEF PoolInv, PoolTyped
  <2>4. Balanced'
    BY <2>1 DEF PoolInv, Balanced, Users, HasConnection, BootUses
  <2>5. \A c \in Calls : Placed(c)'
    BY <2>1 DEF PoolInv, Placed, Active
  <2> QED
    BY <2>2, <2>3, <2>4, <2>5 DEF PoolInv
<1>2. pool \in [Managers -> {"open", "closing", "closed"}]
  BY DEF PoolInv, PoolTyped
<1>3. CASE Quiet \/ UNCHANGED vars
  BY <1>1, <1>2, <1>3 DEF Quiet, vars, poolVars
<1>4. ASSUME NEW m \in Managers, CloseManager(m) \/ PoolCloses(m) PROVE PoolInv'
  <2>1. pool' \in [Managers -> {"open", "closing", "closed"}]
    BY <1>2, <1>4 DEF CloseManager, PoolCloses, Close, CloseEnds
  <2> QED
    BY <1>1, <1>4, <2>1 DEF CloseManager, PoolCloses, Close, CloseEnds
<1>5. ASSUME NEW m \in Managers, New(m) PROVE PoolInv'
  BY <1>5, NewKeeps
<1>6. ASSUME NEW m \in Managers, Bootstraps(m) \/ BootstrapFails(m) PROVE PoolInv'
  BY <1>6, BootKeeps DEF Bootstraps, BootstrapFails
<1>7. ASSUME NEW c \in Calls, Call(c) PROVE PoolInv'
  BY <1>7, InvokeKeeps
<1>8. ASSUME NEW c \in Calls, Progress(c) \/ Fails(c) PROVE PoolInv'
  BY <1>8, CallKeeps DEF Progress, Fails
<1> QED
  BY <1>3, <1>4, <1>5, <1>6, <1>7, <1>8 DEF Next

\* Types and balance in every reachable state.
LEMMA PoolInvariant == Spec => [](BootInv /\ PoolInv)
<1>1. Init => BootInv /\ PoolInv
  BY BootInvInit, PoolInvInit DEF Init
<1>2. BootInv /\ PoolInv /\ [Next]_vars => (BootInv /\ PoolInv)'
  BY BootInvNext, PoolInvNext
<1> QED
  BY <1>1, <1>2, PTL DEF Spec

\* The pools of any number of Managers never give out more connections than
\* they have, and no call or bootstrap gives one back twice.
THEOREM TypeCorrect == Spec => []TypeOK
<1>1. ASSUME BootInv, PoolInv PROVE TypeOK
  <2>1. \A o \in Objects : catalog[o] \in States
    BY <1>1 DEF BootInv, Shape, Sound, PoolInv, BootTyped, Valued
  <2>2. \A m \in Managers : DOMAIN draft[m] \subseteq Objects
    BY <1>1 DEF BootInv, Shape
  <2>3. granting \in [Calls -> SUBSET Objects]
    BY <1>1 DEF PoolInv, PoolTyped, Placed, Partly, Objects
  <2>4. ASSUME NEW m \in Managers PROVE free[m] \in 0 .. PoolSize
    <3>1. /\ free[m] \in Nat /\ Cardinality(Users(m)) \in Nat /\ BootUses(m) \in {0, 1}
          /\ free[m] + Cardinality(Users(m)) + BootUses(m) = PoolSize
      BY <1>1, FS_CardinalityType DEF PoolInv, Balanced, BootUses
    <3> QED
      BY <3>1
  <2>5. free \in [Managers -> 0 .. PoolSize]
    BY <1>1, <2>4 DEF PoolInv, PoolTyped
  <2> QED
    BY <1>1, <2>1, <2>2, <2>3, <2>5 DEF TypeOK, PoolInv, BootTyped, PoolTyped, States, Fates, Places
<1> QED
  BY <1>1, PoolInvariant, PTL

(***************************************************************************)
(* Waiting.  Whoever is in a row's transaction holds the row, and only he; *)
(* the advisory lock is with a bootstrap that is inside.                   *)
(***************************************************************************)

\* Where a batch has the row, and where any call has it.
InBatch == {"check", "checking", "run"}
Locking == InBatch \cup {"work", "commit"}

\* Who has a row is in a transaction on it, and the other way round, except
\* that a create has no row to lock.
RowsHeld ==
    /\ \A i \in Islets : rowLock[i] # Nobody =>
          at[rowLock[i]] \in Locking /\ job[rowLock[i]].id = i
    /\ \A c \in Calls : at[c] \in Locking /\ job[c].kind # "Create" => rowLock[job[c].id] = c

\* A create does nothing else and has no batch; a batch runs in an islet that
\* is ready or its own.
Batching == InBatch \cup {"lookup", "lookingUp", "enter"}

BatchesAdmitted ==
    \A c \in Calls : /\ at[c] = "create" => job[c].kind = "Create"
                     /\ at[c] \in Batching => job[c].kind # "Create"
                     /\ at[c] \in InBatch => islet[job[c].id] \in {"ready", c}

LockHeld == advisory # NoManager => boot[advisory] \in Inside

WaitInv == RowsHeld /\ BatchesAdmitted /\ LockHeld

\* What a call does to the lock on its row: it takes one that nobody has, keeps
\* what it has, or gives up whatever it has.
LEMMA CallLocks ==
    ASSUME PoolInv, NEW c \in Calls, NEW held, CallStep(c, held) \/ CallFails(c)
    PROVE  \/ /\ rowLock' = rowLock
              /\ \/ at[c] \in Locking /\ at'[c] \in Locking
                 \/ at[c] \notin Locking /\ at'[c] \notin Locking
                 \/ at[c] = "create"  /\ at'[c] = "commit"
           \/ /\ rowLock[job[c].id] = Nobody /\ at'[c] \in Locking
              /\ rowLock' = [rowLock EXCEPT ![job[c].id] = c]
           \/ Unlocked(c) /\ at'[c] \notin Locking
<1> USE DEF Locking, InBatch
<1>1. at \in [Calls -> Places]
  BY DEF PoolInv, PoolTyped
<1>2. AfterFailure(c) \in {"mark", "open", "done"}
  BY DEF AfterFailure
<1>3. CASE Acquire(c)
  <2>1. at[c] \in Waiting /\ at'[c] = Acquired(c) /\ rowLock' = rowLock
    BY <1>1, <1>3 DEF Acquire, At
  <2> QED
    BY <2>1 DEF Acquired, Waiting
<1>4. CASE AcquireClosed(c) \/ CallFails(c)
  BY <1>1, <1>2, <1>4 DEF AcquireClosed, CallFails, At
<1>5. ASSUME GiveUp(c) PROVE Unlocked(c) /\ at'[c] \notin Locking
  BY <1>1, <1>2, <1>5 DEF GiveUp, At
<1>6. CASE LockRow(c)
  <2>1. CASE LockOutcome(c) = "locked" /\ rowLock' = [rowLock EXCEPT ![job[c].id] = c] /\ At(c, "work")
    <3>1. rowLock[job[c].id] = Nobody
      BY <2>1 DEF LockOutcome
    <3> QED
      BY <1>1, <2>1, <3>1 DEF At
  <2> QED
    BY <1>5, <1>6, <2>1 DEF LockRow
<1>7. ASSUME Grant(c, "commit"), at[c] \in {"work", "create"}
      PROVE  rowLock' = rowLock /\ at'[c] \in {at[c], "commit"}
  BY <1>1, <1>7 DEF Grant, At
<1>8. CASE Work(c, held)
  BY <1>1, <1>7, <1>8 DEF Work, At
<1>9. CASE CreateIslet(c, held)
  BY <1>5, <1>7, <1>9 DEF CreateIslet
<1>10. CASE CommitLifecycle(c) \/ Run(c)
  <2>1. Unlocked(c) /\ \E p \in {"lookup", "done", "open"} : At(c, p)
    BY <1>10 DEF CommitLifecycle, Run
  <2> QED
    BY <1>1, <2>1 DEF At
<1>11. CASE Lookup(c) \/ Mark(c) \/ Open(c)
  <2>1. /\ at[c] \in {"lookingUp", "marking", "opening"} /\ rowLock' = rowLock
        /\ \E p \in {"mark", "open", "done", "enter"} : At(c, p)
    BY <1>2, <1>11 DEF Lookup, Mark, Open
  <2> QED
    BY <1>1, <2>1 DEF At
<1>12. CASE Enter(c)
  <2>1. CASE Admits(c) /\ rowLock' = [rowLock EXCEPT ![job[c].id] = c] /\ At(c, "check")
    BY <1>1, <2>1 DEF Admits, At
  <2>2. CASE At(c, AfterFailure(c)) /\ rowLock' = rowLock
    <3>1. at[c] = "enter"
      BY <1>12 DEF Enter
    <3> QED
      BY <1>1, <1>2, <2>2, <3>1 DEF At
  <2> QED
    BY <1>12, <2>1, <2>2 DEF Enter
<1>13. CASE CheckBatch(c)
  BY <1>1, <1>13 DEF CheckBatch, At
<1> QED
  BY <1>3, <1>4, <1>6, <1>8, <1>9, <1>10, <1>11, <1>12, <1>13 DEF CallStep

\* A call changes no islet but its own, and that only from its transaction or
\* to make it ready.
LEMMA CallIslets ==
    ASSUME PoolInv, NEW c \in Calls, NEW held, CallStep(c, held) \/ CallFails(c),
           NEW i \in Islets, islet'[i] # islet[i]
    PROVE  /\ i = job[c].id
           /\ \/ islet'[i] = "ready"
              \/ at[c] \in {"commit", "run"} /\ job[c].kind # "Create"
<1>1. islet \in [Islets -> Calls \cup {"ready", "gone"}]
  BY DEF PoolInv, PoolTyped
<1>2. islet' \in {islet, [islet EXCEPT ![job[c].id] = Effect(c)], [islet EXCEPT ![job[c].id] = "ready"]}
  BY DEF CallStep, CallFails, Acquire, AcquireClosed, LockRow, GiveUp, Work, Grant, CreateIslet,
         CommitLifecycle, Lookup, Enter, CheckBatch, Run, Mark, Open
<1>3. i = job[c].id /\ (islet'[i] = "ready" \/ islet'[i] = Effect(c))
  BY <1>1, <1>2
<1>4. (at[c] \in {"commit", "run"} /\ job[c].kind # "Create") \/ Effect(c) = islet[i]
  BY <1>3 DEF Effect
<1> QED
  BY <1>3, <1>4

\* How a call gets to create an islet, and to a batch: an islet that it enters
\* is ready or its own.
LEMMA CallBatches ==
    ASSUME PoolInv, NEW c \in Calls, NEW held, CallStep(c, held) \/ CallFails(c)
    PROVE  /\ at'[c] = "create" => at[c] = "create" \/ job[c].kind = "Create"
           /\ at'[c] \in Batching => at[c] \in Batching \/ job[c].kind = "Reinitialize"
           /\ at'[c] \in InBatch =>
                 /\ at[c] \in InBatch \/ islet[job[c].id] \in {"ready", c}
                 /\ islet' = islet
<1> USE DEF Batching, InBatch
<1>1. at \in [Calls -> Places]
  BY DEF PoolInv, PoolTyped
<1>2. AfterFailure(c) \in {"mark", "open", "done"}
  BY DEF AfterFailure
<1>3. CASE Acquire(c)
  <2>1. at[c] \in Waiting /\ at'[c] = Acquired(c) /\ islet' = islet
    BY <1>1, <1>3 DEF Acquire, At
  <2> QED
    BY <2>1 DEF Acquired, Waiting
<1>4. CASE AcquireClosed(c) \/ CallFails(c) \/ GiveUp(c)
  BY <1>1, <1>2, <1>4 DEF AcquireClosed, CallFails, GiveUp, At
<1>5. ASSUME Grant(c, "commit"), at[c] \in {"work", "create"}
      PROVE  at'[c] \in {at[c], "commit"}
  BY <1>1, <1>5 DEF Grant, At
<1>6. CASE LockRow(c)
  BY <1>1, <1>4, <1>6 DEF LockRow, At
<1>7. CASE Work(c, held)
  BY <1>1, <1>5, <1>7 DEF Work, At
<1>8. CASE CreateIslet(c, held)
  BY <1>4, <1>5, <1>8 DEF CreateIslet
<1>9. CASE CommitLifecycle(c)
  BY <1>1, <1>9 DEF CommitLifecycle, At
<1>10. CASE Run(c) \/ Mark(c) \/ Open(c)
  <2>1. \E p \in {"open", "done"} : At(c, p)
    BY <1>10 DEF Run, Mark, Open
  <2> QED
    BY <1>1, <2>1 DEF At
<1>11. CASE Lookup(c)
  <2>1. at[c] = "lookingUp" /\ \E p \in {"mark", "open", "done", "enter"} : At(c, p)
    BY <1>2, <1>11 DEF Lookup
  <2> QED
    BY <1>1, <2>1 DEF At
<1>12. CASE Enter(c)
  <2>1. at[c] = "enter" /\ islet' = islet
    BY <1>12 DEF Enter
  <2>2. CASE Admits(c) /\ At(c, "check")
    <3>1. islet[job[c].id] \in {"ready", c}
      BY <2>2 DEF Admits
    <3> QED
      BY <1>1, <2>1, <2>2, <3>1 DEF At
  <2>3. CASE At(c, AfterFailure(c))
    BY <1>1, <1>2, <2>3 DEF At
  <2> QED
    BY <1>12, <2>2, <2>3 DEF Enter
<1>13. CASE CheckBatch(c)
  BY <1>1, <1>13 DEF CheckBatch, At
<1> QED
  BY <1>3, <1>4, <1>6, <1>7, <1>8, <1>9, <1>10, <1>11, <1>12, <1>13 DEF CallStep

\* A step of a call keeps who has which row.
LEMMA CallKeepsRows ==
    ASSUME PoolInv, RowsHeld, BatchesAdmitted,
           NEW c \in Calls, NEW held, CallStep(c, held) \/ CallFails(c)
    PROVE  RowsHeld'
<1> DEFINE i0 == job[c].id
<1>1. /\ at \in [Calls -> Places] /\ rowLock \in [Islets -> Calls \cup {Nobody}]
      /\ Nobody \notin Calls
  BY CallsAssumption DEF PoolInv, PoolTyped
<1>2. /\ i0 \in Islets /\ job' = job
      /\ \A d \in Calls \ {c} : at'[d] = at[d]
  <2>1. Active(c) /\ \E p \in Places \ {"idle"} : Moves(c, p)
    BY CallMoves
  <2> QED
    BY <1>1, <2>1 DEF Moves, PoolInv, Placed
<1>3. \A d \in Calls : at[d] \in Locking /\ job[d].kind # "Create" => job[d].id \in Islets
  BY DEF PoolInv, Placed, Active, Locking, InBatch, Holding, Waiting, AtRuntime
<1>4. "create" \notin Locking /\ "commit" \in Locking
  BY DEF Locking, InBatch
<1> HIDE DEF i0
<1>5. CASE /\ rowLock' = rowLock
           /\ \/ at[c] \in Locking /\ at'[c] \in Locking
              \/ at[c] \notin Locking /\ at'[c] \notin Locking
              \/ at[c] = "create"  /\ at'[c] = "commit"
  <2>1. at[c] = "create" => job[c].kind = "Create"
    BY DEF BatchesAdmitted
  <2> QED
    BY <1>1, <1>2, <1>4, <1>5, <2>1 DEF RowsHeld
<1>6. CASE rowLock[i0] = Nobody /\ at'[c] \in Locking /\ rowLock' = [rowLock EXCEPT ![i0] = c]
  <2>1. \A i \in Islets : rowLock'[i] # Nobody =>
           at'[rowLock'[i]] \in Locking /\ job[rowLock'[i]].id = i
    BY <1>1, <1>2, <1>6 DEF RowsHeld, i0
  <2>2. \A d \in Calls : at'[d] \in Locking /\ job[d].kind # "Create" => rowLock'[job[d].id] = d
    BY <1>1, <1>2, <1>3, <1>6 DEF RowsHeld, i0
  <2> QED
    BY <1>2, <2>1, <2>2 DEF RowsHeld
<1>7. CASE Unlocked(c) /\ at'[c] \notin Locking
  <2>1. \A i \in Islets : rowLock'[i] = IF rowLock[i] = c THEN Nobody ELSE rowLock[i]
    BY <1>7 DEF Unlocked
  <2>2. \A i \in Islets : rowLock'[i] # Nobody =>
           at'[rowLock'[i]] \in Locking /\ job[rowLock'[i]].id = i
    BY <1>1, <1>2, <2>1 DEF RowsHeld
  <2>3. \A d \in Calls : at'[d] \in Locking /\ job[d].kind # "Create" => rowLock'[job[d].id] = d
    BY <1>1, <1>2, <1>3, <1>7, <2>1 DEF RowsHeld
  <2> QED
    BY <1>2, <2>2, <2>3 DEF RowsHeld
<1> QED
  BY <1>5, <1>6, <1>7, CallLocks DEF i0

\* A step of a call keeps what is known of the islets that batches run in: only
\* who has the row could change that, and the batch has it.
LEMMA CallKeepsBatches ==
    ASSUME PoolInv, RowsHeld, BatchesAdmitted,
           NEW c \in Calls, NEW held, CallStep(c, held) \/ CallFails(c)
    PROVE  BatchesAdmitted'
<1>1. at \in [Calls -> Places]
  BY DEF PoolInv, PoolTyped
<1>2. job' = job /\ \A d \in Calls \ {c} : at'[d] = at[d]
  <2>1. \E p \in Places \ {"idle"} : Moves(c, p)
    BY CallMoves
  <2> QED
    BY <1>1, <2>1 DEF Moves
<1>3. /\ at'[c] = "create" => at[c] = "create" \/ job[c].kind = "Create"
      /\ at'[c] \in Batching => at[c] \in Batching \/ job[c].kind = "Reinitialize"
      /\ at'[c] \in InBatch =>
            /\ at[c] \in InBatch \/ islet[job[c].id] \in {"ready", c}
            /\ islet' = islet
  BY CallBatches
<1>4. ASSUME NEW d \in Calls \ {c}, at[d] \in InBatch
      PROVE  islet'[job[d].id] \in {"ready", d}
  <2>1. job[d].id \in Islets
    BY <1>4 DEF PoolInv, Placed, Active, InBatch, Holding, Waiting, AtRuntime
  <2>2. job[d].kind # "Create" /\ islet[job[d].id] \in {"ready", d}
    BY <1>4 DEF BatchesAdmitted, Batching
  <2>3. rowLock[job[d].id] = d
    BY <1>4, <2>2 DEF RowsHeld, Locking
  <2>4. CASE islet'[job[d].id] # islet[job[d].id]
    <3>1. /\ job[d].id = job[c].id
          /\ \/ islet'[job[d].id] = "ready"
             \/ at[c] \in {"commit", "run"} /\ job[c].kind # "Create"
      BY <2>1, <2>4, CallIslets
    <3>2. at[c] \in {"commit", "run"} /\ job[c].kind # "Create" => rowLock[job[c].id] = c
      BY DEF RowsHeld, Locking, InBatch
    <3> QED
      BY <2>3, <3>1, <3>2
  <2> QED
    BY <2>2, <2>4
<1>5. ASSUME NEW d \in Calls
      PROVE  /\ at'[d] = "create" => job'[d].kind = "Create"
             /\ at'[d] \in Batching => job'[d].kind # "Create"
             /\ at'[d] \in InBatch => islet'[job'[d].id] \in {"ready", d}
  <2>1. CASE d = c
    BY <1>2, <1>3, <2>1 DEF BatchesAdmitted
  <2>2. CASE d # c
    BY <1>2, <1>4, <2>2 DEF BatchesAdmitted
  <2> QED
    BY <2>1, <2>2
<1> QED
  BY <1>5 DEF BatchesAdmitted

\* A call begins without a row.
LEMMA InvokeKeepsWaiting ==
    ASSUME PoolInv, RowsHeld, BatchesAdmitted,
           NEW c \in Calls, NEW kind \in Kinds, NEW m \in Managers, NEW i \in Islets,
           Invoke(c, kind, m, i)
    PROVE  RowsHeld' /\ BatchesAdmitted'
<1>1. /\ at \in [Calls -> Places] /\ rowLock \in [Islets -> Calls \cup {Nobody}]
      /\ job \in [Calls -> [kind : Kinds \cup {"none"}, by : Managers \cup {Nobody},
                            id : Islets \cup {Nobody}]]
  BY DEF PoolInv, PoolTyped
<1>2. /\ at[c] = "idle" /\ pool' = pool /\ rowLock' = rowLock /\ islet' = islet
      /\ at'[c] = Entry(kind) /\ job'[c] = [kind |-> kind, by |-> m, id |-> i]
      /\ \A d \in Calls \ {c} : at'[d] = at[d] /\ job'[d] = job[d]
  BY <1>1 DEF Invoke, At
<1>3. /\ Entry(kind) \in {"lookup", "open", "begin"}
      /\ Entry(kind) = "lookup" => kind # "Create"
  BY DEF Entry
<1>4. "idle" \notin Locking /\ at'[c] \notin Locking /\ at'[c] \notin Holding
      /\ at'[c] \notin InBatch /\ at'[c] # "create" /\ (at'[c] \in Batching => kind # "Create")
  BY <1>2, <1>3 DEF Locking, InBatch, Holding, Batching
<1>5. \A j \in Islets : rowLock[j] # c \/ rowLock[j] = Nobody
  BY <1>2, <1>4 DEF RowsHeld
<1>6. RowsHeld'
  BY <1>1, <1>2, <1>4, <1>5 DEF RowsHeld
<1>7. BatchesAdmitted'
  BY <1>2, <1>4 DEF BatchesAdmitted
<1> QED
  BY <1>6, <1>7

\* The advisory lock is with a bootstrap that is inside, from the moment it gets
\* it to its end.
LEMMA BootKeepsLock ==
    ASSUME BootInv, PoolInv, LockHeld, NEW m \in Managers, NEW held,
           BootStep(m, held) \/ BootStepFails(m)
    PROVE  LockHeld'
<1>1. boot \in [Managers -> BootSteps \cup {"new", "done"}] /\ advisory \in Managers \cup {NoManager}
  BY DEF PoolInv, BootTyped
<1>2. NoManager \notin Managers
  BY NoManagerAssumption
<1>3. ASSUME NEW end, BootEnds(m, end) PROVE LockHeld'
  BY <1>1, <1>2, <1>3 DEF BootEnds, LockHeld
<1>4. ASSUME NEW next, boot' = [boot EXCEPT ![m] = next], advisory' = advisory,
             boot[m] \in Inside => next \in Inside
      PROVE  LockHeld'
  BY <1>1, <1>2, <1>4 DEF LockHeld
<1>5. CASE BootStepFails(m) \/ CommitBootstrap(m)
  BY <1>3, <1>5 DEF BootStepFails, BootFails, CommitBootstrap
<1>6. CASE LockBootstrap(m)
  <2>1. "schemas" \in Inside
    BY DEF Inside
  <2> QED
    BY <1>1, <1>6, <2>1 DEF LockBootstrap, LockHeld
<1>7. ASSUME NEW from, NEW test, NEW next, Require(m, from, test, next),
             from \in Inside => next \in Inside
      PROVE  LockHeld'
  BY <1>3, <1>4, <1>7 DEF Require, BootGoto, BootFails
<1>8. ASSUME NEW from, NEW changes, NEW rows, NEW next \in Inside,
             Change(m, from, changes, rows, next)
      PROVE  LockHeld'
  BY <1>3, <1>4, <1>8 DEF Change, BootFails
<1>9. Inside = {"schemas", "owned", "version", "readVersion", "tables", "database", "scan",
                "gateway", "commit"}
  BY DEF Inside, Checked, Versioned, Tabled, Revoked, Made
<1>10. CASE CheckServer(m) \/ CheckOwner(m) \/ ReadVersion(m) \/ CheckExposed(m)
  BY <1>7, <1>9, <1>10 DEF CheckServer, CheckOwner, ReadVersion, CheckExposed
<1>11. CASE \/ CreateSchemas(m, held) \/ WriteVersion(m, held) \/ CreateTables(m, held)
            \/ RevokeDatabase(m, held) \/ CreateGateway(m, held)
  BY <1>8, <1>9, <1>11 DEF CreateSchemas, WriteVersion, CreateTables, RevokeDatabase, CreateGateway
<1> QED
  BY <1>5, <1>6, <1>10, <1>11 DEF BootStep

LEMMA WaitInvInit == Init => WaitInv
<1> SUFFICES ASSUME Init PROVE WaitInv
  OBVIOUS
<1>1. RowsHeld /\ BatchesAdmitted
  BY DEF Init, PoolInit, RowsHeld, BatchesAdmitted, Locking, InBatch, Batching
<1>2. LockHeld
  BY DEF Init, BootInit, LockHeld
<1> QED
  BY <1>1, <1>2 DEF WaitInv

\* Every step keeps the invariant.
LEMMA WaitInvNext == BootInv /\ PoolInv /\ WaitInv /\ [Next]_vars => WaitInv'
<1> SUFFICES ASSUME BootInv, PoolInv, WaitInv, [Next]_vars PROVE WaitInv'
  OBVIOUS
<1>1. RowsHeld /\ BatchesAdmitted /\ LockHeld
  BY DEF WaitInv
<1>2. ASSUME UNCHANGED <<at, job, islet, rowLock>> PROVE RowsHeld' /\ BatchesAdmitted'
  BY <1>1, <1>2 DEF RowsHeld, BatchesAdmitted
<1>3. ASSUME UNCHANGED bootVars PROVE LockHeld'
  BY <1>1, <1>3 DEF bootVars, LockHeld
<1>4. CASE Quiet \/ UNCHANGED vars
  BY <1>2, <1>3, <1>4 DEF Quiet, WaitInv, vars, poolVars
<1>5. ASSUME NEW m \in Managers, CloseManager(m) \/ PoolCloses(m) PROVE WaitInv'
  BY <1>2, <1>3, <1>5 DEF CloseManager, PoolCloses, Close, CloseEnds, WaitInv
<1>6. ASSUME NEW m \in Managers, New(m) PROVE WaitInv'
  <2>1. /\ boot[m] = "new" /\ boot' = [boot EXCEPT ![m] = "begin"] /\ advisory' = advisory
        /\ UNCHANGED <<at, job, islet, rowLock>>
        /\ boot \in [Managers -> BootSteps \cup {"new", "done"}]
        /\ advisory \in Managers \cup {NoManager}
    BY <1>6 DEF New, PoolInv, BootTyped
  <2>2. LockHeld'
    <3>1. "new" \notin Inside
      BY DEF Inside, Checked, Versioned, Tabled, Revoked, Made
    <3> QED
      BY <1>1, <2>1, <3>1 DEF LockHeld
  <2> QED
    BY <1>2, <2>1, <2>2 DEF WaitInv
<1>7. ASSUME NEW m \in Managers, Bootstraps(m) \/ BootstrapFails(m) PROVE WaitInv'
  BY <1>1, <1>2, <1>7, BootKeepsLock DEF Bootstraps, BootstrapFails, WaitInv
<1>8. ASSUME NEW c \in Calls, Call(c) PROVE WaitInv'
  <2>1. PICK kind \in Kinds, m \in Ready, i \in Islets : Invoke(c, kind, m, i)
    BY <1>8 DEF Call
  <2>2. m \in Managers /\ UNCHANGED bootVars
    BY <1>8 DEF Call, Ready
  <2> QED
    BY <1>1, <1>3, <2>1, <2>2, InvokeKeepsWaiting DEF WaitInv
<1>9. ASSUME NEW c \in Calls, Progress(c) \/ Fails(c) PROVE WaitInv'
  <2>1. PICK held : CallStep(c, held) \/ CallFails(c)
    BY <1>9 DEF Progress, Fails
  <2>2. UNCHANGED bootVars
    BY <1>9 DEF Progress, Fails
  <2> QED
    BY <1>1, <1>3, <2>1, <2>2, CallKeepsRows, CallKeepsBatches DEF WaitInv
<1> QED
  BY <1>4, <1>5, <1>6, <1>7, <1>8, <1>9 DEF Next

LEMMA WaitInvariant == Spec => [](BootInv /\ PoolInv /\ WaitInv)
<1>1. Init => WaitInv
  BY WaitInvInit
<1>2. BootInv /\ PoolInv /\ WaitInv /\ [Next]_vars => WaitInv'
  BY WaitInvNext
<1> QED
  BY <1>1, <1>2, PoolInvariant, PTL DEF Spec

\* No waiting is circular, for any number of Managers, calls, islets and
\* connections: with the finitely many steps of the one at the end of a chain,
\* every wait for a connection, a row or the advisory lock can come to its end
\* (lifecycle.go:83 and :261, execute.go:91, bootstrap.go:30 and :127).
THEOREM NobodyWaitsInACircle == Spec => []NoWaitingCycle
<1>1. ASSUME BootInv, PoolInv, WaitInv PROVE NoWaitingCycle
  <2>1. ASSUME NEW c \in Calls, WaitsForPool(c)
        PROVE  \E d \in Calls \ {c} : at[d] \in Holding /\ job[d].by = job[c].by
    <3> DEFINE m == job[c].by
    <3>1. at[c] \in Waiting /\ free[m] = 0
      BY <2>1 DEF WaitsForPool
    <3>2. m \in Managers /\ fate[m] = "ready" /\ at[c] \notin Holding
      BY <1>1, <3>1 DEF PoolInv, Placed, Active, Waiting, Holding
    <3>3. BootUses(m) = 0
      BY <1>1, <3>2 DEF PoolInv, BootTyped, BootUses, BootSteps
    <3>4. Cardinality(Users(m)) # 0
      BY <1>1, <3>1, <3>2, <3>3, PoolSizeAssumption DEF PoolInv, Balanced
    <3>5. Users(m) # {}
      BY <3>4, FS_EmptySet
    <3> QED
      BY <3>2, <3>5 DEF Users, HasConnection
  <2>2. ASSUME NEW c \in Calls, WaitsForRow(c)
        PROVE  LET d == rowLock[job[c].id] IN d # c /\ at[d] \in Holding /\ ~WaitsForRow(d)
    <3> DEFINE i == job[c].id
               d == rowLock[i]
    <3>1. at[c] = "marking" /\ islet[i] = c /\ d # Nobody
      BY <2>2 DEF WaitsForRow
    <3>2. i \in Islets /\ d \in Calls
      BY <1>1, <3>1 DEF PoolInv, PoolTyped, Placed, Active, Holding
    <3>3. at[d] \in Locking /\ job[d].id = i
      BY <1>1, <3>1, <3>2 DEF WaitInv, RowsHeld
    <3>4. d # c
      BY <3>1, <3>3 DEF Locking, InBatch
    <3>5. at[d] \notin InBatch
      BY <1>1, <3>1, <3>2, <3>3, <3>4, CallsAssumption DEF WaitInv, BatchesAdmitted
    <3>6. at[d] \in {"work", "commit"}
      BY <3>3, <3>5 DEF Locking
    <3>7. at[d] \in Holding /\ ~WaitsForRow(d)
      BY <3>6 DEF Holding, WaitsForRow
    <3> QED
      BY <3>4, <3>7
  <2>3. ASSUME NEW m \in Managers, WaitsForLock(m)
        PROVE  advisory \in Booting /\ ~WaitsForLock(advisory)
    <3>1. boot[advisory] \in Inside /\ advisory \in Managers
      BY <1>1, <2>3 DEF WaitsForLock, WaitInv, LockHeld, PoolInv, BootTyped
    <3> QED
      BY <3>1 DEF Booting, WaitsForLock, BootSteps, Inside, Checked, Versioned, Tabled, Revoked, Made
  <2> QED
    BY <2>1, <2>2, <2>3 DEF NoWaitingCycle
<1> QED
  BY <1>1, WaitInvariant, PTL

\* Nothing that a call or a bootstrap takes outlives it, for any number of
\* Managers, calls, islets and connections and however they end: no connection
\* of a pool, no row lock, no change of a privilege, no advisory lock.
THEOREM NothingIsLeaked == Spec => []NothingLeaked
<1>1. ASSUME BootInv, PoolInv, WaitInv PROVE NothingLeaked
  <2>1. \A m \in Managers : free[m] + Cardinality(Users(m)) + BootUses(m) = PoolSize
    BY <1>1 DEF PoolInv, Balanced
  <2>2. \A i \in Islets : rowLock[i] # Nobody => Active(rowLock[i]) /\ job[rowLock[i]].id = i
    BY <1>1 DEF WaitInv, RowsHeld, Locking, InBatch, Active, Holding, Waiting, AtRuntime
  <2>3. \A c \in Calls : granting[c] # {} => at[c] \in {"work", "create", "commit"}
    BY <1>1 DEF PoolInv, Placed
  <2>4. Inside \subseteq BootSteps
    BY DEF Inside, Checked, Versioned, Tabled, Revoked, Made, BootSteps
  <2>5. advisory # NoManager => advisory \in Booting
    BY <1>1, <2>4 DEF WaitInv, LockHeld, PoolInv, BootTyped, Booting
  <2>6. \A m \in Managers : DOMAIN draft[m] # {} => m \in Booting /\ advisory = m
    BY <1>1, <2>4 DEF BootInv, Exclusive, Booting
  <2> QED
    BY <2>1, <2>2, <2>3, <2>5, <2>6 DEF NothingLeaked
<1> QED
  BY <1>1, WaitInvariant, PTL

=============================================================================
