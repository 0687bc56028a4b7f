--------------------------------- MODULE Boot ---------------------------------
(* The boot of a fleet of replicas over one database: the environment is read,  *)
(* pending migrations are applied under the advisory lock, the bootstrap key    *)
(* and the bootstrap policy are seeded, every chain's RPC is asked which chain  *)
(* it serves, and only then is traffic accepted.  Replicas boot together, on    *)
(* releases with different migrations, and die anywhere; through the ones that  *)
(* serve, an operator revokes the key and writes and deletes policies.          *)
EXTENDS Naturals, FiniteSets

CONSTANTS
  Fleet,
  Environments,  \* what a replica may be started with, as records like NoEnv
  Seeded,        \* the row of the bootstrap policy: DEFAULT_POLICY_ID of the default tenant
  OtherRows,     \* the rows of the other policies, of any tenant
  MaxBoots       \* bound on the starts of replicas

VARIABLES
  booting,     \* what each replica is doing
  env,         \* the environment it was started with
  applied,     \* the rows of schema_migrations it read
  bootLock,    \* the holders of the advisory lock
  schema,      \* how many times each migration's statements have been committed
  recorded,    \* schema_migrations: <<version, checksum>>
  bootKey,     \* the bootstrap key: "absent", "live" or "revoked"
  bootRows,    \* each row of policies: who wrote it last, or "absent" or "deleted"
  overtaken,   \* the replicas that found no policy before an operator wrote or deleted one
  boots

bootVars == <<booting, env, applied, bootLock, schema, recorded, bootKey, bootRows, overtaken, boots>>

PolicyRows == {Seeded} \cup OtherRows

(* An environment: the release it starts, whether every variable has its form,  *)
(* whether CHAINS is a list of sound and distinct chains, its signer sources,   *)
(* the pager and tracing with what they need, and the switches of a boot.       *)
NoEnv == [release |-> << >>, parses |-> FALSE, chains |-> FALSE, signers |-> 0, pager |-> "none",
          traces |-> "off", onBoot |-> FALSE, seedsPolicy |-> FALSE]

(* A release's migrations: their checksums, by version.                         *)
Release(r) == env[r].release
Versions == UNION {DOMAIN e.release : e \in Environments}
IsRecorded(v) == \E row \in recorded : row[1] = v

Past(r, phases) == booting[r] \in phases
Migrated == {"key", "list", "seed", "verify", "serving"}

Move(r, to) == booting' = [booting EXCEPT ![r] = to]

(* The session ends, and with it its locks and its open transaction.            *)
Down(r) ==
  /\ Move(r, "down")
  /\ bootLock' = bootLock \ {r}
  /\ overtaken' = overtaken \ {r}

-------------------------------------------------------------------------------
BootInit ==
  /\ booting = [r \in Fleet |-> "down"]
  /\ env = [r \in Fleet |-> NoEnv]
  /\ applied = [r \in Fleet |-> {}]
  /\ bootLock = {}
  /\ schema = [v \in Versions |-> 0]
  /\ recorded = {}
  /\ bootKey = "absent"
  /\ bootRows = [row \in PolicyRows |-> "absent"]
  /\ overtaken = {}
  /\ boots = 0

(* parseEnv, and validateChainConfigs on what it returns.                       *)
ChainsAccepted(e) == e.chains

EnvAccepted(e) ==
  /\ e.parses
  /\ e.signers = 1
  /\ e.pager # "unrouted"
  /\ e.traces # "endpointless"

(* The first step of a boot; an environment that is refused changes nothing.    *)
Start(r, e) ==
  /\ booting[r] = "down"
  /\ boots < MaxBoots
  /\ boots' = boots + 1
  /\ EnvAccepted(e) /\ ChainsAccepted(e)
  /\ env' = [env EXCEPT ![r] = e]
  /\ Move(r, IF e.onBoot THEN "waiting" ELSE "key")
  /\ UNCHANGED <<applied, bootLock, schema, recorded, bootKey, bootRows, overtaken>>

(* Any step may fail, and a replica may be killed: whatever it had open is      *)
(* rolled back.                                                                 *)
DieBooting(r) ==
  /\ booting[r] # "down"
  /\ Down(r)
  /\ UNCHANGED <<env, applied, schema, recorded, bootKey, bootRows, boots>>

-------------------------------------------------------------------------------
(* applyMigrations                                                              *)

(* (Slip: the table is read before the lock is asked for.)                      *)
LockAfterReading(r) ==
  \/ /\ booting[r] = "waiting"
     /\ Move(r, "read")
     /\ applied' = [applied EXCEPT ![r] = recorded]
     /\ UNCHANGED bootLock
  \/ /\ booting[r] = "read"
     /\ bootLock = {}
     /\ bootLock' = {r}
     /\ Move(r, "applying")
     /\ UNCHANGED applied

(* The lock is taken, then schema_migrations is read.                           *)
TakeLock(r) ==
  /\ booting[r] = "waiting"
  /\ bootLock = {}
  /\ bootLock' = {r}
  /\ applied' = [applied EXCEPT ![r] = recorded]
  /\ Move(r, "applying")

Lock(r) ==
  /\ TakeLock(r)
  /\ UNCHANGED <<env, schema, recorded, bootKey, bootRows, overtaken, boots>>

Pending(r) == DOMAIN Release(r) \ {row[1] : row \in applied[r]}

(* The applied migrations whose content has changed since.                      *)
Modified(r) == {row \in applied[r] : row[1] \in DOMAIN Release(r) /\ Release(r)[row[1]] # row[2]}

Refuse(r) ==
  /\ booting[r] = "applying"
  /\ Modified(r) # {}
  /\ Down(r)
  /\ UNCHANGED <<env, applied, schema, recorded, bootKey, bootRows, boots>>

(* One transaction: the statements of the first pending migration and the row   *)
(* that says so, whose primary key admits one row per version.                  *)
Migrate(r) ==
  /\ booting[r] = "applying"
  /\ Modified(r) = {}
  /\ \E v \in Pending(r) :
       /\ \A w \in Pending(r) : v <= w
       /\ ~IsRecorded(v)
       /\ schema' = [schema EXCEPT ![v] = @ + 1]
       /\ recorded' = recorded \cup {<<v, Release(r)[v]>>}
       /\ applied' = [applied EXCEPT ![r] = @ \cup {<<v, Release(r)[v]>>}]
  /\ UNCHANGED <<booting, env, bootLock, bootKey, bootRows, overtaken, boots>>

Unlock(r) ==
  /\ booting[r] = "applying"
  /\ Modified(r) = {}
  /\ Pending(r) = {}
  /\ bootLock' = bootLock \ {r}
  /\ Move(r, "key")
  /\ UNCHANGED <<env, applied, schema, recorded, bootKey, bootRows, overtaken, boots>>

-------------------------------------------------------------------------------
(* Without its tables a statement fails, and the replica dies of it.            *)
TablesExist(r) == \A v \in DOMAIN Release(r) : schema[v] > 0

(* INSERT ... ON CONFLICT (key_hash) DO NOTHING                                 *)
KeyEnsured == IF bootKey = "absent" THEN "live" ELSE bootKey

EnsureBootstrapKey(r) ==
  /\ booting[r] = "key"
  /\ TablesExist(r)
  /\ bootKey' = KeyEnsured
  /\ Move(r, IF env[r].seedsPolicy THEN "list" ELSE "verify")
  /\ UNCHANGED <<env, applied, bootLock, schema, recorded, bootRows, overtaken, boots>>

NoPolicy == \A row \in PolicyRows : bootRows[row] \in {"absent", "deleted"}

(* ensureBootstrapPolicy: the list is one statement, the upsert another.        *)
ListPolicies(r) ==
  /\ booting[r] = "list"
  /\ Move(r, IF NoPolicy THEN "seed" ELSE "verify")
  /\ UNCHANGED <<env, applied, bootLock, schema, recorded, bootKey, bootRows, overtaken, boots>>

SeedPolicy(r) ==
  /\ booting[r] = "seed"
  /\ bootRows' = [bootRows EXCEPT ![Seeded] = "boot"]
  /\ Move(r, "verify")
  /\ overtaken' = overtaken \ {r}
  /\ UNCHANGED <<env, applied, bootLock, schema, recorded, bootKey, boots>>

(* The policies are loaded, the signer built and every RPC endpoint answers     *)
(* with the chain id its configuration claims; then the server listens.         *)
VerifyAll(r) ==
  /\ booting[r] = "verify"
  /\ Move(r, "serving")
  /\ UNCHANGED <<env, applied, bootLock, schema, recorded, bootKey, bootRows, overtaken, boots>>

-------------------------------------------------------------------------------
(* The operator, through a replica that serves.                                 *)
Operator ==
  /\ \E r \in Fleet : booting[r] = "serving"
  /\ UNCHANGED <<booting, env, applied, bootLock, schema, recorded, boots>>

RevokeBootKey ==
  /\ Operator
  /\ bootKey = "live"
  /\ bootKey' = "revoked"
  /\ UNCHANGED <<bootRows, overtaken>>

Write(row, value) ==
  /\ Operator
  /\ bootRows' = [bootRows EXCEPT ![row] = value]
  /\ overtaken' = overtaken \cup {r \in Fleet : booting[r] = "seed"}
  /\ UNCHANGED bootKey

UpsertRow(row) == Write(row, "operator")

DeleteRow(row) ==
  /\ bootRows[row] \in {"boot", "operator"}
  /\ Write(row, "deleted")

Step(r) ==
  \/ \E e \in Environments : Start(r, e)
  \/ DieBooting(r)
  \/ Lock(r)
  \/ Refuse(r)
  \/ Migrate(r)
  \/ Unlock(r)
  \/ EnsureBootstrapKey(r)
  \/ ListPolicies(r)
  \/ SeedPolicy(r)
  \/ VerifyAll(r)

BootNext ==
  \/ \E r \in Fleet : Step(r)
  \/ RevokeBootKey
  \/ \E row \in PolicyRows : UpsertRow(row) \/ DeleteRow(row)

BootSpec == BootInit /\ [][BootNext]_bootVars

-------------------------------------------------------------------------------
(* A rolling deploy may run migrations from every replica at once: what is      *)
(* recorded is what was executed, once each; a migration a replica is about to  *)
(* run has not been run by another meanwhile (its boot is not lost to the       *)
(* race); and a replica that migrated serves only on the schema its own release *)
(* describes, none of whose migrations was edited after it was applied          *)
(* (migrate.ts, the two properties claimed by applyMigrations).                 *)
MigratedOnce ==
  /\ \A v \in Versions : schema[v] = Cardinality({row \in recorded : row[1] = v})
  /\ \A r \in Fleet : booting[r] = "applying" => recorded = applied[r]
  /\ \A r \in Fleet :
       Past(r, Migrated) /\ env[r].onBoot =>
         \A v \in DOMAIN Release(r) : <<v, Release(r)[v]>> \in recorded

(* Restarts do not undo the operator: a revoked bootstrap key stays revoked, an *)
(* operator's policy is never overwritten and no deleted one returns while any  *)
(* other policy is left, unless the operator acted between the list and the     *)
(* upsert of one replica's ensureBootstrapPolicy (app.module.ts).               *)
UndoesNothing ==
  /\ bootKey = "revoked" => bootKey' = "revoked"
  /\ bootRows[Seeded] \in {"deleted", "operator"} /\ bootRows'[Seeded] = "boot" =>
       overtaken # {} \/ \A row \in PolicyRows : bootRows[row] \notin {"boot", "operator"}

(* What defaultPolicies.ts says of the seeder: it can never resurrect a policy  *)
(* the operator deliberately deleted.  It does, when it was the last one.       *)
NeverResurrected ==
  [][bootRows[Seeded] = "deleted" => bootRows'[Seeded] # "boot"]_bootVars

(* Replicas that start together, of whatever release, migrate once, and take     *)
(* back nothing the operator did.                                               *)
BootIsSafe == [][MigratedOnce' /\ UndoesNothing]_bootVars
===============================================================================
