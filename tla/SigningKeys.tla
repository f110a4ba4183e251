----------------------------- MODULE SigningKeys -----------------------------
(***************************************************************************)
(* The keys that access tokens are signed with: KeyService of the identity *)
(* server (apps/identity/src/auth/key.service.ts), which keeps them in     *)
(* signing_keys, and the token verifier of an API, which knows them from   *)
(* the published key set (packages/tenant-context, token-verifier.ts).     *)
(*                                                                         *)
(* There is one identity server.  It may crash between any two statements, *)
(* none of which share a transaction, and is started again, with or        *)
(* without the key-encryption key (SIGNING_KEY_KEK).  A statement may also  *)
(* be rejected: that ends a start, and a rotation throws while the server  *)
(* goes on with the keys it has in memory.  Keys are numbered as they are  *)
(* created.                                                                *)
(***************************************************************************)
EXTENDS Naturals, FiniteSets

CONSTANTS
  MaxRotations,        \* bound: calls of rotate()
  MaxCrashes           \* bound: crashes of the identity server, and statements
                       \* that are rejected

ASSUME KeysAssumption == MaxRotations \in Nat /\ MaxCrashes \in Nat

\* A key is created by a rotation, or by a start that finds no current one.
Keys == 1 .. MaxRotations + 1
NoKey == 0

VARIABLES
  status,              \* of each row of signing_keys
  sealed,              \* rows whose private key is encrypted
  kek,                 \* this process has the key-encryption key
  at,                  \* the statement the server has reached
  serving,             \* it has started, and answers requests
  kid, jwks,           \* currentKid, and the key set that it publishes
  found,               \* the row that load() takes for the current one
  unsealed,            \* rows that the migration has yet to seal
  rotations, crashes,
  since,               \* rotations, of which the key's own demotion is one, begun
                       \* since a token was signed with it
  known, age           \* the verifier's key set, and how old it is

server == <<kek, at, serving, kid, jwks, found, unsealed>>
verifier == <<known, age>>
keyVars == <<status, sealed, server, rotations, crashes, since, verifier>>

Statements == {"down", "find", "generate", "rows", "migrate", "idle",
               "retire", "demote", "generateNext"}
Published == {k \in Keys : status[k] \in {"current", "previous"}}

KeysTypeOK ==
  /\ status \in [Keys -> {"unused", "current", "previous", "retired"}]
  /\ sealed \in SUBSET Keys /\ kek \in BOOLEAN
  /\ at \in Statements /\ serving \in BOOLEAN
  /\ kid \in Keys \cup {NoKey} /\ found \in Keys \cup {NoKey}
  /\ jwks \in SUBSET Keys /\ unsealed \in SUBSET Keys
  /\ rotations \in 0 .. MaxRotations /\ crashes \in 0 .. MaxCrashes
  /\ since \in [Keys -> 0 .. 2]        \* 2: two or more, or never signed with
  /\ known \in SUBSET Keys /\ age \in {"none", "cooling", "fresh", "stale"}

KeysInit ==
  /\ status = [k \in Keys |-> "unused"] /\ sealed = {}
  /\ kek = FALSE /\ at = "down" /\ serving = FALSE
  /\ kid = NoKey /\ jwks = {} /\ found = NoKey /\ unsealed = {}
  /\ rotations = 0 /\ crashes = 0
  /\ since = [k \in Keys |-> 2]
  /\ known = {} /\ age = "none"

-----------------------------------------------------------------------------
(* The identity server.                                                     *)

\* onModuleInit: load() begins.
Boot ==
  /\ at = "down" /\ at' = "find"
  /\ kek' \in BOOLEAN
  /\ UNCHANGED <<status, sealed, serving, kid, jwks, found, unsealed, rotations,
                 crashes, since, verifier>>

\* (A statement that is rejected while the server starts ends the process too.)
Crash ==
  /\ at # "down" /\ crashes < MaxCrashes
  /\ at' = "down" /\ serving' = FALSE /\ crashes' = crashes + 1
  /\ kid' = NoKey /\ jwks' = {} /\ found' = NoKey /\ unsealed' = {}
  /\ UNCHANGED <<status, sealed, kek, rotations, since, verifier>>

\* findFirst: no order is asked for.
Find ==
  /\ at = "find"
  /\ \/ /\ \E k \in Keys : status[k] = "current" /\ found' = k
        /\ at' = "rows"
     \/ /\ \A k \in Keys : status[k] # "current"
        /\ at' = "generate" /\ UNCHANGED found
  /\ UNCHANGED <<status, sealed, kek, serving, kid, jwks, unsealed, rotations,
                 crashes, since, verifier>>

\* generate(): the next key, current, and sealed if there is a KEK.
Generate(k) ==
  /\ status[k] = "unused" /\ \A j \in Keys : j < k => status[j] # "unused"
  /\ status' = [status EXCEPT ![k] = "current"]
  /\ sealed' = IF kek THEN sealed \cup {k} ELSE sealed

FirstKey ==
  /\ at = "generate" /\ at' = "rows"
  /\ \E k \in Keys : Generate(k) /\ found' = k
  /\ UNCHANGED <<kek, serving, kid, jwks, unsealed, rotations, crashes, since, verifier>>

\* findMany, and what is made of its answer.  importJWK resolves in the same
\* turn, so that no request sees the one field set and not the other.  A sealed
\* key cannot be opened without the KEK: the start fails, a rotation throws.
LoadKeys(published) ==
  /\ at = "rows"
  /\ IF found \in sealed /\ ~kek
       THEN at' = (IF serving THEN "idle" ELSE "down") /\ UNCHANGED <<jwks, unsealed>>
       ELSE /\ jwks' = published
            /\ unsealed' = IF kek THEN published \ sealed ELSE {}
            /\ at' = "migrate"
  /\ kid' = found /\ found' = NoKey
  /\ UNCHANGED <<status, sealed, kek, serving, rotations, crashes, since, verifier>>

Load == LoadKeys(Published)

\* migrateLegacyPlaintext: one update for each row.  (SealFirst stops after one.)
SealFirst ==
  /\ at = "migrate" /\ at' = "idle" /\ serving' = TRUE /\ unsealed' = {}
  /\ \/ \E k \in unsealed : sealed' = sealed \cup {k}
     \/ unsealed = {} /\ UNCHANGED sealed
  /\ UNCHANGED <<status, kek, kid, jwks, found, rotations, crashes, since, verifier>>

Migrate ==
  /\ at = "migrate"
  /\ \/ \E k \in unsealed : /\ sealed' = sealed \cup {k}
                            /\ unsealed' = unsealed \ {k}
                            /\ UNCHANGED <<at, serving>>
     \/ /\ unsealed = {} /\ at' = "idle" /\ serving' = TRUE
        /\ UNCHANGED <<sealed, unsealed>>
  /\ UNCHANGED <<status, kek, kid, jwks, found, rotations, crashes, since, verifier>>

\* rotate(): the requests go on being served meanwhile, with the keys in memory.
Rotate ==
  /\ at = "idle" /\ rotations < MaxRotations
  /\ at' = "retire" /\ rotations' = rotations + 1
  /\ since' = [k \in Keys |-> IF since[k] = 2 THEN 2 ELSE since[k] + 1]
  /\ UNCHANGED <<status, sealed, kek, serving, kid, jwks, found, unsealed, crashes,
                 verifier>>

Pass(from, to) ==
  status' = [k \in Keys |-> IF status[k] = from THEN to ELSE status[k]]

\* (DemoteAtOnce retires the current key with the previous one.)
DemoteAtOnce ==
  /\ at = "retire" /\ at' = "demote"
  /\ status' = [k \in Keys |-> IF status[k] \in {"current", "previous"}
                                 THEN "retired" ELSE status[k]]
  /\ UNCHANGED <<sealed, kek, serving, kid, jwks, found, unsealed, rotations,
                 crashes, since, verifier>>

Retire ==
  /\ at = "retire" /\ at' = "demote"
  /\ Pass("previous", "retired")
  /\ UNCHANGED <<sealed, kek, serving, kid, jwks, found, unsealed, rotations,
                 crashes, since, verifier>>

Demote ==
  /\ at = "demote" /\ at' = "generateNext"
  /\ Pass("current", "previous")
  /\ UNCHANGED <<sealed, kek, serving, kid, jwks, found, unsealed, rotations,
                 crashes, since, verifier>>

NextKey ==
  /\ at = "generateNext" /\ at' = "find"
  /\ \E k \in Keys : Generate(k)
  /\ UNCHANGED <<kek, serving, kid, jwks, found, unsealed, rotations, crashes, since,
                 verifier>>

\* A statement of rotate() is rejected, and nothing undoes the ones before it.  The
\* server goes on signing with the key it has, though the table may call that key
\* previous by now, or retired.  (One that was applied all the same is the next one's
\* failure.)
StatementFails ==
  /\ serving /\ at # "idle" /\ (at = "migrate" => unsealed # {})
  /\ crashes < MaxCrashes /\ crashes' = crashes + 1
  /\ at' = "idle" /\ found' = NoKey /\ unsealed' = {}
  /\ UNCHANGED <<status, sealed, kek, serving, kid, jwks, rotations, since, verifier>>

\* sign: at login and at refresh.  A rotation under way counts as a later one, and
\* so does one that failed after it had demoted the key: the next retires it first.
Sign ==
  /\ serving
  /\ since' = [since EXCEPT ![kid] =
       CASE status[kid] = "current" -> IF at \in {"idle", "migrate"} THEN 0 ELSE 1
         [] status[kid] = "previous" -> IF at = "retire" THEN 2 ELSE 1
         [] status[kid] = "retired" -> 2]
  /\ UNCHANGED <<status, sealed, server, rotations, crashes, verifier>>

-----------------------------------------------------------------------------
(* The verifier.  createRemoteJWKSet keeps the set for a while, asks again   *)
(* for a key it does not have, but not twice within a cool-down.            *)

Known(k) == k \in known /\ age \in {"cooling", "fresh"}
Asks(k) == age \in {"none", "stale"} \/ (age = "fresh" /\ k \notin known)

\* verify, for a token signed with k.
Accepts(k) == Known(k) \/ (Asks(k) /\ serving /\ k \in jwks)

Verify(k) ==
  /\ Asks(k)
  /\ IF serving THEN known' = jwks /\ age' = "cooling"
                ELSE UNCHANGED verifier
  /\ UNCHANGED <<status, sealed, server, rotations, crashes, since>>

GrowOld ==
  /\ \/ age = "cooling" /\ age' = "fresh"
     \/ age = "fresh" /\ age' = "stale"
  /\ UNCHANGED <<status, sealed, server, rotations, crashes, since, known>>

KeysNext ==
  \/ Boot \/ Crash \/ Find \/ FirstKey \/ Load \/ Migrate
  \/ Rotate \/ Retire \/ Demote \/ NextKey \/ StatementFails \/ Sign
  \/ (\E k \in Keys : Verify(k)) \/ GrowOld

KeysSpec == KeysInit /\ [][KeysNext]_keyVars

-----------------------------------------------------------------------------
(* Properties.                                                             *)

\* "A deliberate rotation does not break in-flight access tokens" (the comment
\* at KeyService): a key that signed a token within the last rotation is in the
\* table to stay, and published by a server that is up, wherever one crashed.
OneRotationIsSafe ==
  \A k \in Keys : since[k] < 2 =>
    /\ k \in Published
    /\ serving => k \in jwks

\* While the server is up a verifier accepts every such token, save that one that
\* has just asked refuses the tokens of a key that is newer than all it was told.
GoodTokensPass ==
  serving => \A k \in Keys : since[k] < 2 =>
    Accepts(k) \/ (age = "cooling" /\ \A j \in known : j < k)

\* Together: what the identity server publishes and what a verifier makes of it.  A
\* key that a failed rotation left in use is already one rotation behind.
RotationIsSafe == OneRotationIsSafe /\ GoodTokensPass

\* What the comment at KeyService takes for granted: the key that signs is the
\* current one, so that a token outlives the next rotation.  TLC refutes this: a
\* rotation whose third statement is rejected leaves the server signing with the key
\* that it has demoted, and the next rotation retires it.
SignsWithTheCurrentKey == serving /\ at = "idle" => status[kid] = "current"

\* The private keys that are published, current or previous, are not stored in the
\* clear by a server that has the key to encrypt them with, also when they were
\* there before it.  (A key that was retired in the clear stays so.)
SealedAtRest == serving /\ kek => Published \subseteq sealed
=============================================================================
