------------------------ MODULE ClusterCredentials ------------------------
(***************************************************************************)
(* The token and the CA bundle of one onboarded cluster, in the clusters   *)
(* table of kubernetes-service, while replicas of the service are deployed *)
(* with one key ring after another (docs/adr/0016): create() and update()  *)
(* of cluster.repository.ts, the two passes of db/migrations.ts that every *)
(* replica runs when it boots, and getConnection().                        *)
(*                                                                         *)
(* A pass selects at most a batch of rows and updates them one by one; the *)
(* row stands for any row of such a batch.  An SQL statement is one step.  *)
(* Values of a field are numbered in the order they are set.               *)
(***************************************************************************)
EXTENDS Integers, SequencesExt

CONSTANTS
  Replicas,
  Rings,       \* the key rings deployed in turn, <<>> for none, active key first
  None,        \* SQL NULL
  MaxPatches   \* bound on the PATCHes of a field

Fields == {"token", "caBundle"}
Stages == DOMAIN Rings
Keys   == UNION {ToSet(Rings[s]) : s \in Stages}

VARIABLES
  stage,     \* the ring that a replica booted now is given
  ringOf,    \* the ring a replica was given
  pc,        \* where a replica is
  read,      \* the row as its pass selected it
  plain,     \* columns token and ca_bundle
  enc,       \* columns token_enc and ca_bundle_enc: <<key, value>>
  keyId,     \* column credential_key_id
  latest,    \* history: the value last set for a field, 0 before create()
  halved,    \* history: was the row ever part ciphertext, part plaintext
  raced,     \* history: has a pass updated a row that changed since its SELECT
  crossed    \* history: has a replica with an earlier ring written the row

vars == <<stage, ringOf, pc, read, plain, enc, keyId, latest, halved, raced, crossed>>
row  == <<plain, enc, keyId>>
history == <<halved, raced, crossed>>

Nothing == [f \in Fields |-> None]

Init ==
  /\ stage = 1 /\ ringOf = [r \in Replicas |-> 1]
  /\ pc = [r \in Replicas |-> "off"]
  /\ read = [r \in Replicas |-> <<Nothing, Nothing>>]
  /\ plain = Nothing /\ enc = Nothing /\ keyId = None
  /\ latest = [f \in Fields |-> 0]
  /\ halved = FALSE /\ raced = FALSE /\ crossed = FALSE

Ring(r)   == Rings[ringOf[r]]
Keyed(r)  == Ring(r) # <<>>
Active(r) == IF Keyed(r) THEN Head(Ring(r)) ELSE None

Decrypts(r, cipher) == cipher[1] \in ToSet(Ring(r))

Goes(r, from, to) == pc[r] = from /\ pc' = [pc EXCEPT ![r] = to]

\* A write by r: it may come after replicas were given a later ring.
Writes(r) == crossed' = (crossed \/ ringOf[r] < stage)

-----------------------------------------------------------------------------
(***************************************************************************)
(* Deployment.                                                             *)
(***************************************************************************)

\* The count that ADR-0016 has the operator look at before a key is dropped.
StaleRows(ring) ==
  /\ \E f \in Fields : enc[f] # None
  /\ keyId # None /\ keyId # Head(ring)

\* The next ring: when every replica that runs has the present one, and a
\* key goes only when no row is counted under another than the active key.
Deploy ==
  /\ stage + 1 \in Stages /\ stage' = stage + 1
  /\ \A r \in Replicas : pc[r] # "off" => ringOf[r] = stage
  /\ ToSet(Rings[stage]) \subseteq ToSet(Rings[stage']) \/ ~StaleRows(Rings[stage])
  /\ UNCHANGED <<ringOf, pc, read, row, latest, history>>

\* buildServer(): the passes run only with a ring.
Boot(r) ==
  /\ Goes(r, "off", IF Rings[stage] = <<>> THEN "serving" ELSE "migrate")
  /\ ringOf' = [ringOf EXCEPT ![r] = stage]
  /\ UNCHANGED <<stage, read, row, latest, history>>

\* A pass that is over: what it selected is not used again.
Forgets(r) == read' = [read EXCEPT ![r] = <<Nothing, Nothing>>]

\* A stop or a crash, anywhere.
Stop(r) ==
  /\ pc[r] # "off" /\ pc' = [pc EXCEPT ![r] = "off"] /\ Forgets(r)
  /\ UNCHANGED <<stage, ringOf, row, latest, history>>

-----------------------------------------------------------------------------
(***************************************************************************)
(* The passes.                                                             *)
(***************************************************************************)

\* SELECT: the pass goes on to its update, or ends.
Selects(r, found, from, update, done) ==
  /\ Goes(r, from, IF found THEN update ELSE done)
  /\ read' = IF found THEN [read EXCEPT ![r] = <<plain, enc>>] ELSE read
  /\ UNCHANGED <<stage, ringOf, row, latest, history>>

SelectPlain(r) ==
  Selects(r, \E f \in Fields : plain[f] # None, "migrate", "migrating", "reencrypt")

\* The comparison with a NULL credential_key_id is not true.
SelectStale(r) ==
  Selects(r, StaleRows(Ring(r)), "reencrypt", "reencrypting", "serving")

Race(r) == raced' = (raced \/ read[r] # <<plain, enc>>)

\* Both ciphertext columns are set, from the plaintext that was selected: a
\* column that has none becomes NULL.
UpdatePlain(r) ==
  /\ Goes(r, "migrating", "reencrypt")
  /\ plain' = Nothing
  /\ enc' = [f \in Fields |->
       IF read[r][1][f] = None THEN None ELSE <<Active(r), read[r][1][f]>>]
  /\ keyId' = Active(r)
  /\ Race(r) /\ Writes(r) /\ Forgets(r)
  /\ UNCHANGED <<stage, ringOf, latest, halved>>

Selected(r) == {f \in Fields : read[r][2][f] # None}

\* Mutant: the CA bundle keeps its ciphertext.
UpdateStaleToken(r) ==
  /\ Goes(r, "reencrypting", "serving")
  /\ \A f \in Selected(r) : Decrypts(r, read[r][2][f])
  /\ enc' = [f \in Fields |->
       IF f = "token" /\ f \in Selected(r) THEN <<Active(r), read[r][2][f][2]>> ELSE read[r][2][f]]
  /\ keyId' = Active(r)
  /\ Race(r) /\ Writes(r) /\ Forgets(r)
  /\ UNCHANGED <<stage, ringOf, plain, latest, halved>>

UpdateStale(r) ==
  /\ Goes(r, "reencrypting", "serving")
  /\ \A f \in Selected(r) : Decrypts(r, read[r][2][f])
  /\ enc' = [f \in Fields |->
       IF f \in Selected(r) THEN <<Active(r), read[r][2][f][2]>> ELSE None]
  /\ keyId' = Active(r)
  /\ Race(r) /\ Writes(r) /\ Forgets(r)
  /\ UNCHANGED <<stage, ringOf, plain, latest, halved>>

\* decryptSecret() throws: the replica fails to start.
PassFails(r) ==
  /\ Goes(r, "reencrypting", "off")
  /\ \E f \in Selected(r) : ~Decrypts(r, read[r][2][f])
  /\ Forgets(r)
  /\ UNCHANGED <<stage, ringOf, row, latest, history>>

-----------------------------------------------------------------------------
(***************************************************************************)
(* The repository.                                                         *)
(***************************************************************************)

\* Both statements set a field in one pair of columns and clear the other.
Set(r, F) ==
  /\ latest' = [f \in Fields |-> latest[f] + (IF f \in F THEN 1 ELSE 0)]
  /\ plain' = [f \in Fields |->
       IF f \notin F THEN plain[f] ELSE IF Keyed(r) THEN None ELSE latest'[f]]
  /\ enc' = [f \in Fields |->
       IF f \notin F THEN enc[f] ELSE IF Keyed(r) THEN <<Active(r), latest'[f]>> ELSE None]
  /\ keyId' = Active(r)
  /\ Writes(r)
  /\ UNCHANGED <<stage, ringOf, pc, read, raced>>

Half(p, e) == (\E f \in Fields : p[f] # None) /\ \E f \in Fields : e[f] # None

Create(r) ==
  /\ pc[r] = "serving" /\ \A f \in Fields : latest[f] = 0
  /\ Set(r, Fields)
  /\ UNCHANGED halved

Patch(r, F) ==
  /\ pc[r] = "serving" /\ \E f \in Fields : latest[f] > 0
  /\ \A f \in F : latest[f] <= MaxPatches
  /\ Set(r, F)
  /\ halved' = (halved \/ Half(plain', enc'))

Next ==
  \/ Deploy
  \/ \E r \in Replicas :
       \/ Boot(r) \/ Stop(r)
       \/ SelectPlain(r) \/ UpdatePlain(r)
       \/ SelectStale(r) \/ UpdateStale(r) \/ PassFails(r)
       \/ Create(r)
       \/ \E F \in (SUBSET Fields) \ {{}} : Patch(r, F)

Spec == Init /\ [][Next]_vars

-----------------------------------------------------------------------------
TypeOK ==
  /\ stage \in Stages /\ ringOf \in [Replicas -> Stages]
  /\ pc \in [Replicas -> {"off", "migrate", "migrating", "reencrypt", "reencrypting", "serving"}]
  /\ latest \in [Fields -> 0..(MaxPatches + 1)]
  /\ plain \in [Fields -> {None} \union 1..(MaxPatches + 1)]
  /\ \A f \in Fields : enc[f] # None => enc[f] \in Keys \X (1..(MaxPatches + 1))
  /\ keyId \in Keys \union {None}
  /\ \A r \in Replicas : DOMAIN read[r][1] = Fields /\ DOMAIN read[r][2] = Fields
  /\ {halved, raced, crossed} \subseteq BOOLEAN

\* What a field of the row says, whoever can read it.
Stored(f) == IF enc[f] # None THEN enc[f][2] ELSE plain[f]

\* getConnection() by a replica: decryptColumn() throws for ciphertext it
\* has no key for, and for plaintext when it has a ring.
Readable(r, f) ==
  IF enc[f] # None THEN Decrypts(r, enc[f]) ELSE plain[f] = None \/ ~Keyed(r)

\* A credential is the last one that was set (cluster.repository.ts:329-369,
\* migrations.ts:63-93, 114-154), unless a pass overlapped a write of the
\* row, or a replica with keys and one without wrote half of it each.
CredentialsKept ==
  \A f \in Fields : latest[f] > 0 => Stored(f) = latest[f] \/ raced \/ halved

\* A replica with the present ring can read every credential, through every
\* step of a rotation (migrations.ts:101-112, ADR-0016), unless a replica
\* with an earlier ring wrote the row while later ones were up.
CredentialsReadable ==
  \A r \in Replicas, f \in Fields :
    pc[r] = "serving" /\ ringOf[r] = stage => Readable(r, f) \/ crossed

CredentialsSafe == CredentialsKept /\ CredentialsReadable
=============================================================================
