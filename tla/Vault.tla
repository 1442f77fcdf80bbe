--------------------------------- MODULE Vault ---------------------------------
(***************************************************************************)
(* Integrations and the files made from them: services/integrations,       *)
(* services/ssh_vault/_common.py, the settings half of tg/service.py, the  *)
(* integration routes of api/settings/router.py and the key bootstrap of   *)
(* main.py and scripts/prepare_settings.py.                                *)
(*                                                                         *)
(* The administrator's rows are in Postgres, their secrets sealed with a   *)
(* master key kept in a file.  Every worker writes the enabled rows out to *)
(* one shared directory (key files, ssh config, git credentials, CLI       *)
(* tokens), under an advisory lock of the database and, in the thread that *)
(* writes, a file lock.                                                    *)
(***************************************************************************)
EXTENDS Naturals, Sequences

CONSTANTS
    Writers,        \* gunicorn workers
    NoWriter,       \* nobody holds a lock
    SshRows,        \* ids of rows of kind SSH: a key file each
    TokenRows,      \* ids of GITHUB and GITLAB rows
    MaxRevisions,   \* bound: committed states of the table
    MaxVaultFaults  \* bound: crashes, failed writes, cancellations, lost keys

ASSUME VaultAssumption ==
    /\ Writers # {} /\ NoWriter \notin Writers /\ SshRows \cap TokenRows = {}
    /\ MaxRevisions \in Nat \ {0} /\ MaxVaultFaults \in Nat

RowIds == SshRows \cup TokenRows
Outputs == {"config", "git-credentials", "cli-tokens"}

\* a row of `integrations`: at is its updated_at (0: no such row), sealed the
\* master key its secret was sealed with
Integration == [at : 0..MaxRevisions, enabled : BOOLEAN, sealed : Nat]
MasterKey == [is : {"absent", "empty", "key"}, id : Nat]
NoRow == [at |-> 0, enabled |-> FALSE, sealed |-> 0]

VARIABLES
    history,     \* the committed states of the table, oldest first
    masterKey,   \* the key file: absent, created but empty, or holding a key
    keysMade,    \* keys generated so far
    lostKey,     \* a key the operator can restore (0: none)
    advisory,    \* holder of pg_advisory_xact_lock(6241831)
    flocked,     \* holder of the vault's file lock
    output,      \* output[f]: the revision the file was made from (0: empty)
    keyFiles,    \* SSH rows that have a managed_<id> file
    phase,       \* where a worker is
    memo,        \* _runtime_revision (0: None)
    snapshot,    \* revision a worker's thread is writing (0: the wipe)
    serving,     \* workers past their start-up
    unfinished,  \* history: a round failed or died, and none has ended well since
    vaultFaults

vaultVars == <<history, masterKey, keysMade, lostKey, advisory, flocked, output,
               keyFiles, phase, memo, snapshot, serving, unfinished, vaultFaults>>

keyVars == <<masterKey, keysMade, lostKey>>
fileVars == <<output, keyFiles, unfinished>>
workerVars == <<phase, memo, snapshot, serving>>

Phases == {"down", "boot", "key", "keywrite", "idle", "queued", "keys", "config",
           "git-credentials", "cli-tokens", "unlink"}
InThread == {"queued", "keys", "config", "git-credentials", "cli-tokens", "unlink"}
Writing == InThread \ {"queued"}

VaultTypeOK ==
    /\ Len(history) \in 1..MaxRevisions
    /\ \A n \in DOMAIN history : history[n] \in [RowIds -> Integration]
    /\ masterKey \in MasterKey /\ (masterKey.is = "key" => masterKey.id \in 1..keysMade)
    /\ lostKey \in 0..keysMade
    /\ advisory \in Writers \cup {NoWriter} /\ flocked \in Writers \cup {NoWriter}
    /\ output \in [Outputs -> 0..Len(history)] /\ keyFiles \subseteq SshRows
    /\ phase \in [Writers -> Phases]
    /\ memo \in [Writers -> 0..Len(history)] /\ snapshot \in [Writers -> 0..Len(history)]
    /\ serving \subseteq Writers /\ unfinished \in BOOLEAN
    /\ \A w \in Writers :
          /\ advisory = w => phase[w] \in InThread
          /\ phase[w] \in Writing => flocked = w

EmptyKey == [is |-> "empty", id |-> 0]
NoRows == [i \in RowIds |-> NoRow]

\* a fresh deployment: no rows, no key, an empty directory
VaultInit ==
    /\ history = <<NoRows>>
    /\ masterKey = [is |-> "absent", id |-> 0] /\ keysMade = 0 /\ lostKey = 0
    /\ advisory = NoWriter /\ flocked = NoWriter
    /\ output = [f \in Outputs |-> 0] /\ keyFiles = {}
    /\ phase = [w \in Writers |-> "down"]
    /\ memo = [w \in Writers |-> 0] /\ snapshot = [w \in Writers |-> 0]
    /\ serving = {} /\ unfinished = FALSE
    /\ vaultFaults = 0

VaultFault == vaultFaults < MaxVaultFaults /\ vaultFaults' = vaultFaults + 1

Now == Len(history)
Table == history[Now]
Exists(i) == Table[i].at # 0
Existing == {i \in RowIds : Exists(i)}

\* materialize: the rows of a revision that are written out
Active(n, ids) == IF n = 0 THEN {} ELSE {i \in ids : history[n][i].enabled}

\* SecretCipher._cipher: the file holds a Fernet key
Usable == masterKey.is = "key"
Unseals(n) == \A i \in Active(n, RowIds) : Usable /\ masterKey.id = history[n][i].sealed

-----------------------------------------------------------------------------
(* Start-up: _bootstrap_users and the first _refresh_settings *)

Boot(w) ==
    /\ phase[w] = "down"
    /\ phase' = [phase EXCEPT ![w] = "boot"]
    /\ UNCHANGED <<history, keyVars, advisory, flocked, fileVars, memo, snapshot, serving,
                   vaultFaults>>

\* _bootstrap_users: only a table without rows asks for a key
ListForKey(w) ==
    /\ phase[w] = "boot"
    /\ phase' = [phase EXCEPT ![w] = IF Existing = {} THEN "key" ELSE "idle"]
    /\ UNCHANGED <<history, keyVars, advisory, flocked, fileVars, memo, snapshot, serving,
                   vaultFaults>>

\* ensure_key: a file that exists is read (an empty one raises and ends the
\* start-up), a missing one is created with O_EXCL, still empty
EnsureKey(w) ==
    /\ phase[w] = "key"
    /\ \/ /\ masterKey.is = "absent"
          /\ masterKey' = EmptyKey /\ phase' = [phase EXCEPT ![w] = "keywrite"]
       \/ /\ masterKey.is # "absent"
          /\ phase' = [phase EXCEPT ![w] = IF Usable THEN "idle" ELSE "down"]
          /\ UNCHANGED masterKey
    /\ UNCHANGED <<history, keysMade, lostKey, advisory, flocked, fileVars, memo, snapshot,
                   serving, vaultFaults>>

\* ensure_key: Fernet.generate_key() goes into the file
WriteKey(w) ==
    /\ phase[w] = "keywrite"
    /\ keysMade' = keysMade + 1 /\ masterKey' = [is |-> "key", id |-> keysMade + 1]
    /\ phase' = [phase EXCEPT ![w] = "idle"]
    /\ UNCHANGED <<history, lostKey, advisory, flocked, fileVars, memo, snapshot, serving,
                   vaultFaults>>

-----------------------------------------------------------------------------
(* _refresh_settings, at the start and every INTEGRATIONS_REFRESH_SECONDS *)

\* runtime_revision = self._runtime_revision: the ids and the updated_at of the
\* rows, so a table that is again what it was counts as written
Written(w) == memo[w] # 0 /\ history[memo[w]] = Table

\* mutant: the rows are listed before the lock is taken
Refresh_lists_first(w) ==
    /\ phase[w] = "idle" /\ advisory = NoWriter
    /\ ~Written(w)
    /\ advisory' = w
    /\ phase' = [phase EXCEPT ![w] = "queued"]
    /\ \E n \in 1..Now : n >= memo[w] /\ snapshot' = [snapshot EXCEPT ![w] = n]
    /\ UNCHANGED <<history, keyVars, flocked, fileVars, memo, serving, vaultFaults>>

\* lock, list the rows and, unless they are the ones this worker wrote last,
\* hand them to a thread
Refresh(w) ==
    /\ phase[w] = "idle" /\ advisory = NoWriter
    /\ ~Written(w)
    /\ advisory' = w
    /\ phase' = [phase EXCEPT ![w] = "queued"]
    /\ snapshot' = [snapshot EXCEPT ![w] = Now]
    /\ UNCHANGED <<history, keyVars, flocked, fileVars, memo, serving, vaultFaults>>

\* The round is over: the transaction ends and with it the lock.  A failure
\* of the first round (a lost connection, noticed at the end, is one) ends the
\* start-up, a later one is only logged; the thread of a cancelled round has
\* nobody to report to.
Finish(w, ok) ==
    /\ flocked' = NoWriter
    /\ advisory' = IF advisory = w THEN NoWriter ELSE advisory
    /\ LET up == w \in serving \/ (ok /\ advisory = w)
       IN /\ phase' = [phase EXCEPT ![w] = IF up THEN "idle" ELSE "down"]
          /\ serving' = IF up THEN serving \cup {w} ELSE serving \ {w}
          /\ memo' = [memo EXCEPT ![w] = IF ~up THEN 0 ELSE IF ok THEN snapshot[w] ELSE @]
    /\ snapshot' = [snapshot EXCEPT ![w] = 0]
    /\ unfinished' = ~ok

\* materialize: flock, then every secret is unsealed; one that cannot be
\* turns the call into the wipe (snapshot 0)
TakeVaultLock(w) ==
    /\ phase[w] = "queued" /\ flocked = NoWriter
    /\ flocked' = w
    /\ IF Unseals(snapshot[w])
         THEN phase' = [phase EXCEPT ![w] = "keys"] /\ UNCHANGED snapshot
         ELSE phase' = [phase EXCEPT ![w] = "config"] /\ snapshot' = [snapshot EXCEPT ![w] = 0]
    /\ UNCHANGED <<history, keyVars, advisory, fileVars, memo, serving, vaultFaults>>

\* write_secret for each SSH row; an OSError leaves the ones written so far
WriteKeyFiles(w) ==
    /\ phase[w] = "keys"
    /\ LET hosts == Active(snapshot[w], SshRows)
       IN \/ /\ keyFiles' = keyFiles \cup hosts
             /\ phase' = [phase EXCEPT ![w] = "config"]
             /\ UNCHANGED <<advisory, flocked, memo, snapshot, serving, unfinished, vaultFaults>>
          \/ /\ VaultFault
             /\ \E some \in SUBSET hosts : some # hosts /\ keyFiles' = keyFiles \cup some
             /\ Finish(w, FALSE)
    /\ UNCHANGED <<history, keyVars, output>>

\* mutant: the stale key files go before the config that names them
WriteOutput_after_unlink(w) ==
    /\ phase[w] \in Outputs
    /\ output' = [output EXCEPT ![phase[w]] = snapshot[w]]
    /\ keyFiles' = IF phase[w] = "config" THEN keyFiles \cap Active(snapshot[w], SshRows)
                                         ELSE keyFiles
    /\ phase' = [phase EXCEPT ![w] = "unlink"]
    /\ UNCHANGED <<history, keyVars, advisory, flocked, memo, snapshot, serving, unfinished,
                   vaultFaults>>

NextPhase(p) == CASE p = "config" -> "git-credentials"
                  [] p = "git-credentials" -> "cli-tokens"
                  [] p = "cli-tokens" -> "unlink"

\* write_secret on config, then git-credentials, then cli-tokens.json: a
\* temporary file moved into place, so the old content or the new
WriteOutput(w) ==
    /\ phase[w] \in Outputs
    /\ \/ /\ output' = [output EXCEPT ![phase[w]] = snapshot[w]]
          /\ phase' = [phase EXCEPT ![w] = NextPhase(@)]
          /\ UNCHANGED <<advisory, flocked, memo, snapshot, serving, unfinished, vaultFaults>>
       \/ VaultFault /\ Finish(w, FALSE) /\ UNCHANGED output
    /\ UNCHANGED <<history, keyVars, keyFiles>>

\* the managed_* files that are not kept are unlinked; the wipe raises
UnlinkStale(w) ==
    /\ phase[w] = "unlink"
    /\ keyFiles' = keyFiles \cap Active(snapshot[w], SshRows)
    /\ Finish(w, snapshot[w] # 0)
    /\ UNCHANGED <<history, keyVars, output, vaultFaults>>

-----------------------------------------------------------------------------
(* The settings routes, served by any worker that is up *)

Commit(i, r) == history' = Append(history, [Table EXCEPT ![i] = r])

\* save: create or update a row, under the advisory lock; without a usable
\* key the secret cannot be sealed (400).  An update may keep the secret.
SaveIntegration ==
    /\ serving # {} /\ advisory = NoWriter /\ Now < MaxRevisions
    /\ \E i \in RowIds, on \in BOOLEAN :
          \/ Usable /\ Commit(i, [at |-> Now + 1, enabled |-> on, sealed |-> masterKey.id])
          \/ Exists(i) /\ Commit(i, [Table[i] EXCEPT !.at = Now + 1, !.enabled = on])
    /\ UNCHANGED <<keyVars, advisory, flocked, fileVars, workerVars, vaultFaults>>

\* delete_integration: no lock
DeleteIntegration ==
    /\ serving # {} /\ Now < MaxRevisions
    /\ \E i \in Existing : Commit(i, NoRow)
    /\ UNCHANGED <<keyVars, advisory, flocked, fileVars, workerVars, vaultFaults>>

\* scripts/prepare_settings.py, before an upgrade: under the lock, a key when
\* there are no rows (with rows a missing key stops it), then the tokens of
\* the environment as rows of kinds that have none
PrepareSettings ==
    /\ advisory = NoWriter /\ Now < MaxRevisions
    /\ Usable \/ (masterKey.is = "absent" /\ Existing = {})
    /\ keysMade' = IF Usable THEN keysMade ELSE keysMade + 1
    /\ masterKey' = IF Usable THEN masterKey ELSE [is |-> "key", id |-> keysMade + 1]
    /\ \E i \in TokenRows \ Existing :
          Commit(i, [at |-> Now + 1, enabled |-> TRUE, sealed |-> masterKey'.id])
    /\ UNCHANGED <<lostKey, advisory, flocked, fileVars, workerVars, vaultFaults>>

-----------------------------------------------------------------------------
(* Faults *)

\* a worker dies: its locks go, its thread with it, the files stay
KillWriter(w) ==
    /\ phase[w] # "down" /\ VaultFault
    /\ advisory' = IF advisory = w THEN NoWriter ELSE advisory
    /\ flocked' = IF flocked = w THEN NoWriter ELSE flocked
    /\ phase' = [phase EXCEPT ![w] = "down"]
    /\ memo' = [memo EXCEPT ![w] = 0] /\ snapshot' = [snapshot EXCEPT ![w] = 0]
    /\ serving' = serving \ {w}
    /\ unfinished' = (unfinished \/ phase[w] \in Writing)
    /\ UNCHANGED <<history, keyVars, output, keyFiles>>

\* stop() cancels the settings task: the transaction ends at once, the thread
\* it was waiting for goes on, and the process exits after it
CancelRefresh(w) ==
    /\ advisory = w /\ w \in serving /\ VaultFault
    /\ advisory' = NoWriter /\ serving' = serving \ {w}
    /\ UNCHANGED <<history, keyVars, flocked, fileVars, phase, memo, snapshot>>

\* the database drops the connection of a round: the lock is free, the thread
\* goes on and the worker notices only after it
LoseConnection(w) ==
    /\ advisory = w /\ VaultFault
    /\ advisory' = NoWriter
    /\ UNCHANGED <<history, keyVars, flocked, fileVars, workerVars>>

\* The operator loses the key file (not within the instants of a start-up
\* between the listing of the rows and the look at the file), or restores it.
LoseKey ==
    /\ Usable /\ VaultFault
    /\ \A w \in Writers : phase[w] # "key"
    /\ masterKey' = [is |-> "absent", id |-> 0] /\ lostKey' = masterKey.id
    /\ UNCHANGED <<history, keysMade, advisory, flocked, fileVars, workerVars>>

RestoreKey ==
    /\ lostKey # 0 /\ masterKey.is = "absent"
    /\ masterKey' = [is |-> "key", id |-> lostKey] /\ lostKey' = 0
    /\ UNCHANGED <<history, keysMade, advisory, flocked, fileVars, workerVars, vaultFaults>>

VaultNext ==
    \/ \E w \in Writers :
          \/ Boot(w) \/ ListForKey(w) \/ EnsureKey(w) \/ WriteKey(w)
          \/ Refresh(w) \/ TakeVaultLock(w) \/ WriteKeyFiles(w) \/ WriteOutput(w)
          \/ UnlinkStale(w) \/ KillWriter(w) \/ CancelRefresh(w) \/ LoseConnection(w)
    \/ SaveIntegration \/ DeleteIntegration \/ PrepareSettings
    \/ LoseKey \/ RestoreKey

VaultSpec == VaultInit /\ [][VaultNext]_vaultVars

-----------------------------------------------------------------------------
(* Properties *)

\* At every moment, also after a crash between two writes of materialize, each
\* host in the ssh config has its key file (runtime.py writes the keys, then
\* the config, and unlinks last).
NoDanglingIdentity == Active(output["config"], SshRows) \subseteq keyFiles

\* "Serialize snapshots across workers so an older snapshot cannot replace a
\* new one" (tg/service.py _refresh_settings): a file goes back to an older
\* revision only by the wipe, or by the thread of a round whose transaction
\* ended under it, cancelled in a worker that is stopping or cut off from the
\* database.
OlderNeverReplaces ==
    [][\A f \in Outputs :
          output'[f] < output[f] =>
             output'[f] = 0 \/ (flocked # NoWriter /\ advisory # flocked)]_vaultVars

\* A secret in the table can be read with the key in the file: no start-up,
\* script or race of two makes a second key once rows exist (ensure_key: "old
\* secrets become unreadable").
SecretsReadable ==
    Usable => \A i \in Existing : Table[i].sealed = masterKey.id

\* The directory is that of the table.
DirectoryIsTable ==
    /\ keyFiles = Active(Now, SshRows)
    /\ Active(output["config"], SshRows) = Active(Now, SshRows)
    /\ \A f \in {"git-credentials", "cli-tokens"} :
          Active(output[f], TokenRows) = Active(Now, TokenRows)

\* No round will write again: every worker remembers the table's revision.
Quiet == \A w \in Writers : w \in serving /\ phase[w] = "idle" /\ Written(w)

\* When no worker sees a reason to write, the directory is that of the table:
\* nothing of a deleted or disabled row is left in any file and nothing of the
\* others is missing, whatever failed, crashed or was overtaken before the
\* last round, provided that one ended well.
VaultSettled == Quiet /\ ~unfinished => DirectoryIsTable

\* What the CLIs of a turn find in the secrets directory can be used and is
\* what the table says (integrations/runtime.py).
VaultIsSound == NoDanglingIdentity /\ SecretsReadable /\ VaultSettled

\* README.md:305 has the runtime files written at the start and at every change.
\* Not so: when a round fails between two files, or wipes them because a secret
\* cannot be read, and the row that made it necessary is deleted again, the
\* revision is the remembered one and nobody writes.
QuietIsSettled == Quiet => DirectoryIsTable
=============================================================================
