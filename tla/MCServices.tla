----------------------------- MODULE MCServices -----------------------------
(***************************************************************************)
(* TLC instances of the services around the chat: quota, accounts,         *)
(* uploads, integrations vault, usage meter, runtime limits, notes and     *)
(* model preferences.  They share no state; focus picks the one that moves. *)
(***************************************************************************)
EXTENDS MCRateLimit, Accounts, Uploads, Vault, Usage, RuntimeSettings, Notes, Preferences

VARIABLE focus

\* The first catalog offers both models; after an upgrade of the sidecar one
\* of them is hidden and the other has a single effort.
TwoCatalogs ==
  {[default |-> "a", offers |-> [m \in Models |-> IF m = "a" THEN {"low", "high"} ELSE {"low"}],
    hidden |-> {}],
   [default |-> "b", offers |-> [m \in Models |-> IF m = "a" THEN {} ELSE {"low"}],
    hidden |-> {"a"}]}

serviceVars == <<focus, vars, accountVars, uploadVars, vaultVars, usageVars, limitVars,
                 noteVars, prefVars>>

Machines == {"quota", "accounts", "uploads", "vault", "usage", "limits", "notes", "prefs"}

\* The variables of every machine but m stay as they are.
OthersRest(m) ==
  /\ IF m = "quota" THEN TRUE ELSE UNCHANGED vars
  /\ IF m = "accounts" THEN TRUE ELSE UNCHANGED accountVars
  /\ IF m = "uploads" THEN TRUE ELSE UNCHANGED uploadVars
  /\ IF m = "vault" THEN TRUE ELSE UNCHANGED vaultVars
  /\ IF m = "usage" THEN TRUE ELSE UNCHANGED usageVars
  /\ IF m = "limits" THEN TRUE ELSE UNCHANGED limitVars
  /\ IF m = "notes" THEN TRUE ELSE UNCHANGED noteVars
  /\ IF m = "prefs" THEN TRUE ELSE UNCHANGED prefVars

ServicesInit ==
  /\ focus \in Machines
  /\ Init /\ AccountsInit /\ UploadsInit /\ VaultInit /\ UsageInit /\ LimitsInit
  /\ NotesInit /\ PreferencesInit
  \* one initial state per machine but for the choices it makes itself
  /\ focus # "quota" => limits = [active |-> 0, hourly |-> 0]
  /\ focus # "prefs" => live.default = "a"

ServicesNext ==
  /\ \/ focus = "quota" /\ Next
     \/ focus = "accounts" /\ AccountsNext
     \/ focus = "uploads" /\ UploadsNext
     \/ focus = "vault" /\ VaultNext
     \/ focus = "usage" /\ UsageNext
     \/ focus = "limits" /\ LimitsNext
     \/ focus = "notes" /\ NotesNext
     \/ focus = "prefs" /\ PreferencesNext
  /\ OthersRest(focus)
  /\ UNCHANGED focus

\* RateLimit's fairness: a TTL runs out.
ServicesSpec == ServicesInit /\ [][ServicesNext]_serviceVars /\ WF_vars(Expire)

\* Type invariant of the services: counters, rows, files and locks hold only
\* what the code stores in them.
ServicesTypeOK ==
  /\ TypeOK /\ AccountsTypeOK /\ UploadsTypeOK /\ VaultTypeOK /\ UsageTypeOK
  /\ LimitsTypeOK /\ NotesTypeOK /\ PreferencesTypeOK

\* The limits in force and the model options of a turn come from settings
\* that were in force when, or shortly before, they are used.
SettingsInForce == LimitsAreRecent /\ TurnOptionsAreOffered
=============================================================================
