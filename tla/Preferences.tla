------------------------------ MODULE Preferences ------------------------------
(***************************************************************************)
(* services/codex_prefs and rpc/codex.py: the model and reasoning effort a *)
(* user prefers on a sidecar.  The catalog of models comes from the        *)
(* sidecar and is kept in Redis for ten minutes; UpdatePreferences checks  *)
(* a choice against it and stores it, every turn resolves it again.        *)
(***************************************************************************)
EXTENDS Naturals

CONSTANTS
    Models, Efforts,
    NoChoice,         \* None: the sidecar's default
    Catalogs,         \* catalogs the sidecar may offer
    Fallback,         \* CODEX_REASONING_EFFORT, or None when it is empty
    Updates,          \* UpdatePreferences requests
    MaxUpgrades,      \* bound: changes of the sidecar's catalog
    MaxCatalogErrors  \* bound: failed calls to Redis or the sidecar

Catalog == [default : Models, offers : [Models -> SUBSET Efforts], hidden : SUBSET Models]

ASSUME PreferencesAssumption ==
    /\ NoChoice \notin Models \cup Efforts /\ Fallback \in Efforts \cup {NoChoice}
    /\ Catalogs \subseteq Catalog
    /\ \A c \in Catalogs : c.default \notin c.hidden
    /\ MaxUpgrades \in Nat /\ MaxCatalogErrors \in Nat

VARIABLES
    live,           \* the sidecar's catalog
    kept,           \* the cached catalog, {} or one
    preference,     \* the row of codex_preferences
    update,         \* a request: the choice it has checked
    options,        \* what the last turn resolved: one choice, or {} when the model is unknown
    upgrades, catalogErrors

prefVars == <<live, kept, preference, update, options, upgrades, catalogErrors>>

Choice == [model : Models \cup {NoChoice}, effort : Efforts \cup {NoChoice}]
Default == [model |-> NoChoice, effort |-> NoChoice]
NoUpdate == [step |-> "idle", want |-> Default]

PreferencesTypeOK ==
    /\ live \in Catalogs /\ kept \in {{}} \cup {{c} : c \in Catalogs}
    /\ preference \in Choice
    /\ update \in [Updates -> [step : {"idle", "checked"}, want : Choice]]
    /\ options \in {{}} \cup {{o} : o \in Choice}
    /\ upgrades \in 0..MaxUpgrades /\ catalogErrors \in 0..MaxCatalogErrors

PreferencesInit ==
    /\ live \in Catalogs /\ kept = {}
    /\ preference = Default
    /\ update = [u \in Updates |-> NoUpdate]
    /\ options = {}
    /\ upgrades = 0 /\ catalogErrors = 0

-----------------------------------------------------------------------------

\* _effective_model: the chosen model when the catalog shows it, else the
\* default one; a set of at most one
EffectiveModel(c, m) == {x \in Models \ c.hidden : x = (IF m = NoChoice THEN c.default ELSE m)}

\* _supports: a model that names no effort supports every one
Supports(c, m, e) == c.offers[m] = {} \/ e \in c.offers[m]

\* _validate
Valid(c, want) ==
    /\ want.model # NoChoice => EffectiveModel(c, want.model) # {}
    /\ want.effort # NoChoice =>
          \A m \in EffectiveModel(c, want.model) : Supports(c, m, want.effort)

\* CodexModelCatalog.list: the cached catalog, or the sidecar's, which is then
\* cached; a failed read of the cache asks the sidecar, a failed write is ignored
ListModels(c) ==
    \/ kept = {c} /\ UNCHANGED <<kept, catalogErrors>>
    \/ kept = {} /\ c = live /\ kept' = {c} /\ UNCHANGED catalogErrors
    \/ /\ catalogErrors < MaxCatalogErrors /\ catalogErrors' = catalogErrors + 1
       /\ c = live /\ UNCHANGED kept

\* update_preferences: the choice is checked; an unknown model or effort and an
\* unreachable sidecar end the request
CheckPreference(u) ==
    /\ update[u].step = "idle"
    /\ \E want \in Choice, c \in Catalogs :
          /\ ListModels(c)
          /\ Valid(c, want)
          /\ update' = [update EXCEPT ![u] = [step |-> "checked", want |-> want]]
    /\ UNCHANGED <<live, preference, options, upgrades>>

\* the upsert writes both columns
StorePreference(u) ==
    /\ update[u].step = "checked"
    /\ preference' = update[u].want
    /\ update' = [update EXCEPT ![u] = NoUpdate]
    /\ UNCHANGED <<live, kept, options, upgrades, catalogErrors>>

\* resolve_turn_options: UnknownModelError fails the turn; a stored effort is
\* taken as it is, the fallback only when the model supports it
ResolveTurn ==
    /\ \E c \in Catalogs :
          /\ ListModels(c)
          /\ options' =
               {[model |-> m,
                 effort |-> IF preference.effort # NoChoice THEN preference.effort
                            ELSE IF Supports(c, m, Fallback) THEN Fallback ELSE NoChoice] :
                   m \in EffectiveModel(c, preference.model)}
    /\ UNCHANGED <<live, preference, update, upgrades>>

\* _CACHE_TTL_S passes
ExpireCatalog ==
    /\ kept # {} /\ kept' = {}
    /\ UNCHANGED <<live, preference, update, options, upgrades, catalogErrors>>

\* a new sidecar image
UpgradeSidecar ==
    /\ upgrades < MaxUpgrades /\ upgrades' = upgrades + 1
    /\ live' \in Catalogs \ {live}
    /\ UNCHANGED <<kept, preference, update, options, catalogErrors>>

PreferencesNext ==
    \/ \E u \in Updates : CheckPreference(u) \/ StorePreference(u)
    \/ ResolveTurn \/ ExpireCatalog \/ UpgradeSidecar

PreferencesSpec == PreferencesInit /\ [][PreferencesNext]_prefVars

-----------------------------------------------------------------------------

\* As long as the sidecar has not changed its catalog, a turn is started with
\* a model it offers and an effort that model supports, whatever updates of
\* two windows came between and on whichever of cache and sidecar each relied.
TurnOptionsAreOffered ==
    upgrades = 0 =>
       \A o \in options :
          /\ o.model \in Models \ live.hidden
          /\ o.effort # NoChoice => Supports(live, o.model, o.effort)

=============================================================================
