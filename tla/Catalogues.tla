----------------------------- MODULE Catalogues -----------------------------
(***************************************************************************)
(* The two catalogues that the hub fetches from GitHub: the apps'            *)
(* (services/remote_registry.py) and the packages' (package_catalog.py).     *)
(* Each has an hourly loop, and requests that refresh it too; what is shown   *)
(* changes under a lock, the cache that a restart reads after it.            *)
(***************************************************************************)
EXTENDS Naturals, FiniteSets

CONSTANTS Refresher,         \* requests that refresh, and the loop
          Loop,              \* the loop
          Editions,          \* bound on the editions published
          CatalogueMishaps   \* bound on failing writes, answers and restarts

ASSUME CatalogueAssumption ==
    Loop \in Refresher /\ Editions \in Nat \ {0} /\ CatalogueMishaps \in Nat

VARIABLES catalogue,   \* which of the two it is
          edition,     \* the newest edition on GitHub
          shown,       \* in memory; 0 is what is built in
          cached,      \* in the cache's file; 0 also for one that cannot be read
          refresher,   \* per thread: its next step and the edition that it has fetched
          uncached,    \* history: the last write of the cache failed
          passed,      \* history: another refresh stored between this one's two steps
          catalogueMishaps

catalogueVars ==
    <<catalogue, edition, shown, cached, refresher, uncached, passed, catalogueMishaps>>

NoRefresh == [at |-> "idle", edition |-> 0]

CatalogueTypeOK ==
    /\ catalogue \in {"apps", "packages"} /\ edition \in 1..Editions
    /\ shown \in 0..Editions /\ cached \in 0..Editions
    /\ refresher \in [Refresher -> [at : {"idle", "stores", "saves", "dead"},
                                    edition : 0..Editions]]
    /\ uncached \in BOOLEAN /\ passed \in BOOLEAN
    /\ catalogueMishaps \in 0..CatalogueMishaps

CatalogueInit ==
    /\ catalogue \in {"apps", "packages"} /\ edition = 1
    /\ shown = 0 /\ cached = 0
    /\ refresher = [r \in Refresher |-> NoRefresh]
    /\ uncached = FALSE /\ passed = FALSE /\ catalogueMishaps = 0

CatalogueMishap ==
    /\ catalogueMishaps < CatalogueMishaps /\ catalogueMishaps' = catalogueMishaps + 1

RefresherAt(r, step) == refresher[r].at = step
Saving == {r \in Refresher : RefresherAt(r, "saves")}
RefreshIs(r, record) == refresher' = [refresher EXCEPT ![r] = record]

Publishes ==
    /\ edition < Editions /\ edition' = edition + 1
    /\ UNCHANGED <<catalogue, shown, cached, refresher, uncached, passed, catalogueMishaps>>

-----------------------------------------------------------------------------
(* refresh.  An error of the request, or an answer that is no JSON, changes    *)
(* nothing but the message; an answer of another shape is not expected and     *)
(* ends the loop for good.                                                  *)

FetchesCatalogue(r) ==
    /\ RefresherAt(r, "idle")
    /\ RefreshIs(r, [at |-> "stores", edition |-> edition])
    /\ UNCHANGED <<catalogue, edition, shown, cached, uncached, passed, catalogueMishaps>>

FetchFails(r) ==
    /\ RefresherAt(r, "idle") /\ CatalogueMishap
    /\ RefreshIs(r, IF r = Loop THEN [NoRefresh EXCEPT !.at = "dead"] ELSE NoRefresh)
    /\ UNCHANGED <<catalogue, edition, shown, cached, uncached, passed>>

StoresCatalogue(r) ==
    /\ RefresherAt(r, "stores") /\ shown' = refresher[r].edition
    /\ RefreshIs(r, [refresher[r] EXCEPT !.at = "saves"])
    /\ passed' = (Saving # {})
    /\ UNCHANGED <<catalogue, edition, cached, uncached, catalogueMishaps>>

SavesCatalogueOnce(r) ==
    /\ RefresherAt(r, "saves") /\ RefreshIs(r, NoRefresh)
    /\ cached' = (IF cached = 0 THEN refresher[r].edition ELSE cached)
    /\ uncached' = FALSE
    /\ UNCHANGED <<catalogue, edition, shown, passed, catalogueMishaps>>

(* _save_cache, after the lock.                                              *)
SavesCatalogue(r) ==
    /\ RefresherAt(r, "saves") /\ RefreshIs(r, NoRefresh)
    /\ cached' = refresher[r].edition /\ uncached' = FALSE
    /\ UNCHANGED <<catalogue, edition, shown, passed, catalogueMishaps>>

(* An error of the write is swallowed by the packages' catalogue only; the     *)
(* file may be cut short.                                                   *)
SaveOfCatalogueFails(r) ==
    /\ RefresherAt(r, "saves") /\ CatalogueMishap
    /\ RefreshIs(r, IF r = Loop /\ catalogue = "apps" THEN [NoRefresh EXCEPT !.at = "dead"]
                    ELSE NoRefresh)
    /\ cached' \in {cached, 0} /\ uncached' = TRUE
    /\ UNCHANGED <<catalogue, edition, shown, passed>>

(* The hub restarts: what the cache has is shown, and the loop begins anew.    *)
CatalogueRestarts ==
    /\ CatalogueMishap
    /\ cached' \in IF Saving = {} THEN {cached} ELSE {cached, 0}
    /\ shown' = cached'
    /\ refresher' = [r \in Refresher |-> NoRefresh]
    /\ uncached' = FALSE /\ passed' = FALSE /\ UNCHANGED <<catalogue, edition>>

CatalogueNext ==
    \/ Publishes
    \/ \E r \in Refresher :
        \/ FetchesCatalogue(r) \/ FetchFails(r) \/ StoresCatalogue(r)
        \/ SavesCatalogue(r) \/ SaveOfCatalogueFails(r)
    \/ CatalogueRestarts

CatalogueSpec == CatalogueInit /\ [][CatalogueNext]_catalogueVars

-----------------------------------------------------------------------------
(* Properties *)

(* Once every refresh has saved, what a restart would show is what is shown,   *)
(* unless the last write failed, or two refreshes crossed: then it may be the  *)
(* older one that is cached.                                                *)
RestartShowsTheSame == ~passed /\ ~uncached /\ Saving = {} => cached = shown
=============================================================================
