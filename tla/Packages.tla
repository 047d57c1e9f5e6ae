------------------------------ MODULE Packages ------------------------------
(***************************************************************************)
(* The installation of one package (services/package_manager.py): requests   *)
(* that move directories in and out without a lock, while others install,    *)
(* upgrade or uninstall the same one.                                       *)
(***************************************************************************)
EXTENDS Naturals

CONSTANTS PkgAsker,      \* requests
          Versions,      \* bound on the versions published
          PkgMishaps     \* bound on failing moves, and on restarts

ASSUME PkgAssumption == Versions \in Nat \ {0} /\ PkgMishaps \in Nat

VARIABLES offered,     \* the version that the catalogue has
          here,        \* the package's directory: 0 if there is none, or a version
          aside,       \* its .old
          pkgAsker,    \* per request: its next step, the version that it has staged
          wanted,      \* history: installed, and not uninstalled since
          pkgMishaps

pkgVars == <<offered, here, aside, pkgAsker, wanted, pkgMishaps>>
dirVars == <<here, aside, wanted>>

Part  == Versions + 1      \* a directory without all of its files
NoPkg == [at |-> "idle", version |-> 0]

PkgTypeOK ==
    /\ offered \in 1..Versions /\ here \in 0..Part /\ aside \in 0..Part
    /\ pkgAsker \in [PkgAsker -> [at : {"idle", "staged", "swept", "moved", "cleans", "removes"},
                                  version : 0..Versions]]
    /\ wanted \in BOOLEAN /\ pkgMishaps \in 0..PkgMishaps

PkgInit ==
    /\ offered = 1 /\ here = 0 /\ aside = 0
    /\ pkgAsker = [a \in PkgAsker |-> NoPkg]
    /\ wanted = FALSE /\ pkgMishaps = 0

PkgMishap == pkgMishaps < PkgMishaps /\ pkgMishaps' = pkgMishaps + 1

PkgAt(a, step) == pkgAsker[a].at = step
PkgGoes(a, from, to) == PkgAt(a, from) /\ pkgAsker' = [pkgAsker EXCEPT ![a].at = to]
PkgEnds(a) == pkgAsker' = [pkgAsker EXCEPT ![a] = NoPkg]

Offers ==
    /\ offered < Versions /\ offered' = offered + 1
    /\ UNCHANGED <<dirVars, pkgAsker, pkgMishaps>>

-----------------------------------------------------------------------------
(* install *)

(* The download, which has to be the catalogue's, in a directory of its own.   *)
(* One that is refused leaves nothing.                                       *)
StagesPkg(a) ==
    /\ PkgAt(a, "idle")
    /\ pkgAsker' = [pkgAsker EXCEPT ![a] = [at |-> "staged", version |-> offered]]
    /\ UNCHANGED <<offered, dirVars, pkgMishaps>>

SweepsOld(a) ==
    /\ PkgGoes(a, "staged", "swept") /\ aside' = 0
    /\ UNCHANGED <<offered, here, wanted, pkgMishaps>>

(* What is there is renamed; onto another request's .old, that is an error.   *)
MovesAside(a) ==
    /\ \/ here = 0 /\ PkgGoes(a, "swept", "moved") /\ UNCHANGED <<here, aside>>
       \/ here # 0 /\ aside = 0 /\ PkgGoes(a, "swept", "moved") /\ aside' = here /\ here' = 0
       \/ here # 0 /\ aside # 0 /\ PkgAt(a, "swept") /\ PkgEnds(a) /\ UNCHANGED <<here, aside>>
    /\ UNCHANGED <<offered, wanted, pkgMishaps>>

(* So is a directory that another request has moved in first; the staged one    *)
(* is removed in the end.                                                   *)
MovesInOrClears(a) ==
    /\ \/ /\ here = 0 /\ PkgGoes(a, "moved", "cleans")
          /\ here' = pkgAsker[a].version /\ wanted' = TRUE
       \/ here # 0 /\ PkgAt(a, "moved") /\ PkgEnds(a) /\ here' = 0 /\ UNCHANGED wanted
    /\ UNCHANGED <<offered, aside, pkgMishaps>>

MovesIn(a) ==
    /\ \/ /\ here = 0 /\ PkgGoes(a, "moved", "cleans")
          /\ here' = pkgAsker[a].version /\ wanted' = TRUE
       \/ here # 0 /\ PkgAt(a, "moved") /\ PkgEnds(a) /\ UNCHANGED <<here, wanted>>
    /\ UNCHANGED <<offered, aside, pkgMishaps>>

CleansOld(a) ==
    /\ PkgAt(a, "cleans") /\ PkgEnds(a) /\ aside' = 0
    /\ UNCHANGED <<offered, here, wanted, pkgMishaps>>

-----------------------------------------------------------------------------
(* uninstall: file by file, and then the directory by its name, which may be   *)
(* another one by then; it is not removed if it has files.                   *)

RemovesFiles(a) ==
    /\ here # 0 /\ here' = Part /\ wanted' = FALSE
    /\ PkgGoes(a, "idle", "removes")
    /\ UNCHANGED <<offered, aside, pkgMishaps>>

RemovesDir(a) ==
    /\ PkgAt(a, "removes") /\ PkgEnds(a)
    /\ here' = (IF here = Part THEN 0 ELSE here)
    /\ UNCHANGED <<offered, aside, wanted, pkgMishaps>>

-----------------------------------------------------------------------------
(* A move or removal fails half way, or the hub restarts: the directories stay *)
(* as they are, and nothing looks for an .old later but the next install.     *)

PkgBreaks(a) ==
    /\ ~PkgAt(a, "idle") /\ PkgMishap /\ PkgEnds(a)
    /\ UNCHANGED <<offered, dirVars>>

PkgRestarts ==
    /\ PkgMishap /\ pkgAsker' = [a \in PkgAsker |-> NoPkg]
    /\ UNCHANGED <<offered, dirVars>>

PkgNext ==
    \/ Offers \/ PkgRestarts
    \/ \E a \in PkgAsker :
        \/ StagesPkg(a) \/ SweepsOld(a) \/ MovesAside(a) \/ MovesIn(a) \/ CleansOld(a)
        \/ RemovesFiles(a) \/ RemovesDir(a) \/ PkgBreaks(a)

PkgSpec == PkgInit /\ [][PkgNext]_pkgVars

-----------------------------------------------------------------------------
(* Properties *)

(* However many requests install the package at once, it stays installed, and   *)
(* whole, until it is uninstalled: it is away only while one of them is        *)
(* between its two renames, or after a failure or a restart there.            *)
PackageStaysInstalled ==
    wanted => \/ here \in 1..Versions
              \/ \E a \in PkgAsker : PkgAt(a, "moved")
              \/ pkgMishaps > 0
=============================================================================
