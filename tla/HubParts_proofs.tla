-------------------------- MODULE HubParts_proofs --------------------------
(***************************************************************************)
(* What holds of five parts of the hub that share no state, for any number  *)
(* of overlapping requests, failures and restarts: the catalogues, the      *)
(* packages, the secret of FjordCode, the codes of a password reset, and    *)
(* the rules of a Cloudflare tunnel.                                        *)
(***************************************************************************)
EXTENDS Catalogues, Packages, CodeInstall, PasswordReset, CloudflareAddress,
        SequenceTheorems, TLAPS

-----------------------------------------------------------------------------
(* Catalogues.  As long as refreshes have not crossed, at most one has      *)
(* stored and not saved, and what it will save is what is shown.            *)

OneSaves ==
    ~passed => /\ \A r, s \in Saving : r = s
               /\ \A r \in Saving : refresher[r].edition = shown

CatalogueInv == CatalogueTypeOK /\ OneSaves /\ RestartShowsTheSame

LEMMA CatalogueInitInv == CatalogueInit => CatalogueInv
<1> SUFFICES ASSUME CatalogueInit PROVE CatalogueInv
  OBVIOUS
<1> USE CatalogueAssumption DEF CatalogueInit, NoRefresh
<1>1. CatalogueTypeOK
  <2>1. uncached \in BOOLEAN /\ passed \in BOOLEAN
    BY Zenon
  <2> QED BY <2>1 DEF CatalogueTypeOK
<1>2. Saving = {}
  BY DEF Saving, RefresherAt
<1> QED BY <1>1, <1>2 DEF CatalogueInv, OneSaves, RestartShowsTheSame

LEMMA CatalogueNextInv ==
  ASSUME CatalogueInv, [CatalogueNext]_catalogueVars PROVE CatalogueInv'
<1> USE CatalogueAssumption DEF CatalogueInv, CatalogueTypeOK, OneSaves, RestartShowsTheSame,
      Saving, RefresherAt, RefreshIs, NoRefresh
<1>1. CASE Publishes
  BY <1>1 DEF Publishes
<1>2. ASSUME NEW r \in Refresher, FetchesCatalogue(r) PROVE CatalogueInv'
  BY <1>2 DEF FetchesCatalogue
<1>3. ASSUME NEW r \in Refresher, FetchFails(r) PROVE CatalogueInv'
  BY <1>3 DEF FetchFails, CatalogueMishap
<1>4. ASSUME NEW r \in Refresher, StoresCatalogue(r) PROVE CatalogueInv'
  BY <1>4 DEF StoresCatalogue
<1>5. ASSUME NEW r \in Refresher, SavesCatalogue(r) PROVE CatalogueInv'
  <2>1. uncached' \in BOOLEAN
    BY <1>5, Zenon DEF SavesCatalogue
  <2> QED BY <1>5, <2>1 DEF SavesCatalogue
<1>6. ASSUME NEW r \in Refresher, SaveOfCatalogueFails(r) PROVE CatalogueInv'
  BY <1>6 DEF SaveOfCatalogueFails, CatalogueMishap
<1>7. CASE CatalogueRestarts
  <2>1. uncached' \in BOOLEAN /\ passed' \in BOOLEAN
    BY <1>7, Zenon DEF CatalogueRestarts
  <2> QED BY <1>7, <2>1 DEF CatalogueRestarts, CatalogueMishap
<1>8. CASE UNCHANGED catalogueVars
  BY <1>8 DEF catalogueVars
<1> QED BY <1>1, <1>2, <1>3, <1>4, <1>5, <1>6, <1>7, <1>8 DEF CatalogueNext

(* Once every refresh has saved, a restart shows what is shown now, unless  *)
(* refreshes crossed or the last write failed: the store under the lock and *)
(* the write after it do not drift apart (RestartShowsTheSame).             *)
THEOREM RestartsShowTheSame == CatalogueSpec => []RestartShowsTheSame
<1>1. CatalogueInv /\ [CatalogueNext]_catalogueVars => CatalogueInv'
  BY CatalogueNextInv
<1>2. CatalogueInv => RestartShowsTheSame
  BY DEF CatalogueInv
<1> QED BY CatalogueInitInv, <1>1, <1>2, PTL DEF CatalogueSpec

-----------------------------------------------------------------------------
(* Packages.  What an installation holds is a version and whole, and a      *)
(* directory that an uninstallation began on is not wanted.                 *)

Staged == \A a \in PkgAsker :
    pkgAsker[a].at \in {"staged", "swept", "moved"} => pkgAsker[a].version \in 1..Versions

PkgInv == PkgTypeOK /\ Staged /\ (wanted => here # Part) /\ PackageStaysInstalled

LEMMA PkgInitInv == PkgInit => PkgInv
<1> SUFFICES ASSUME PkgInit PROVE PkgInv
  OBVIOUS
<1> USE PkgAssumption DEF PkgInit, NoPkg
<1>1. PkgTypeOK
  <2>1. wanted \in BOOLEAN
    BY Zenon
  <2> QED BY <2>1 DEF PkgTypeOK, Part
<1>2. Staged /\ ~wanted
  BY DEF Staged
<1> QED BY <1>1, <1>2 DEF PkgInv, PackageStaysInstalled

LEMMA PkgNextInv == ASSUME PkgInv, [PkgNext]_pkgVars PROVE PkgInv'
<1> USE PkgAssumption DEF PkgInv, PkgTypeOK, Staged, PackageStaysInstalled, Part, PkgAt, NoPkg,
      dirVars
<1>1. CASE Offers
  BY <1>1 DEF Offers
<1>2. CASE PkgRestarts
  BY <1>2 DEF PkgRestarts, PkgMishap
<1>3. ASSUME NEW a \in PkgAsker, StagesPkg(a) PROVE PkgInv'
  BY <1>3 DEF StagesPkg
<1>4. ASSUME NEW a \in PkgAsker, SweepsOld(a) PROVE PkgInv'
  BY <1>4 DEF SweepsOld, PkgGoes
<1>5. ASSUME NEW a \in PkgAsker, MovesAside(a) PROVE PkgInv'
  BY <1>5 DEF MovesAside, PkgGoes, PkgEnds
<1>6. ASSUME NEW a \in PkgAsker, MovesIn(a) PROVE PkgInv'
  <2>1. wanted' \in BOOLEAN
    BY <1>6, Zenon DEF MovesIn
  <2> QED BY <1>6, <2>1 DEF MovesIn, PkgGoes, PkgEnds
<1>7. ASSUME NEW a \in PkgAsker, CleansOld(a) PROVE PkgInv'
  BY <1>7 DEF CleansOld, PkgEnds
<1>8. ASSUME NEW a \in PkgAsker, RemovesFiles(a) PROVE PkgInv'
  <2>1. wanted' \in BOOLEAN /\ ~wanted'
    BY <1>8, Zenon DEF RemovesFiles
  <2> QED BY <1>8, <2>1 DEF RemovesFiles, PkgGoes
<1>9. ASSUME NEW a \in PkgAsker, RemovesDir(a) PROVE PkgInv'
  BY <1>9 DEF RemovesDir, PkgEnds
<1>10. ASSUME NEW a \in PkgAsker, PkgBreaks(a) PROVE PkgInv'
  BY <1>10 DEF PkgBreaks, PkgMishap, PkgEnds
<1>11. CASE UNCHANGED pkgVars
  BY <1>11 DEF pkgVars
<1> QED
  BY <1>1, <1>2, <1>3, <1>4, <1>5, <1>6, <1>7, <1>8, <1>9, <1>10, <1>11 DEF PkgNext

(* Installations that overlap leave a whole version in place until somebody *)
(* uninstalls the package, but for the time between two renames, or a       *)
(* failure there (PackageStaysInstalled).                                   *)
THEOREM PackagesStayInstalled == PkgSpec => []PackageStaysInstalled
<1>1. PkgInv /\ [PkgNext]_pkgVars => PkgInv'
  BY PkgNextInv
<1>2. PkgInv => PackageStaysInstalled
  BY DEF PkgInv
<1> QED BY PkgInitInv, <1>1, <1>2, PTL DEF PkgSpec

-----------------------------------------------------------------------------
(* CodeInstall.  Whoever makes the secret is alone at it: the file is there *)
(* and empty until it is written.                                           *)

OneWriter == \A r \in Proxy : proxy[r].at = "writes" =>
    /\ secret.exists /\ secret.by = {}
    /\ \A s \in Proxy : proxy[s].at = "writes" => s = r

SecretInv ==
    /\ CodeInstallTypeOK /\ OneWriter /\ SecretIsOne
    /\ secret.by # {} \/ spoilt => secret.exists

LEMMA SecretInitInv == CodeInstallInit => SecretInv
<1> SUFFICES ASSUME CodeInstallInit PROVE SecretInv
  OBVIOUS
<1> USE CodeInstallAssumption DEF CodeInstallInit, NoProxy
<1>1. spoilt \in BOOLEAN /\ ~spoilt
  OBVIOUS
<1>2. installer \in [Box -> [installing : BOOLEAN, failed : BOOLEAN,
                            at : {"none", "look", "start", "image", "create", "extension"}]]
  OBVIOUS
<1>3. CodeInstallTypeOK
  BY <1>1, <1>2 DEF CodeInstallTypeOK
<1> QED BY <1>1, <1>3 DEF SecretInv, OneWriter, SecretIsOne

(* An installer has nothing to do with the secret. *)
LEMMA BoxStep ==
  ASSUME SecretInv, UNCHANGED secretVars,
         installer' \in [Box -> [installing : BOOLEAN, failed : BOOLEAN,
                     at : {"none", "look", "start", "image", "create", "extension"}]],
         codeBox' \in [Box -> {"none", "created", "running", "stopped"}]
  PROVE  SecretInv'
BY DEF SecretInv, CodeInstallTypeOK, OneWriter, SecretIsOne, secretVars

LEMMA InstallerMoves ==
  ASSUME CodeInstallTypeOK, NEW b \in Box, NEW from,
         NEW to \in {"none", "look", "start", "image", "create", "extension"}, NEW failed \in BOOLEAN,
         InstallerGoes(b, from, to) \/ InstallerEnds(b, failed)
  PROVE  /\ installer' \in [Box -> [installing : BOOLEAN, failed : BOOLEAN,
                     at : {"none", "look", "start", "image", "create", "extension"}]]
         /\ UNCHANGED secretVars
<1>1. CASE InstallerGoes(b, from, to)
  BY <1>1 DEF CodeInstallTypeOK, InstallerGoes
<1>2. CASE InstallerEnds(b, failed)
  <2> DEFINE ended == [installing |-> FALSE, failed |-> failed, at |-> "none"]
  <2>1. ended \in [installing : BOOLEAN, failed : BOOLEAN,
                   at : {"none", "look", "start", "image", "create", "extension"}]
    OBVIOUS
  <2>2. installer' = [installer EXCEPT ![b] = ended] /\ UNCHANGED secretVars
    BY <1>2 DEF InstallerEnds
  <2> HIDE DEF ended
  <2> QED BY <2>1, <2>2 DEF CodeInstallTypeOK
<1> QED BY <1>1, <1>2

LEMMA SecretNextInv == ASSUME SecretInv, [CodeInstallNext]_installVars PROVE SecretInv'
<1> USE CodeInstallAssumption DEF CodeInstallTypeOK
<1> CodeInstallTypeOK
  BY DEF SecretInv
<1>1. ASSUME NEW b \in Box, BeginsInstall(b) PROVE SecretInv'
  BY <1>1, BoxStep DEF BeginsInstall
<1>2. ASSUME NEW b \in Box, LooksForBox(b) PROVE SecretInv'
  BY <1>2, BoxStep, InstallerMoves DEF LooksForBox
<1>3. ASSUME NEW b \in Box, MakesImage(b) PROVE SecretInv'
  BY <1>3, BoxStep DEF MakesImage, InstallerGoes
<1>4. ASSUME NEW b \in Box, CreatesBox(b) PROVE SecretInv'
  BY <1>4, BoxStep DEF CreatesBox, InstallerGoes
<1>5. ASSUME NEW b \in Box, StartsBox(b) PROVE SecretInv'
  <2>1. codeBox' \in [Box -> {"none", "created", "running", "stopped"}]
    BY <1>5 DEF StartsBox
  <2>2. InstallerGoes(b, "start", "extension") \/ InstallerEnds(b, FALSE)
    BY <1>5 DEF StartsBox
  <2> QED BY <2>1, <2>2, BoxStep, InstallerMoves
<1>6. ASSUME NEW b \in Box, InstallFails(b) PROVE SecretInv'
  BY <1>6, BoxStep DEF InstallFails, InstallerEnds
<1>7. ASSUME NEW b \in Box, BoxChanges(b) PROVE SecretInv'
  BY <1>7, BoxStep DEF BoxChanges
<1>8. CASE AddsExtension
  BY <1>8, BoxStep DEF AddsExtension, InstallerEnds, Box
<1> USE DEF SecretInv, OneWriter, SecretIsOne
<1>9. ASSUME NEW r \in Proxy, FindsSecret(r) PROVE SecretInv'
  BY <1>9 DEF FindsSecret
<1>10. ASSUME NEW r \in Proxy, OpensSecret(r) PROVE SecretInv'
  <2>1. CASE ~secret.exists
    <3>1. secret' = [exists |-> TRUE, by |-> {}] /\ UNCHANGED <<installer, codeBox, spoilt, hubRestarts>>
      BY <1>10, <2>1 DEF OpensSecret
    <3>2. proxy' = [proxy EXCEPT ![r].at = "writes"]
      BY <1>10, <2>1 DEF OpensSecret
    <3>3. secret' \in [exists : BOOLEAN, by : SUBSET Proxy] /\ secret'.exists /\ secret'.by = {}
      BY <3>1
    <3>4. \A s \in Proxy : proxy[s].at # "writes" /\ proxy[s].read = {}
      BY <2>1
    <3>5. proxy' \in [Proxy -> [at : {"idle", "missing", "writes", "reads", "sends"},
                               read : SUBSET Proxy]]
      BY <3>2
    <3>6. \A s \in Proxy : proxy'[s].read = {} /\ (proxy'[s].at = "writes" => s = r)
      BY <3>2, <3>4
    <3>7. proxy'[r].at = "writes"
      BY <3>2
    <3>8. ~spoilt' /\ spoilt' \in BOOLEAN
      BY <2>1, <3>1
    <3> QED BY <3>1, <3>3, <3>5, <3>6, <3>7, <3>8
  <2>2. CASE secret.exists
    <3>1. UNCHANGED <<installer, codeBox, secret, spoilt, hubRestarts>>
      BY <1>10, <2>2 DEF OpensSecret
    <3>2. proxy' = [proxy EXCEPT ![r].at = "reads"] /\ proxy[r].at = "missing"
      BY <1>10, <2>2 DEF OpensSecret
    <3>3. proxy' \in [Proxy -> [at : {"idle", "missing", "writes", "reads", "sends"},
                               read : SUBSET Proxy]]
      BY <3>2
    <3>4. \A s \in Proxy : /\ proxy'[s].read = proxy[s].read
                           /\ proxy'[s].at = "writes" <=> proxy[s].at = "writes"
      BY <3>2
    <3> QED BY <3>1, <3>3, <3>4
  <2> QED BY <2>1, <2>2
<1>11. ASSUME NEW r \in Proxy, WritesSecret(r) PROVE SecretInv'
  BY <1>11 DEF WritesSecret
<1>f. ASSUME NEW r \in Proxy, SecretWriteFails(r) PROVE SecretInv'
  <2>1. proxy' \in [Proxy -> [at : {"idle", "missing", "writes", "reads", "sends"},
                              read : SUBSET Proxy]]
    BY <1>f DEF SecretWriteFails, NoProxy
  <2>2. \A s \in Proxy : proxy'[s].at # "writes" /\ proxy'[s].read = {}
    <3>1. \A s \in Proxy : proxy[s].read = {} /\ (proxy[s].at = "writes" => s = r)
      BY <1>f DEF SecretWriteFails
    <3> QED BY <1>f, <3>1 DEF SecretWriteFails, NoProxy
  <2>3. UNCHANGED <<installer, codeBox, hubRestarts>> /\ secret.exists /\ secret.by = {}
    BY <1>f DEF SecretWriteFails
  <2>4. CASE UNCHANGED secret /\ spoilt' = TRUE
    BY <2>1, <2>2, <2>3, <2>4
  <2>5. CASE secret' = [secret EXCEPT !.by = {r}] /\ UNCHANGED spoilt
    <3>1. ~spoilt
      BY <1>f DEF SecretWriteFails
    <3>2. secret' \in [exists : BOOLEAN, by : SUBSET Proxy] /\ secret'.exists /\ secret'.by = {r}
      BY <2>3, <2>5
    <3>3. ~spoilt' /\ spoilt' \in BOOLEAN
      BY <2>5, <3>1
    <3> QED BY <2>1, <2>2, <2>3, <3>2, <3>3
  <2> QED BY <1>f, <2>4, <2>5 DEF SecretWriteFails
<1>12. ASSUME NEW r \in Proxy, ReadsSecret(r) PROVE SecretInv'
  BY <1>12 DEF ReadsSecret
<1>13. ASSUME NEW r \in Proxy, SendsProxy(r) PROVE SecretInv'
  BY <1>13 DEF SendsProxy, NoProxy
<1>14. CASE CodeHubRestarts
  BY <1>14 DEF CodeHubRestarts, NoProxy
<1>15. CASE UNCHANGED installVars
  BY <1>15 DEF installVars
<1> QED
  BY <1>1, <1>2, <1>3, <1>4, <1>5, <1>6, <1>7, <1>8, <1>9, <1>10, <1>11, <1>f, <1>12, <1>13,
    <1>14, <1>15 DEF CodeInstallNext

(* All requests that have read a secret read the one that the worker finds, *)
(* however many of them found none at once, and whatever write fails; an      *)
(* empty file is being written or was spoilt (SecretIsOne).                  *)
THEOREM OneSecret == CodeInstallSpec => []SecretIsOne
<1>1. SecretInv /\ [CodeInstallNext]_installVars => SecretInv'
  BY SecretNextInv
<1>2. SecretInv => SecretIsOne
  BY DEF SecretInv
<1> QED BY SecretInitInv, <1>1, <1>2, PTL DEF CodeInstallSpec

-----------------------------------------------------------------------------
(* PasswordReset.  The codes mailed until a reset ended stay used.          *)

CodesEnded ==
    /\ over \in Nat /\ over <= Len(challenges)
    /\ \A r \in 1..over : challenges[r].used

ResetInv == ResetTypeOK /\ CodesEnded

LEMMA ResetInitInv == ResetInit => ResetInv
BY ResetAssumption DEF ResetInit, ResetInv, ResetTypeOK, CodesEnded, NoAsk, Challenge

(* A count or a token leaves a row what it is, and used if it was. *)
LEMMA CountedRow ==
  ASSUME NEW c \in Challenge
  PROVE  [c EXCEPT !.attempts = @ + 1] \in Challenge /\ [c EXCEPT !.attempts = @ + 1].used = c.used
BY DEF Challenge

LEMMA VerifiedRow ==
  ASSUME NEW c \in Challenge, c.token < MaxTokens
  PROVE  [c EXCEPT !.token = @ + 1] \in Challenge /\ [c EXCEPT !.token = @ + 1].used = c.used
BY ResetAssumption DEF Challenge

LEMMA ResetNextInv == ASSUME ResetInv, [ResetNext]_resetVars PROVE ResetInv'
<1> USE ResetAssumption DEF ResetInv, ResetTypeOK, CodesEnded, AskerAt, AskerDone, AskerGoes, NoAsk,
      Rows
<1>1. CASE Tick
  BY <1>1 DEF Tick
<1>2. ASSUME NEW a \in Asker, AskReads(a) PROVE ResetInv'
  BY <1>2 DEF AskReads
<1>3. ASSUME NEW a \in Asker, AskInserts(a) PROVE ResetInv'
  BY <1>3 DEF AskInserts, Challenge
<1>4. ASSUME NEW a \in Asker, NEW r \in Rows, AnswerWrong(a, r) PROVE ResetInv'
  BY <1>4 DEF AnswerWrong
<1>5. ASSUME NEW a \in Asker, NEW r \in Rows, AnswerRight(a, r) PROVE ResetInv'
  BY <1>5 DEF AnswerRight
<1>6. ASSUME NEW a \in Asker, NEW r \in Rows, SetReads(a, r) PROVE ResetInv'
  BY <1>6 DEF SetReads
<1>7. ASSUME NEW a \in Asker, AnswerCounts(a) PROVE ResetInv'
  <2> DEFINE counted == [challenges[asker[a].row] EXCEPT !.attempts = @ + 1]
  <2>1. asker[a].row \in 1..Len(challenges)
    BY <1>7, LenProperties DEF AnswerCounts
  <2>5. challenges[asker[a].row] \in Challenge
    BY <2>1, ElementOfSeq
  <2>2. counted \in Challenge /\ counted.used = challenges[asker[a].row].used
    BY <2>5, CountedRow
  <2>3. challenges' = [challenges EXCEPT ![asker[a].row] = counted]
    BY <1>7 DEF AnswerCounts
  <2> HIDE DEF counted
  <2> HIDE DEF ResetTypeOK
  <2>6. challenges \in Seq(Challenge)
    BY DEF ResetTypeOK
  <2>4. /\ challenges' \in Seq(Challenge) /\ Len(challenges') = Len(challenges)
        /\ \A r \in 1..Len(challenges) : challenges'[r].used = challenges[r].used
    BY <2>1, <2>2, <2>3, <2>6, ExceptSeq
  <2> USE DEF ResetTypeOK
  <2> QED BY <1>7, <2>4, LenProperties DEF AnswerCounts
<1>8. ASSUME NEW a \in Asker, AnswerVerifies(a) PROVE ResetInv'
  <2> DEFINE verified == [challenges[asker[a].row] EXCEPT !.token = @ + 1]
  <2>1. asker[a].row \in 1..Len(challenges)
    BY <1>8, LenProperties DEF AnswerVerifies
  <2>5. challenges[asker[a].row] \in Challenge
    BY <2>1, ElementOfSeq
  <2>2. verified \in Challenge /\ verified.used = challenges[asker[a].row].used
    BY <1>8, <2>5, VerifiedRow DEF AnswerVerifies
  <2>3. challenges' = [challenges EXCEPT ![asker[a].row] = verified]
    BY <1>8 DEF AnswerVerifies
  <2> HIDE DEF verified
  <2> HIDE DEF ResetTypeOK
  <2>6. challenges \in Seq(Challenge)
    BY DEF ResetTypeOK
  <2>4. /\ challenges' \in Seq(Challenge) /\ Len(challenges') = Len(challenges)
        /\ \A r \in 1..Len(challenges) : challenges'[r].used = challenges[r].used
    BY <2>1, <2>2, <2>3, <2>6, ExceptSeq
  <2> USE DEF ResetTypeOK
  <2> QED BY <1>8, <2>4, LenProperties DEF AnswerVerifies
<1>9. ASSUME NEW a \in Asker, SetChanges(a) PROVE ResetInv'
  <2>1. CASE AskerGoes(a, "mark", asker[a].row)
    BY <1>9, <2>1 DEF SetChanges
  <2>2. CASE AskerDone(a)
    BY <1>9, <2>2 DEF SetChanges
  <2> QED BY <1>9, <2>1, <2>2 DEF SetChanges
<1>10. ASSUME NEW a \in Asker, SetMarks(a) PROVE ResetInv'
  <2>1. challenges' = [r \in Rows |-> [challenges[r] EXCEPT !.used = TRUE]]
    BY <1>10 DEF SetMarks
  <2>2. Rows = 1..Len(challenges) /\ Len(challenges) \in Nat
    OBVIOUS
  <2>3. ASSUME NEW r \in Rows PROVE challenges'[r] \in Challenge /\ challenges'[r].used
    <3>1. challenges[r] \in Challenge
      BY <2>2, ElementOfSeq
    <3> QED BY <2>1, <3>1 DEF Challenge
  <2>4. challenges' \in Seq(Challenge) /\ Len(challenges') = Len(challenges)
    <3>1. challenges' \in [1..Len(challenges) -> Challenge]
      BY <2>1, <2>2, <2>3
    <3>2. challenges' \in Seq(Challenge)
      BY <2>2, <3>1, SeqDef
    <3> QED BY <2>2, <3>1, <3>2, LenProperties
  <2> QED BY <1>10, <2>2, <2>3, <2>4, LenProperties DEF SetMarks
<1>11. CASE UNCHANGED resetVars
  BY <1>11 DEF resetVars
<1> QED
  BY <1>1, <1>2, <1>3, <1>4, <1>5, <1>6, <1>7, <1>8, <1>9, <1>10, <1>11 DEF ResetNext

(* A reset begins only from a code that was mailed after the last one that  *)
(* ended, whatever requests overlap (ResetEndsCodes).                       *)
THEOREM ResetsEndCodes == ResetSpec => ResetEndsCodes
<1> DEFINE BeginsLater == \A a \in Asker : AskerAt(a, "idle") /\ asker'[a].at = "change"
                                         => asker'[a].row > over
<1>1. ResetInv /\ [ResetNext]_resetVars => ResetInv'
  BY ResetNextInv
<1>2. ASSUME ResetInv, [ResetNext]_resetVars PROVE [BeginsLater]_resetVars
  <2> SUFFICES ASSUME NEW a \in Asker, AskerAt(a, "idle"), asker'[a].at = "change"
               PROVE  asker'[a].row > over
    OBVIOUS
  <2> USE DEF AskerAt
  <2>1. asker \in [Asker -> [at : {"idle", "insert", "count", "verify", "change", "mark"}, row : Nat]]
    BY <1>2 DEF ResetInv, ResetTypeOK
  <2>2. ASSUME NEW b \in Asker, NEW at, NEW row, AskerGoes(b, at, row), at # "change" PROVE FALSE
    BY <2>1, <2>2 DEF AskerGoes
  <2>3. ASSUME NEW b \in Asker, AskerDone(b) PROVE FALSE
    BY <2>1, <2>3 DEF AskerDone, NoAsk
  <2>4. ASSUME NEW b \in Asker, AskReads(b) \/ AskInserts(b) \/ AnswerCounts(b)
                 \/ AnswerVerifies(b) \/ SetChanges(b) \/ SetMarks(b)
        PROVE  FALSE
    BY <2>2, <2>3, <2>4 DEF AskReads, AskInserts, AnswerCounts, AnswerVerifies, SetChanges, SetMarks
  <2>5. ASSUME NEW b \in Asker, NEW r, AnswerWrong(b, r) \/ AnswerRight(b, r) PROVE FALSE
    BY <2>2, <2>5 DEF AnswerWrong, AnswerRight
  <2>6. ~Tick /\ ~UNCHANGED resetVars
    BY DEF Tick, resetVars
  <2>7. PICK b \in Asker, r \in Rows : SetReads(b, r)
    BY <1>2, <2>4, <2>5, <2>6 DEF ResetNext
  <2>8. b = a
    BY <2>1, <2>7 DEF SetReads, AskerGoes
  <2>9. asker'[a].row = r /\ ~challenges[r].used
    BY <2>1, <2>7, <2>8 DEF SetReads, AskerGoes
  <2>10. r \in 1..Len(challenges)
    BY <1>2, <2>7, LenProperties DEF ResetInv, ResetTypeOK, Rows
  <2> QED BY <1>2, <2>9, <2>10 DEF ResetInv, CodesEnded
<1> QED BY ResetInitInv, <1>1, <1>2, PTL DEF ResetSpec, ResetEndsCodes

-----------------------------------------------------------------------------
(* CloudflareAddress.  Whoever is in route has the lock, and what it read   *)
(* is what the tunnel has, unless somebody else changed it since.           *)

RouteLocked == \A e \in Editor :
    /\ editor[e].at \in {"locked", "writes"} => dbLock = {e}
    /\ editor[e].at = "writes" /\ e \notin foreign => editor[e].rules = {rules}

CloudInv == CloudTypeOK /\ RouteLocked

LEMMA CloudInitInv == CloudInit => CloudInv
BY CloudAssumption DEF CloudInit, CloudInv, CloudTypeOK, RouteLocked, NoEdit

(* A request's record after a step of its own; nobody else's changes. *)
Edit == [at : {"idle", "shown", "checked", "made", "locked", "writes", "undoes"},
         name : SUBSET Name, version : 0..MaxTunnel,
         rules : {{}} \cup {{r} : r \in [Name -> SUBSET Owner]}, creates : BOOLEAN]

Others(e) == /\ editor' \in [Editor -> Edit]
             /\ \A d \in Editor \ {e} : editor'[d] = editor[d]

LEMMA GoesStep ==
  ASSUME CloudTypeOK, NEW e \in Editor, EditorGoes(e, "checked") \/ EditorGoes(e, "made")
           \/ EditorGoes(e, "locked") \/ EditorGoes(e, "undoes")
  PROVE  Others(e) /\ editor'[e].at \in {"checked", "made", "locked", "undoes"}
<1>1. editor \in [Editor -> Edit]
  BY DEF CloudTypeOK, Edit
<1>2. PICK step \in {"checked", "made", "locked", "undoes"} : EditorGoes(e, step)
  OBVIOUS
<1>3. [editor[e] EXCEPT !.at = step] \in Edit /\ [editor[e] EXCEPT !.at = step].at = step
  BY <1>1 DEF Edit
<1> QED BY <1>1, <1>2, <1>3 DEF EditorGoes, Others

LEMMA EndsStep ==
  ASSUME CloudTypeOK, NEW e \in Editor, EditEnds(e)
  PROVE  Others(e) /\ editor'[e].at = "idle"
<1>1. NoEdit \in Edit /\ NoEdit.at = "idle"
  BY CloudAssumption DEF NoEdit, Edit
<1>2. editor \in [Editor -> Edit]
  BY DEF CloudTypeOK, Edit
<1> QED BY <1>1, <1>2 DEF EditEnds, Others

(* Outside route, a request changes no rule, and it may give the lock back. *)
LEMMA OutsideStep ==
  ASSUME CloudInv, NEW e \in Editor, Others(e), editor'[e].at \notin {"locked", "writes"},
         dns' \in [Name -> SUBSET Owner], cloudMishaps' \in 0..CloudMishaps,
         UNCHANGED <<rules, tunnel, foreign>>, dbLock' = dbLock \/ dbLock' = dbLock \ {e}
  PROVE  CloudInv'
<1> USE DEF CloudInv, RouteLocked
<1>1. CloudTypeOK'
  BY DEF CloudTypeOK, Others, Edit
<1> QED BY <1>1 DEF Others

(* A write of the configuration ends the hub's one route, and leaves every  *)
(* other name's rule as it was, but for changes made elsewhere.             *)
LEMMA PutsStep ==
  ASSUME CloudInv, NEW e \in Editor, NEW n \in Name, EditorAt(e, n, "writes"), Puts(e, n)
  PROVE  /\ rules' \in [Name -> SUBSET Owner] /\ tunnel' \in 0..MaxTunnel
         /\ e \notin foreign => \A m \in Name \ {n} : rules'[m] = rules[m]
<1>1. editor[e].rules \in {{}} \cup {{r} : r \in [Name -> SUBSET Owner]}
  BY DEF CloudInv, CloudTypeOK
<1>2. PICK read \in editor[e].rules, rule \in {{e}, {}} : rules' = [read EXCEPT ![n] = rule]
  BY DEF Puts
<1>3. read \in [Name -> SUBSET Owner] /\ rule \in SUBSET Owner
  BY <1>1 DEF Owner
<1>4. e \notin foreign => read = rules
  BY DEF CloudInv, RouteLocked, EditorAt
<1>5. tunnel' \in 0..MaxTunnel
  BY CloudAssumption DEF CloudInv, CloudTypeOK, Puts
<1> QED BY <1>2, <1>3, <1>4, <1>5

LEMMA AfterPut ==
  ASSUME CloudInv, NEW e \in Editor, editor[e].at = "writes", Others(e),
         editor'[e].at \in {"idle", "undoes"}, rules' \in [Name -> SUBSET Owner],
         tunnel' \in 0..MaxTunnel, cloudMishaps' \in 0..CloudMishaps,
         dbLock' = dbLock \ {e}, UNCHANGED <<dns, foreign>>
  PROVE  CloudInv'
<1>1. CloudTypeOK'
  BY DEF CloudInv, CloudTypeOK, Others, Edit
<1>2. \A d \in Editor \ {e} : editor'[d].at \notin {"locked", "writes"}
  BY DEF CloudInv, RouteLocked, Others
<1> QED BY <1>1, <1>2 DEF CloudInv, RouteLocked

LEMMA CloudNextInv == ASSUME CloudInv, [CloudNext]_cloudVars PROVE CloudInv'
<1>0. /\ CloudTypeOK /\ dns \in [Name -> SUBSET Owner] /\ rules \in [Name -> SUBSET Owner]
      /\ editor \in [Editor -> Edit] /\ tunnel \in 0..MaxTunnel
      /\ cloudMishaps \in 0..CloudMishaps
  BY DEF CloudInv, CloudTypeOK, Edit
<1>a. CloudMishap => cloudMishaps' \in 0..CloudMishaps
  BY <1>0, CloudAssumption DEF CloudMishap
<1>1. ASSUME NEW e \in Editor, NEW n \in Name, NEW creates \in BOOLEAN, ShowsTunnel(e, n, creates)
      PROVE  CloudInv'
  <2> DEFINE new == [at |-> "shown", name |-> {n}, version |-> tunnel, rules |-> {}, creates |-> creates]
  <2>1. new \in Edit /\ new.at = "shown"
    BY <1>0 DEF Edit
  <2>2. editor' = [editor EXCEPT ![e] = new] /\ UNCHANGED <<dns, rules, tunnel, dbLock, foreign, cloudMishaps>>
    BY <1>1 DEF ShowsTunnel
  <2> HIDE DEF new
  <2>3. Others(e) /\ editor'[e].at = "shown"
    BY <1>0, <2>1, <2>2 DEF Others
  <2> QED BY <1>0, <2>2, <2>3, OutsideStep
<1>2. ASSUME NEW e \in Editor, NEW n \in Name, ChecksAddress(e, n) PROVE CloudInv'
  <2>1. EditorGoes(e, "checked") \/ EditEnds(e)
    BY <1>2 DEF ChecksAddress
  <2>2. Others(e) /\ editor'[e].at \notin {"locked", "writes"}
    <3>1. CASE EditorGoes(e, "checked")
      BY <1>0, <3>1, GoesStep DEF EditorGoes, Edit
    <3>2. CASE EditEnds(e)
      BY <1>0, <3>2, EndsStep
    <3> QED BY <2>1, <3>1, <3>2
  <2> QED BY <1>0, <1>2, <2>2, OutsideStep DEF ChecksAddress
<1>3. ASSUME NEW e \in Editor, NEW n \in Name, MakesRecord(e, n) PROVE CloudInv'
  <2>1. EditorGoes(e, "made") \/ EditEnds(e)
    BY <1>3 DEF MakesRecord
  <2>2. dns' \in [Name -> SUBSET Owner] /\ cloudMishaps' \in 0..CloudMishaps
    BY <1>0, <1>a, <1>3 DEF MakesRecord, Owner
  <2>3. UNCHANGED <<rules, tunnel, dbLock, foreign>>
    BY <1>3 DEF MakesRecord
  <2>4. Others(e) /\ editor'[e].at \notin {"locked", "writes"}
    <3>1. CASE EditorGoes(e, "made")
      BY <1>0, <3>1, GoesStep DEF EditorGoes, Edit
    <3>2. CASE EditEnds(e)
      BY <1>0, <3>2, EndsStep
    <3> QED BY <2>1, <3>1, <3>2
  <2> QED BY <2>2, <2>3, <2>4, OutsideStep
<1>4. ASSUME NEW e \in Editor, NEW n \in Name, Locks(e, n) PROVE CloudInv'
  <2>1. Others(e) /\ editor'[e].at = "locked"
    BY <1>0, <1>4, GoesStep DEF Locks, EditorGoes, Edit
  <2>2. CloudTypeOK'
    BY <1>0, <1>4, <2>1 DEF Locks, Others, CloudTypeOK, Edit
  <2> QED BY <1>4, <2>1, <2>2 DEF Locks, CloudInv, RouteLocked, Others
<1>5. ASSUME NEW e \in Editor, NEW n \in Name, LockTimesOut(e, n) PROVE CloudInv'
  BY <1>0, <1>a, <1>5, EndsStep, OutsideStep DEF LockTimesOut
<1>6. ASSUME NEW e \in Editor, NEW n \in Name, ReadsRules(e, n) PROVE CloudInv'
  <2>1. CASE tunnel = editor[e].version
    <3>1. editor' = [editor EXCEPT ![e].at = "writes", ![e].rules = {rules}]
      BY <1>6, <2>1 DEF ReadsRules
    <3>2. Others(e) /\ editor'[e].rules = {rules}
      BY <1>0, <3>1 DEF Others, Edit
    <3>3. foreign' = foreign \ {e} /\ UNCHANGED <<dns, rules, tunnel, dbLock, cloudMishaps>>
      BY <1>6, <2>1 DEF ReadsRules
    <3>4. CloudTypeOK'
      BY <1>0, <3>2, <3>3 DEF Others, CloudTypeOK, Edit
    <3>5. dbLock = {e}
      BY <1>6 DEF ReadsRules, EditorAt, CloudInv, RouteLocked
    <3> QED BY <3>2, <3>3, <3>4, <3>5 DEF CloudInv, RouteLocked, Others
  <2>2. CASE tunnel # editor[e].version
    <3>1. Others(e) /\ editor'[e].at \in {"idle", "checked", "made", "locked", "undoes"}
      BY <1>0, <1>6, <2>2, GoesStep, EndsStep DEF ReadsRules, RuleFails
    <3>2. editor'[e].at \in {"idle", "undoes"}
      BY <1>0, <1>6, <2>2, EndsStep DEF ReadsRules, RuleFails, EditorGoes, Edit
    <3>3. /\ foreign' = foreign \ {e} /\ dbLock' = dbLock \ {e}
          /\ UNCHANGED <<dns, rules, tunnel, cloudMishaps>>
      BY <1>6, <2>2 DEF ReadsRules, RuleFails
    <3>4. CloudTypeOK'
      BY <1>0, <3>1, <3>3 DEF Others, CloudTypeOK, Edit
    <3>5. dbLock = {e}
      BY <1>6 DEF ReadsRules, EditorAt, CloudInv, RouteLocked
    <3> QED BY <3>1, <3>2, <3>3, <3>4, <3>5 DEF CloudInv, RouteLocked, Others
  <2> QED BY <2>1, <2>2
<1>7. ASSUME NEW e \in Editor, NEW n \in Name, WritesRules(e, n) PROVE CloudInv'
  <2>1. Others(e) /\ editor'[e].at = "idle"
    BY <1>0, <1>7, EndsStep DEF WritesRules
  <2> QED BY <1>0, <1>7, <2>1, PutsStep, AfterPut DEF WritesRules, EditorAt
<1>8. ASSUME NEW e \in Editor, NEW n \in Name, WriteOfRulesFails(e, n) PROVE CloudInv'
  <2>1. Others(e)
    BY <1>0, <1>8, GoesStep, EndsStep DEF WriteOfRulesFails, RuleFails
  <2>2. editor'[e].at \in {"idle", "undoes"}
    BY <1>0, <1>8, EndsStep DEF WriteOfRulesFails, RuleFails, EditorGoes, Edit
  <2>3. rules' \in [Name -> SUBSET Owner] /\ tunnel' \in 0..MaxTunnel
    BY <1>0, <1>8, PutsStep DEF WriteOfRulesFails
  <2> QED BY <1>a, <1>8, <2>1, <2>2, <2>3, AfterPut DEF WriteOfRulesFails, RuleFails, EditorAt
<1>9. ASSUME NEW e \in Editor, NEW n \in Name, UndoesRecord(e, n) PROVE CloudInv'
  <2>1. dns' \in [Name -> SUBSET Owner] /\ cloudMishaps' \in 0..CloudMishaps
    BY <1>0, <1>a, <1>9 DEF UndoesRecord
  <2> QED BY <1>0, <1>9, <2>1, EndsStep, OutsideStep DEF UndoesRecord
<1>10. ASSUME NEW n \in Name, ChangesRecord(n) PROVE CloudInv'
  BY <1>10 DEF ChangesRecord, CloudInv, CloudTypeOK, RouteLocked, Owner
<1>11. ASSUME NEW n \in Name, ChangesRule(n) PROVE CloudInv'
  BY <1>11, CloudAssumption DEF ChangesRule, CloudInv, CloudTypeOK, RouteLocked, Owner
<1>12. CASE UNCHANGED cloudVars
  BY <1>12 DEF cloudVars, CloudInv, CloudTypeOK, RouteLocked
<1> QED
  BY <1>1, <1>2, <1>3, <1>4, <1>5, <1>6, <1>7, <1>8, <1>9, <1>10, <1>11, <1>12 DEF CloudNext

(* What a request of the hub writes to the tunnel leaves every rule but its *)
(* own as it was, unless somebody changed one elsewhere since it was read   *)
(* (NoRuleIsLost).                                                          *)
THEOREM RulesAreKept == CloudSpec => NoRuleIsLost
<1> DEFINE Keeps == \A e \in Editor, n \in Name :
        EditorAt(e, n, "writes") /\ rules' # rules /\ editor'[e].at # "writes" /\ e \notin foreign
            => \A m \in Name \ {n} : rules'[m] = rules[m]
<1>1. CloudInv /\ [CloudNext]_cloudVars => CloudInv'
  BY CloudNextInv
<1>2. ASSUME CloudInv, [CloudNext]_cloudVars PROVE [Keeps]_cloudVars
  <2> SUFFICES ASSUME NEW e \in Editor, NEW n \in Name, EditorAt(e, n, "writes"), rules' # rules,
                      editor'[e].at # "writes", e \notin foreign
               PROVE  \A m \in Name \ {n} : rules'[m] = rules[m]
    OBVIOUS
  <2>1. PICK d \in Editor, k \in Name : WritesRules(d, k) \/ WriteOfRulesFails(d, k)
    <3>1. \A k \in Name : ~ChangesRecord(k) /\ ~ChangesRule(k)
      BY DEF ChangesRecord, ChangesRule, EditorAt
    <3>2. \A d \in Editor, k \in Name :
             /\ ~ChecksAddress(d, k) /\ ~MakesRecord(d, k) /\ ~Locks(d, k) /\ ~LockTimesOut(d, k)
             /\ ~ReadsRules(d, k) /\ ~UndoesRecord(d, k)
             /\ \A creates \in BOOLEAN : ~ShowsTunnel(d, k, creates)
      BY DEF ChecksAddress, MakesRecord, Locks, LockTimesOut, ReadsRules, UndoesRecord, ShowsTunnel
    <3>3. ~UNCHANGED cloudVars
      BY DEF cloudVars
    <3> QED BY <1>2, <3>1, <3>2, <3>3 DEF CloudNext
  <2>2. EditorAt(d, k, "writes") /\ Puts(d, k)
    BY <2>1 DEF WritesRules, WriteOfRulesFails
  <2>3. d = e
    BY <1>2, <2>2 DEF EditorAt, CloudInv, RouteLocked
  <2>4. k = n
    BY <2>2, <2>3 DEF EditorAt
  <2> QED BY <1>2, <2>2, <2>3, <2>4, PutsStep
<1> QED BY CloudInitInv, <1>1, <1>2, PTL DEF CloudSpec, NoRuleIsLost
=============================================================================
