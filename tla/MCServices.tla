----------------------------- MODULE MCServices -----------------------------
(* Components of the hub that share no state, one at a time in one run.  A    *)
(* behaviour is one part's; the others keep one of their initial states.      *)
EXTENDS MCUpdateRun, Accounts, PasswordReset, Membership, AppKeys, GpuSetup, HostAgent,
        CodeWorker, CodeInstall, MediaGateway, Catalogues, Packages, CloudflareAddress, TLC

VARIABLE part

servicesVars == <<part, updateVars, accountVars, resetVars, memberVars, keysVars, gpuVars,
                  hostVars, codeVars, installVars, mediaVars, catalogueVars, pkgVars, cloudVars>>

Parts == {"updates", "accounts", "resets", "members", "keys", "gpu", "host", "code", "install",
          "media", "catalogues", "packages", "cloudflare"}

Plain == [exists : {TRUE}, role : {"user"}, password : {1}, version : {1}, must : {FALSE},
          email : {FALSE}, old : {FALSE}]

ServicesInit ==
    /\ part \in Parts
    /\ UpdateInit     /\ (part = "updates" \/ app = "plain")
    /\ AccountsInit   /\ (part = "accounts" \/ account \in Plain)
    /\ ResetInit
    /\ MembershipInit /\ (part = "members" \/ ~initialized)
    /\ KeysInit       /\ (part = "keys" \/ key.number = 0)
    /\ GpuInit        /\ (part = "gpu" \/ gpuHost.libs = "bound")
    /\ HostInit /\ CodeInit /\ CodeInstallInit /\ MediaInit
    /\ CatalogueInit  /\ (part = "catalogues" \/ catalogue = "apps")
    /\ PkgInit /\ CloudInit

Rest(p, theirs) == IF part = p THEN TRUE ELSE UNCHANGED theirs

Only(p) ==
    /\ part = p /\ UNCHANGED part
    /\ Rest("updates", updateVars) /\ Rest("accounts", accountVars) /\ Rest("resets", resetVars)
    /\ Rest("members", memberVars) /\ Rest("keys", keysVars) /\ Rest("gpu", gpuVars)
    /\ Rest("host", hostVars) /\ Rest("code", codeVars) /\ Rest("install", installVars)
    /\ Rest("media", mediaVars) /\ Rest("catalogues", catalogueVars)
    /\ Rest("packages", pkgVars) /\ Rest("cloudflare", cloudVars)

ServicesNext ==
    \/ Only("updates") /\ UpdateNext
    \/ Only("accounts") /\ AccountsNext
    \/ Only("resets") /\ ResetNext
    \/ Only("members") /\ MembershipNext
    \/ Only("keys") /\ KeysNext
    \/ Only("gpu") /\ GpuNext
    \/ Only("host") /\ HostNext
    \/ Only("code") /\ CodeNext
    \/ Only("install") /\ CodeInstallNext
    \/ Only("media") /\ MediaNext
    \/ Only("catalogues") /\ CatalogueNext
    \/ Only("packages") /\ PkgNext
    \/ Only("cloudflare") /\ CloudNext

ServicesSpec == ServicesInit /\ [][ServicesNext]_servicesVars

(* The instances share their requests and things, which no definition names.  *)
(* One exchange in all of them at once is cheaper than every permutation, and *)
(* halves each part.                                                        *)
Exchanges == {f @@ g @@ h : f \in Permutations(Visit), g \in Permutations(Project),
                            h \in Permutations(Person)}
Together  == [x \in Visit \cup Project \cup Person |->
                IF x = CHOOSE p \in Person : TRUE THEN x
                ELSE CHOOSE y \in Visit \cup Project \cup Person :
                       /\ y # x /\ y # CHOOSE p \in Person : TRUE
                       /\ \A S \in {Visit, Project, Person} : x \in S <=> y \in S]
Symmetry  == {e \in Exchanges : e = Together \/ \A x \in DOMAIN e : e[x] = x}
=============================================================================
