------------------------------ MODULE MCRetiredTools ------------------------------
(***************************************************************************)
(* The tools of retired/ around the stores, whose sources are tested and   *)
(* no longer distributed: an initial state chooses one part, the variables *)
(* of the others stay 0.                                                   *)
(***************************************************************************)
EXTENDS Entitlement, Installer, HostConsent, ClusterPlan, SecretStore, Discovery, TraceLog, ProtectAsset, SafeArchive, TLC

VARIABLE part

NoEntitlement ==
  client = 0 /\ vault = 0 /\ file = 0 /\ server = 0 /\ clock = 0 /\ keys = 0 /\ orders = 0 /\ harm = 0 /\ scars = 0

NoInstaller ==
  /\ shell = 0 /\ editions = 0 /\ edition = 0 /\ expired = 0 /\ cached = 0 /\ stock = 0 /\ chosen = 0 /\ temps = 0 /\ logged = 0 /\ unlogged = 0
  /\ calls = 0 /\ mishaps = 0

NoConsent ==
  /\ asker = 0 /\ consent = 0 /\ aside = 0 /\ drafts = 0 /\ workspace = 0 /\ allowed = 0 /\ reported = 0 /\ unsaid = 0 /\ asks = 0 /\ slips = 0
  /\ wounds = 0

NoClusters ==
  /\ cluster = 0 /\ task = 0 /\ phase = 0 /\ plan = 0 /\ checks = 0 /\ trace = 0 /\ legacy = 0 /\ files = 0

NoSecrets ==
  /\ host = 0 /\ usable = 0 /\ use = 0 /\ helper = 0 /\ secrets = 0 /\ possible = 0 /\ answer = 0 /\ uses = 0 /\ troubles = 0

NoDiscovery ==
  /\ shelf = 0 /\ active = 0 /\ asked = 0 /\ verdict = 0 /\ output = 0 /\ changes = 0

NoTraces ==
  /\ pages = 0 /\ today = 0 /\ scribe = 0 /\ recorded = 0 /\ erased = 0 /\ history = 0 /\ cuts = 0 /\ readings = 0

NoProtection ==
  /\ assets = 0 /\ writes = 0 /\ keeper = 0 /\ dir = 0 /\ codes = 0 /\ told = 0 /\ left = 0 /\ commands = 0 /\ misfortunes = 0

NoArchives ==
  /\ parcel = 0 /\ bench = 0 /\ tempThere = 0 /\ staging = 0 /\ target = 0 /\ foreign = 0 /\ stuck = 0 /\ hurt = 0

ToolsInit ==
  \/ part = "entitlement" /\ EntitlementInit /\ NoInstaller /\ NoConsent /\ NoClusters /\ NoSecrets /\ NoDiscovery /\ NoTraces /\ NoProtection /\ NoArchives
  \/ part = "installer" /\ NoEntitlement /\ InstallerInit /\ NoConsent /\ NoClusters /\ NoSecrets /\ NoDiscovery /\ NoTraces /\ NoProtection /\ NoArchives
  \/ part = "consent" /\ NoEntitlement /\ NoInstaller /\ ConsentInit /\ NoClusters /\ NoSecrets /\ NoDiscovery /\ NoTraces /\ NoProtection /\ NoArchives
  \/ part = "cluster" /\ NoEntitlement /\ NoInstaller /\ NoConsent /\ ClusterInit /\ NoSecrets /\ NoDiscovery /\ NoTraces /\ NoProtection /\ NoArchives
  \/ part = "secrets" /\ NoEntitlement /\ NoInstaller /\ NoConsent /\ NoClusters /\ SecretInit /\ NoDiscovery /\ NoTraces /\ NoProtection /\ NoArchives
  \/ part = "discovery" /\ NoEntitlement /\ NoInstaller /\ NoConsent /\ NoClusters /\ NoSecrets /\ DiscoveryInit /\ NoTraces /\ NoProtection /\ NoArchives
  \/ part = "traces" /\ NoEntitlement /\ NoInstaller /\ NoConsent /\ NoClusters /\ NoSecrets /\ NoDiscovery /\ TraceInit /\ NoProtection /\ NoArchives
  \/ part = "protection" /\ NoEntitlement /\ NoInstaller /\ NoConsent /\ NoClusters /\ NoSecrets /\ NoDiscovery /\ NoTraces /\ ProtectInit /\ NoArchives
  \/ part = "archives" /\ NoEntitlement /\ NoInstaller /\ NoConsent /\ NoClusters /\ NoSecrets /\ NoDiscovery /\ NoTraces /\ NoProtection /\ ArchiveInit

toolVars == <<entitlementVars, installerVars, consentVars, clusterVars, secretVars, discoveryVars, traceVars, protectVars, archiveVars, part>>

ToolsNext ==
  \/ part = "entitlement" /\ EntitlementNext /\ UNCHANGED <<installerVars, consentVars, clusterVars, secretVars, discoveryVars, traceVars, protectVars, archiveVars, part>>
  \/ part = "installer" /\ InstallerNext /\ UNCHANGED <<entitlementVars, consentVars, clusterVars, secretVars, discoveryVars, traceVars, protectVars, archiveVars, part>>
  \/ part = "consent" /\ ConsentNext /\ UNCHANGED <<entitlementVars, installerVars, clusterVars, secretVars, discoveryVars, traceVars, protectVars, archiveVars, part>>
  \/ part = "cluster" /\ ClusterNext /\ UNCHANGED <<entitlementVars, installerVars, consentVars, secretVars, discoveryVars, traceVars, protectVars, archiveVars, part>>
  \/ part = "secrets" /\ SecretNext /\ UNCHANGED <<entitlementVars, installerVars, consentVars, clusterVars, discoveryVars, traceVars, protectVars, archiveVars, part>>
  \/ part = "discovery" /\ DiscoveryNext /\ UNCHANGED <<entitlementVars, installerVars, consentVars, clusterVars, secretVars, traceVars, protectVars, archiveVars, part>>
  \/ part = "traces" /\ TraceNext /\ UNCHANGED <<entitlementVars, installerVars, consentVars, clusterVars, secretVars, discoveryVars, protectVars, archiveVars, part>>
  \/ part = "protection" /\ ProtectNext /\ UNCHANGED <<entitlementVars, installerVars, consentVars, clusterVars, secretVars, discoveryVars, traceVars, archiveVars, part>>
  \/ part = "archives" /\ ArchiveNext /\ UNCHANGED <<entitlementVars, installerVars, consentVars, clusterVars, secretVars, discoveryVars, traceVars, protectVars, part>>

ToolsSpec == ToolsInit /\ [][ToolsNext]_toolVars

\* What TLC explores. A setting that nothing in a manifest asks for has one value: a priority without a choice of
\* primaries, a policy without a conflict, what becomes of optional domains without one.
SettingsMatter ==
  part = "cluster" /\ phase = "plan" =>
    /\ cluster.domains[2].role # "primary-candidate" => cluster.priority = <<>>
    /\ cluster.relation[1] # "conflicts_with" => cluster.policy = "surface"
    /\ (\A d \in Domain : cluster.domains[d].required) => cluster.onOptional = "block"

MCToolsInit == ToolsInit /\ SettingsMatter

MCToolsSpec == MCToolsInit /\ [][ToolsNext]_toolVars

ToolSymmetry == Permutations(Client)

--------------------------------------------------------------------------------

\* What is kept agrees with what was granted, listed or allowed, whatever crashed, failed or overlapped: the device's
\* keys, grant and metadata, the installer's log, downloads and summaries, the consent and what its user allowed, the
\* secrets and what a caller was told of them.
ToolsAgree ==
  /\ part = "entitlement" => EntitlementInv
  /\ part = "installer" => InstallerInv
  /\ part = "consent" => ConsentIsTheUsers
  /\ part = "secrets" => SecretsAreAsTold

\* What a reading command answers is true of what it read: the plan of a cluster and its trace, the domains that are
\* matched, routed and selected for a task, the traces that are listed.
AnswersAreTrue ==
  /\ part = "cluster" => ClusterInv
  /\ part = "discovery" => DiscoveryAgrees
  /\ part = "traces" => TracesAreTrue

\* An asset that is protected, recovered or unlocked opens as its owner was told and leaves no plaintext behind; one that
\* is extracted is safe, the registry's and whole.
AssetsAreProtected ==
  /\ part = "protection" => ProtectionHolds
  /\ part = "archives" => ArchivesAreSafe

\* A grant and its status version only move forwards, and what is installed is a release that an unexpired registry
\* lists; a secret is never written in the clear.
ToolsMoveByRight ==
  [][/\ part = "entitlement" => GrantsOnlyMoveForward
     /\ part = "installer" => InstallsAreListed
     /\ part = "secrets" => NoPlaintext]_toolVars
================================================================================
