-------------------------------- MODULE MCRetired --------------------------------
(***************************************************************************)
(* The stores of retired/, whose sources are tested and no longer          *)
(* distributed: an initial state chooses one part, the variables of the    *)
(* others stay 0.                                                          *)
(***************************************************************************)
EXTENDS WorkspaceAttachments, WorkspaceResolve, PackageStore, PublishAsset, WorkPack, TLC

VARIABLE part

NoWorkspace ==
  job = 0 /\ lock = 0 /\ record = 0 /\ store = 0 /\ staging = 0 /\ receipt = 0 /\ previews = 0 /\ runs = 0 /\ crashes = 0 /\ broken = 0

NoResolve ==
  /\ scope = 0 /\ sameRole = 0 /\ states = 0 /\ sound = 0 /\ grant = 0 /\ selection = 0 /\ snap = 0 /\ base = 0 /\ unchecked = 0
  /\ candidates = 0 /\ verified = 0 /\ step = 0 /\ outcome = 0 /\ changes = 0

NoStore ==
  worker = 0 /\ mutex = 0 /\ recovering = 0 /\ dirs = 0 /\ index = 0 /\ commands = 0 /\ faults = 0 /\ spoiled = 0

NoPublication ==
  /\ tally = 0 /\ checked = 0 /\ locks = 0 /\ packed = 0 /\ released = 0 /\ publisher = 0 /\ replaced = 0

NoPacks ==
  /\ folder = 0 /\ written = 0 /\ packer = 0 /\ skill = 0 /\ run = 0 /\ told = 0 /\ packs = 0 /\ troubled = 0

RetiredInit ==
  \/ part = "workspace" /\ WorkspaceInit /\ NoResolve /\ NoStore /\ NoPublication /\ NoPacks
  \/ part = "resolve" /\ NoWorkspace /\ ResolveInit /\ NoStore /\ NoPublication /\ NoPacks
  \/ part = "store" /\ NoWorkspace /\ NoResolve /\ StoreInit /\ NoPublication /\ NoPacks
  \/ part = "publish" /\ NoWorkspace /\ NoResolve /\ NoStore /\ PublishInit /\ NoPacks
  \/ part = "packs" /\ NoWorkspace /\ NoResolve /\ NoStore /\ NoPublication /\ PackInit

retiredVars == <<workspaceVars, resolveVars, storeVars, publishVars, packVars, part>>

RetiredNext ==
  \/ part = "workspace" /\ WorkspaceNext /\ UNCHANGED <<resolveVars, storeVars, publishVars, packVars, part>>
  \/ part = "resolve" /\ ResolveNext /\ UNCHANGED <<workspaceVars, storeVars, publishVars, packVars, part>>
  \/ part = "store" /\ StoreNext /\ UNCHANGED <<workspaceVars, resolveVars, publishVars, packVars, part>>
  \/ part = "publish" /\ PublishNext /\ UNCHANGED <<workspaceVars, resolveVars, storeVars, packVars, part>>
  \/ part = "packs" /\ PackNext /\ UNCHANGED <<workspaceVars, resolveVars, storeVars, publishVars, part>>

RetiredSpec == RetiredInit /\ [][RetiredNext]_retiredVars

RetiredSymmetry == Permutations(Proc) \union Permutations(Digest)

--------------------------------------------------------------------------------

\* What is stored agrees with what is said of it, whatever crashed, failed or overlapped: the workspace record and its
\* snapshots, the package directories, receipts and index, the evidence of a publication, the report of a work pack.
StoresAgree ==
  /\ part = "workspace" => WorkspaceInv
  /\ part = "store" => StoreInv
  /\ part = "publish" => PublicationsAreTrue
  /\ part = "packs" => PacksAreTrue

\* A command changes one thing and only with a claim to it: one attachment of the record, a version by its removal.
StoresChangeByRight ==
  [][/\ part = "workspace" => RecordChangesByOne
     /\ part = "store" => StoreMovesByRemoval]_retiredVars

\* cleanupWorkspaceSnapshots deletes what its approved plan names, and accounts for it.
CleanupsAreApproved == [][part = "workspace" => CleanupIsApproved]_retiredVars

\* resolveWorkspace loads an attachment only for a reason it can name, and asks or refuses where the reasons conflict.
ResolutionsAreClear == part = "resolve" => ResolutionIsClear

\* A choice is loaded only for the record and the candidates it was made for, or for a task that still runs.
ChoicesAreBound == [][part = "resolve" => ChoiceIsBound]_retiredVars
================================================================================
