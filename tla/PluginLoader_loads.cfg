\* Three workers load and check plugins of two repositories; one check imports on its own.
CONSTANTS
  None = None
  ra = ra
  rb = rb
  da = da
  sa = sa
  db = db
  pa = pa
  pb = pb
  pm = pm
  hub = hub
  hubx = hubx
  unique = unique
  Worker = {w1, w2, w3}
  Plugin = {pa, pb, pm}
  Repo = {ra, rb}
  Dir = {da, sa, db}
  Name = {hub, hubx, unique}
  Parent <- MCParent
  Top <- MCTop
  Manifest <- MCManifest
  RepoOf <- MCRepoOf
  Home <- MCHome
  Owner <- MCOwner
  Provides <- MCProvides
  Under <- MCUnder
  Entries <- MCEntries
  Attempts <- MCAttempts
  Lazy <- MCLazy
SPECIFICATION Spec
SYMMETRY WorkerSymmetry
INVARIANTS
  TypeOK
  PathIsLoaders
  NoResidue
  ForeignOnlyByCheck
PROPERTIES
  PhasesSpec
