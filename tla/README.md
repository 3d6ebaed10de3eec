# Models of SVFS

SVFS mounts OpenStack Swift containers as a file system. It is a FUSE server:
the kernel sends requests, `bazil.org/fuse` serves each one in a goroutine of
its own, and handlers answer from caches or from Swift, an object store that
knows whole objects only. The models here are of the code in `svfs/`, and are
about what these three make hard together: handlers that interleave between
any two cache calls or Swift requests, requests that fail half-way and whose
errors are sometimes dropped, a cache whose entries vanish at any moment, large
objects made of many small ones, and a lock that is taken by one request and
released by another.

## The system

| component | state | operations | what makes it correct |
|---|---|---|---|
| directory cache, `cache.go` (`Cache`) | listings by directory, with age, access count, temporary flag; a count of all cached nodes | `AddAll`, `GetAll`, `Peek`, `Get`, `Set`, `Delete`, `DeleteAll` | the limits hold, the count is what it counts, temporary entries go |
| directory handlers, `directory.go` | none of their own: cache and container | `ReadDirAll`, `Lookup`, `Create`, `Mkdir`, `Symlink`, `Link`, `Rename`, `Remove` | the cache agrees with the container; together they are a tree of names |
| lister, `lister.go` | a task channel and workers; a result channel per listing | `AddTask`, `processTasks` | each task gives one result, to a channel that is still open; listings end |
| object handle, `handle.go`, `swift.go` | writer, segment number and prefix, bytes in the segment | `Write`, `moveToSegment`, `truncate`, `Release`, `deleteSegments` | what is written is read back; no segment is lost, doubled or left behind |
| object lock, `object.go`, `handle.go`, `cache.go` (`SimpleCache`) | a mutex and a `writing` flag per node; the objects that are changing | `open`, `Release`; the waits in `Setattr`, `Setxattr`, `Removexattr` | one writer at a time; who waits gets the lock |
| object attributes, `object.go` | headers of the object | `Attr`, `Setattr`, `Getxattr`, `Setxattr`, `Listxattr`, `Removexattr` | an update keeps the attributes it is not about |
| symlinks, `symlink.go` | target header | `Readlink`, `copy`, `delete`, `rename` | as objects |
| root of an account, `root.go` | none of its own: the root's entry of the cache, containers and their segment containers | `Mkdir`, `Remove`, `ReadDirAll`, `Lookup` | what is served has its segment container; what is removed leaves none; what is lost is made again |
| start and `Statfs`, `fs.go` | options | `Init`, `Root`, `rootContainer`, `Statfs` | one container is served like one of the account; the numbers count all data |
| hubiC authentication, command line, configuration, packaging, vendored libraries | | | not part of the models |

How they interact. A listing fills the directory cache and gives tasks to the
lister, whose workers write to the listing's channel. The handlers that change
the tree change Swift first and then the cache's entry, if there is one.
Opening a file for writing locks its node and puts it in the cache of changing
objects; a listing takes such an object from there, not from Swift. Writing
sends one PUT per segment, through a pipe whose errors appear when it is
closed. `Release` ends the last PUT and the lock.

What is hard. Each cache method is atomic, sequences of them are not:
`Lookup` is three of them, `removeDirectory` two, a listing two with a Swift
request in between, and a container at the root of an account is two objects
of Swift that nothing changes together. Every Swift request can fail, and a write that fails may
have taken effect. Entries expire, are evicted by reads and are overwritten by
concurrent listings; other clients change the container. `PROJECT.json` lists
each such hazard with its line and the properties that are about it.

## Modules

* `DirectoryCache` is `Cache`. Every method holds `Cache.mutex` from its first
  line to its last, so a method is one action; what a method returns is an
  operator (`PeekFound`, `GetFound`, `GetAllHit`). An entry's date is its age,
  which stops growing when it has expired; `nodeCount` is an integer modulo
  `CountModulus`, so that it wraps as a `uint64` does, and the limit is
  compared after the wrap as in the code. Two specifications: `CacheSpec`
  (any caller, any order) and `FillSpec` (a read-only mount whose listings do
  not overlap).
* `Directory` extends it with the handlers. A process serves one request at a
  time; a step is one cache method or one Swift request with the code up to
  the next one, and `pc` names the next call. The tree is the container's
  apex with subdirectories below; `<<d, n>>` is the object `d/n` and
  `<<Top, s>>` the empty object that marks a directory. Pseudo-directories
  (a directory without a marker) appear in listings as the code makes them
  appear.
* `Namespace` is what the kernel is promised: a tree of names, requests that
  change it in at most two steps and answers that are right at the moment
  they are given. `Directory` implements it (`ImplementsNamespace`): its
  container is the tree, its labels map to called, changed and answered, and
  cache, listings and Swift are hidden.
* `Listing` is the inside of the two steps of `Directory` that fetch and fill:
  the loop of `ReadDirAll`, the goroutine `AddTask` starts, the task channel,
  the workers, the bounded result channels, and the cache of changing objects
  as `Release` changes it meanwhile. The task channel and the goroutines
  blocked on it are one unbounded queue, as both are FIFO. `changing` holds
  the objects open for writing; `released`, a history of each listing, the
  nodes that were released between its `Exist` and its `Get`.
* `ObjectHandle` is one file through any number of opens: `Write` in its
  steps (truncate, write, close the segment, copy and delete the first
  object, manifest, next segment), `Release`, truncation by `Setattr`, removal
  with its segments. Requests are one after the other, which is what
  `ObjectLock` is about. Data are sequences of numbered units, so that
  losing, doubling or swapping any of them shows. Any request can fail, before
  or after its effect, `MaxFaults` times; an application that gets an error
  closes the file.
* `ObjectLock` is the mutex of one node, step by step: lock, add to the cache
  of changing objects; start an upload, mark the node; and on `Release` end the
  upload, unmark, `Exist`, `Remove`, `Unlock`. Go's mutexes have no owner, so
  the model's has none: `Unlock` unlocks whoever locked, and unlocking an
  unlocked mutex is `fatal`. `Setattr`, `Setxattr` and `Removexattr` look at
  the `writing` flag without the lock and take it if the flag is set, or
  answer before that if there is nothing to change.
* `ObjectFile` extends it with what the lock is for: the file's object in
  Swift, with whose data and which attributes it has, and the names the node
  has for it (`path`, `soName`, and `key` in the cache of changing objects). An
  upload replaces the object at the name it was given at its start, a POST
  replaces the attributes at `so.Name` and may fail when the node has changed
  already, a rename is a COPY, a DELETE and the node's new self, mutex
  included. A request that sets what the node has (`NothingToDo`) is answered
  without a POST. It is written as a composition: each action is one of
  `ObjectLock` with what it does to the file; a rename is the exception, since
  the node gets the mutex that was copied with it.
* `Root` is the root of an account over the same `DirectoryCache`, in the style
  of `Directory`: a step is one request to Swift or one cache method. The
  `Directory` the code embeds in its `Root` has no other state. Containers
  have the storage policy svfs asks for or another one, and a name may end in
  the suffix of segment containers. Files are pieces of data that are uploaded,
  moved to the segment container in two steps (`ObjectHandle` has the details)
  and deleted.
* `Mount` extends `Root` with the start on one container (`rootContainer`;
  from there on `Directory` serves it) and with `Statfs`, whose numbers are
  those of up to three requests, converted as `uint64` does it (modulo
  `2 * (MaxInt + 1)`).
* `DirectoryCacheProofs`, `DirectoryProofs`, `NamespaceProofs`, `ListingProofs`,
  `ObjectHandleProofs`, `ObjectLockProofs`, `ObjectFileProofs` and `MountProofs`
  hold the proofs; the `MC...` modules instantiate for TLC. Definitions marked
  "mutant" are plausible bugs in the definition below them; no specification
  uses them. Each shows that some property notices that bug.

## Runs

| run | what it shows |
|---|---|
| `cache_fills` | `CountExact`: the count is the number of nodes in entries that are not temporary, through fills, reads, evictions, expiry. `EntriesWithinLimit`, `AccessLimit`: both options hold |
| `dir_exclusive` | two requests at a time, any of the handlers, on an apex and a subdirectory: `CacheCoherent` (a cached listing differs from the container only in names being changed right now), `LookupExact`, `RemovesOnlyEmpty`, the inductive `DirectoryInvariant`, and the refinement of `Namespace` |
| `dir_heals` | one failing request, one change by another client, files that are opened in an unsupported mode: `RenameKeepsObject`, and `GoneIsForgotten`, liveness: a name that is gone for good is in the end not found |
| `dir_shared` | **finding**: with concurrent lookups and listings an existing name is answered ENOENT |
| `listing` | two listings, one worker, channels of one place: `NoSendAfterClose`, `NoResultLost` (what a listing still expects is exactly what is on its way), `MissesOnlyReleased` (a node is missing only if it was released between this listing's `Exist` and `Get`), the inductive `ListingInvariant`, and `ListingEnds` |
| `handle` | `ReadBack`, `NoOrphans`, `SizeIsStored`, and `CrashLeavesOneVersion`: at every moment Swift holds an end of the old contents or a beginning of the new, for a crash at that moment; `SegmentsBounded`, with at most one failing request; and the inductive `HandleInvariant` |
| `handle_faults` | **finding**: a write that was acknowledged is not stored |
| `handle_truncate` | **finding**: truncating a file of one object keeps its data |
| `lock` | of the lock: `OneHolder`, `NeverFatal`, `UpdateAfterUpload`, the inductive `LockInvariant`, and `Served`: who waits for the mutex gets it. Of the file: when nothing is under way, it holds the data of the last close, under its name only (`ClosedIsStored`), and the attributes whose POST was answered OK since (`AttributesStored`), although POSTs may fail; and the inductive `FileInvariant` |
| `lock_reader` | **finding**: a reader's `Release` lets a second writer in |
| `file_rename` | **finding**: a rename right after close loses what was written: the COPY takes the old data, the upload ends at the old name, the DELETE removes it |
| `account` | `ServedInPairs`: a container that is mounted, or in the cached listing, has its segment container, whichever request failed; `RemovedInPairs`: a `Remove` that stopped half-way can be tried again; the inductive `AccountInvariant`, with two requests at a time: what one relies on is not taken back by the other; `SegmentsReturn`, liveness: listings make lost segment containers again; `StatfsCountsAll`: data that are moved while `Statfs` asks are counted |

### Bounds

* Cache: two directories of up to three names against a limit of four nodes and
  two reads, so that fills fit, just do not fit, and become temporary; a
  timeout of one tick. `CountModulus` 8 is more than all names together, so a
  wrap is always an error of the count.
* Directory: two processes interleave at every call. `dir_exclusive` has a file
  name and a subdirectory, limits of two nodes and two reads (an entry is
  temporary, evicted or expired within a few steps), and starts from every
  container in which directories have markers. Its `CountModulus`, 5, is so
  small that the drift of `nodeCount` under `Set` and `Delete` (below) wraps it:
  entries change from counted to temporary at any time, and the properties
  hold regardless. `dir_heals` has one directory with two names, any
  container, one fault and one change.
* Listing: two tasks per listing against one worker and channels of one place:
  every blocking case is reached. One open for writing.
* Handle: segments of two units, writes of up to three, seven units in all, so
  up to six segments, writes larger than a segment, files that are
  overwritten; two seconds, so that two versions have the same prefix or
  different ones; two faults.
* Lock and file: three writers (one being released, one waiting, one that
  overtakes it), a reader, also during a rename, one change of attributes at a
  time, as the kernel's inode lock makes them, the mtime and one extended
  attribute, two names. POSTs fail as often as they like. The state does not
  grow with time and the proofs are for any number.
* Account: one container and its segment container, with every storage policy,
  in every combination at the start; two requests at the root at a time, so
  that lookups, listings and `Statfs` overlap, while data come, move and go;
  one fault and one change by another client; quotas above and below what is
  stored, integers of four bits. A directory that is itself named like a
  segment container is in the proofs only.

### Fairness

`dir_heals`: goroutines run, Swift answers or times out, time passes (weak
fairness of each process and of the clock); nobody is obliged to send a request
or to change the container. `listing`: the same for listings, senders and
workers. `lock`: the goroutines run, applications close the files they opened,
strong fairness of taking the mutex, since a Go mutex in its starvation mode is
handed to the goroutine that has waited longest, and Swift answers a rename.
`account`: goroutines run, Swift answers or times out, and time passes.
`SegmentsReturn` speaks of behaviours in which the account is listed without an
error again and again; nobody is obliged to list it.

### Assumptions about the kernel and applications

* `VFSLock`. The kernel locks a directory's inode for the requests on it.
  With "exclusive", one request at a time; "shared" lets lookups and listings
  overlap, as kernels do since lookups were made parallel; "none" stands for a
  directory with several inodes. The coherence results are for "exclusive";
  `dir_shared` shows what is lost otherwise.
* `Sharing`. Without it, a file is open for reading or for writing but not
  both, and attributes are changed when the writers have closed it, which is
  how `docs/FAQ.md` tells users to run rsync. The kernel answers `close(2)`
  before it sends the `Release`, so attribute changes do race `Release`.
  With it, `lock_reader`.
* `RenameRaces`. Without it, applications rename a file when the handles that
  wrote it have been released, not merely closed, and do not open it for
  writing until the rename is over; they may read it any time. With it,
  `file_rename`. Nothing keeps an application to either: rsync without
  `--inplace` renames what it has just closed, and `docs/FAQ.md` recommends
  `--inplace`; and the kernel's `open` takes no lock that a rename holds. An
  open between the COPY and `*o = *copy` (`object.go:286`) locks a mutex that
  is then replaced by the state it had before, and the lock is lost. What is
  proved and checked of `ObjectFile` does not speak of such files.

## Proofs

`tlapm` checks these for every value of the constants.

* `CacheTypeCorrect`, `AccessLimitHolds` (of `CacheSpec`): `CacheTypeOK` is
  inductive; so is `AccessLimit` on top of it. The argument of the second: an
  entry that counts is added with no accesses only if `CacheMaxAccess` is not
  0, and the read that would reach the limit evicts it.
* `CountExactHolds`, `EntriesWithinLimitHolds` (of `FillSpec`): `CountExact` is
  inductive with the type invariant. The work is in the cardinality of
  `Counted`: a fill adds the nodes of one entry that did not count before, an
  eviction takes exactly those away, and since there are fewer names than
  `CountModulus` the modulus never acts. The limit follows from the exact
  count: a fill that would take the count to the limit is temporary.
* `LockInvariantHolds`, `OneHolderHolds`, `NeverFatalHolds`,
  `UpdateAfterUploadHolds` (of `ObjectLock`, if the file is not shared).
  `OneHolder` is not inductive: that a `Release` unlocks its own lock needs
  that the object is in the cache of changing objects exactly while a writer
  is between `Add` and `Remove`, and that the mutex is locked exactly while
  someone holds it. `LockInvariant` says so; `Inv` adds the three properties,
  and is kept by every step. `UpdateAfterUpload` needs of it that an upload
  under way implies the `writing` flag.

* `FileLockHolds`, `FileInvariantHolds`, `ClosedIsStoredHolds`,
  `AttributesStoredHolds` (of `ObjectFile`, if the file is not shared and
  renames race neither a `Release` nor an open for writing, see
  `RenameRaces`). `FileLockHolds` is the four results above for a lock whose
  file changes under it. `FileInv` is `FileInvariant` with the
  lock's `Inv`. A step of the file is one of the lock, or leaves it alone
  (`FileStepIsLockStep`): for a rename because the mutex was free when the node
  was copied, for `Exist` because the name in `changeCache` is the node's. So
  `Inv` comes from `ObjectLockProofs`. What `FileInvariant` adds is what the two
  properties need to survive each step: a rename is alone but for
  readers; the names agree otherwise; an upload under way that has been closed is the one that is
  expected (`OneUpload`, from `OneHolder`); and attributes are set only while
  no upload is under way (`UpdateAfterUpload`), so that an upload has none to
  lose. `due` leaves out the attribute of a POST that failed: the node has it,
  Swift may not.

* `ListingTypeCorrect`, `ListingInvariantHolds`, `NoSendAfterCloseHolds`,
  `NoResultLostHolds`, `MissesOnlyReleasedHolds` (of `Listing`, for any number
  of listings, nodes and workers). `ListingInvariant` says that a task that is
  not done is in one place: with the goroutine that is to send it, in the task
  channel, with a worker or in the result channel, and in none twice. Each step
  moves one task from one place to the next, so the tasks that are out are
  `count - done` in number. A listing closes its channel when the two are
  equal: then no task is out, no worker has one, and none can send it. A node
  is to be looked at, found, out or answered, or else it was released when it
  had been found and not yet got, which gives the last property. The type
  invariant says that no result channel holds more than it has room for.

* `MountTypeCorrect`, `AccountInvariantHolds`, `ServedInPairsHolds`,
  `RemovedInPairsHolds` (of `Mount` with `Root`, for any number of processes,
  containers, data and failing requests). `ServedInPairs` is not inductive:
  what `AddAll` and `Set` cache was found or made some requests before. So
  `AccountInvariant` says what each call relies on (`HalfDone`, `Known`,
  `MountedPair`), and why nobody takes it back between two calls: a `Mkdir` or
  `Remove` is alone (`Alone`, from the kernel's lock of the directory), and
  what may overlap, lookups and listings, only makes containers. A `Remove`
  that takes a container away names who loses it. The properties, and so
  these theorems, are about a mount whose containers no other client touches
  (`changes = 0`); `SegmentsReturn` is about the other clients.

  `StatfsCountsAllHolds`: what `AccountInvariant` adds for it is that the data
  which have been there since a `Statfs` began, and were not in the container
  when it was asked for, are in the segment container when that one is asked
  for: a move copies first and then deletes. The rest is arithmetic: the two
  unsigned numbers that `df` subtracts may each have wrapped, their difference
  has not.

* `DirectoryTypeCorrect`, `RenameKeepsObjectHolds`, `RemovesOnlyEmptyHolds`,
  `DirectoryInvariantHolds`, `CacheCoherentHolds`, `LookupExactHolds` (of
  `Directory`) and `ImplementsNamespaceHolds`, for any tree of directories, any
  number of processes and any cache limits. Their hypotheses differ, and say
  what each needs. The types need nothing. `RenameKeepsObject` needs the
  kernel's lock of a directory (`VFSLock # "none"`) and speaks of a container
  that no other client has changed; requests may fail, with or without effect.
  `RemovesOnlyEmpty` needs besides that the check is not switched off (transfer
  mode `SkipRmdir`). The others are about the only mount of a container that
  marks its directories, while Swift answers (`OneMount`). `CacheCoherent` and
  its invariant hold also when lookups and listings overlap (`"shared"`);
  `LookupExact` and the refinement need the exclusive lock, and `dir_shared`
  shows why. The argument of `DirectoryInvariant`: a request makes the calls of
  its operation only (`OwnCalls`), on directories that no other request
  changes at the time (`Apart`, from the kernel's locks); so what a call
  relies on (`HasStored`, `HasCached`, `HasListed`, `HasFound`) is kept by the
  steps of all others, which work elsewhere (`OthersKeep`), and has to be shown
  for the request's own steps only. `Coherent` says of each name that its cached
  listing agrees with the container, or that a request is changing it;
  evictions and expiry only take listings away. The refinement goes call by
  call: the step that changes the container is the step of the tree, the step
  that decides the answer is the one that gives it, all others are none.

* `HandleTypeCorrect`, `HandleInvariantHolds`, `ReadBackHolds`,
  `NoOrphansHolds`, `SizeIsStoredHolds`, `CrashLeavesOneVersionHolds`,
  `SegmentsBoundedHolds` (of `ObjectHandle`, for any sizes of segments and
  writes, any number of them, any clock and any number of failing requests).
  The proof has three layers. `Kept` holds whatever fails: types, what the
  writer is on at each call (`WriterInPlace`), and what the counters count
  (`Counted`). `Right` holds as long as nothing failed: between two handles that
  write, the contents are the expected ones and the node knows the manifest
  (`Settled`); a writer on the object has sent what was written and the old data
  are gone from the front only (`WritesBase`); the object becomes the first
  segment (`MovesToSegment`); what is stored and what the writer has sent make up
  what was written (`WritesSegment`). `Bounded` (`SegmentsBounded`, `MoveBounded`)
  allows one failure. That the contents of a manifest are the concatenation of
  its segments is a recursive function of the model; the few facts about it
  that are needed (a segment that is stored after all others adds its data at
  the end, one that is deleted before all others takes its data away from the
  front) are proved by induction on a set of numbers, from the library's
  theorem that a well-founded order has minimal elements. The proof changed the
  invariant twice: that a file whose segments are being cut has size 0 already
  was missing from `Settled`; and `SegmentsBounded` turned out to be false with
  two failing requests (below, Known limits).

Assumptions: `CacheAssumption`, `DirectoryAssumption`, `ListingAssumption`,
`HandleAssumption`, `LockAssumption`, `FileAssumption`, `RootAssumption` and
`MountAssumption`, which say that sets are finite, disjoint or not empty, options
are integers, markers are no names, suffixed names differ when the names do, and
all data of an account and its quota fit a signed integer (Swift counts in
`int64`).

Only model-checked: all liveness (`GoneIsForgotten`, `ListingEnds`, `Served`,
`SegmentsReturn`), which is out of the prover's reach, and the runs that show a
violation. Every other property of the runs is a theorem.

## Known limits of the code that no property contradicts

* `nodeCount` drifts: `Set` and `Delete` change a listing without counting, and
  `AddAll` over an entry that is there counts its nodes again. A long-lived
  mount that creates and removes files can end with a count that is too high or
  has wrapped, and from then on every listing is temporary.
* Two failing requests can make a segment that is larger than the segment size:
  a truncation that fails half-way leaves segments of the old version and
  forgets them in the node; if the next handle's PUT then fails too, whose error
  `Close` drops (`handle.go:124`), the old manifest is still there, and what is
  copied as the first segment is everything it refers to. `SegmentsBounded`
  therefore speaks of at most one failing request.
* A temporary entry is not evicted by its first read, as `cache.go:31-32` and
  `54-55` say: `deleteAll` (`cache.go:112`) spares temporary entries. It
  stays until it is overwritten, and outlives its timeout in memory.
* A file released between `changeCache.Exist` and `changeCache.Get`
  (`directory.go:175-176`) is missing from the listing and from the cache entry
  it fills. `MissesOnlyReleased` says that nothing else can be missing from
  that listing.
* `Setxattr` and `Removexattr` send the extended attributes only, and a POST
  replaces all: the mtime is gone from Swift until it is set again. An
  upload replaces the object: the attributes are gone there, while the node
  still has them. `AttributesStored` is about what neither takes away.
* A request that sets the value the node has is answered OK without a POST:
  the same mtime (`object.go:159`); an extended attribute that equals the
  hexadecimal form the node keeps, or is empty when the node has none
  (`object.go:182`). The node has a new mtime as soon as a POST is tried, and
  keeps it when an upload replaces the object: the same mtime set once more
  after a failed POST, or again after the file was written, is answered OK and
  not stored. `AttributesStored` is about attributes whose POST was answered OK.
* `Removexattr` looks for the name as it is given, `o.sh` has canonical header
  keys: an attribute with a name like `user.x` is never removed.
* A hard link makes two nodes share one description: the old node's `so.Name`
  becomes the new name, and uploads and attributes of the old file go to the
  new object. Links of a large object share its segments, which the removal or
  the overwriting of either deletes.
* At the root, a directory with a name that ends in `_segments` is somebody
  else's segment container: it is not listed, and its removal takes segments
  away. A `Remove` that is refused because the container is not empty has
  deleted its segment container already, if that is empty. `ServedInPairs` excludes the pairs that a `Remove` has broken until the
  next listing.
* A segment container with another storage policy than the one asked for makes
  every listing of the account fail.
* If the segment container of the mounted container is missing and cannot be
  made, the start panics (`fs.go:187`). If the account is over its quota,
  `Statfs` reports an enormous free space (`fs.go:155`).
* `Remove` and `Rename` of a name whose listing was just evicted answer
  ENOTSUP; `Namespace` allows it. A file created for reading and writing is
  created and then refused: `dir_heals` has such requests, but `Namespace`
  does not allow them, and the refinement is of mounts where files are created
  for writing only (`OpenModes`).
* A change of attributes while the writer goes on writing can wait for ever:
  it holds the inode lock the next write needs.

## Not modelled

Reading, `Attr`, the values of attributes (only whether one is there),
permissions and modes; `Setattr`
of a size other than 0, or of a file that was written through the open handle;
renames of large objects; two nodes for one path; deeper trees; a failing
rename of the file in `ObjectFile` (`Directory` has it). `SVFS.Init`,
authentication, command line, configuration, scripts and vendored code: they
run once, in sequence, or have no state of the file system. Symlinks are in
`Directory` but in no run: a third name takes its liveness out of TLC's reach.

## Plan

1. Nodes: what hard links share, and several nodes of one path in
   `changeCache` (a file removed and created again while it is open), composed
   with `ObjectLock`.
2. `ObjectHandle`: rename of a large object and over one; an abstract file that
   it implements without faults.
3. Proofs: nothing that a run checks is left but liveness. What is worth adding
   is an action property of `ObjectHandle` (what a request may change in Swift,
   whatever fails) and a bound on the orphans that failing requests leave.
