# TLA+ verification of beak

beak stores backups of an _origin_ directory in _storage locations_. A backup
is a _point in time_: a root index file, named after the newest mtime in the
origin, and the archive files (tars, and index files of sub directories) that
it lists. All of them are write-once and named after what they hold, so
backups share the files they have in common. Paths below are relative to the
repository.

## Inventory

| Part | State it keeps | Operations | What is hard | What makes it correct |
|---|---|---|---|---|
| store (`src/beak_store.cc`, `src/storagetool.cc`, `src/filesystem_posix.cc`) | the files of the storage; in memory the scanned backup | scan, skip, replace, create, fill, utime, final comparison | killed between any two steps; full disk; the origin changes between scan and read, or cannot be read | older backups are untouched; a store without a complaint is complete |
| prune (`src/beak_prune.cc`) | in memory: the points found, the files they list | load index files, list, decide, delete | remains of killed commands, truncated index files, a store running beside it | deletes nothing a kept backup needs, leaves nothing else |
| fsck (`src/beak_fsck.cc`) | as prune | load, list, report, delete superfluous files, delete broken index files | as prune | what is left is consistent |
| keep calculation (`src/prune.cc`) | the last point of every day, week, month | `addPointInTime`, `prune`, `mostRecentWeeklyBackup` | borders of days, weeks, months, ages; repeated prunes | the keep rule's meaning; an early prune forgets nothing a later one would keep |
| restore index (`src/restore.cc`, `src/index.cc`) | points in time, directory entries, tars per point; what is loaded | `lookForPointsInTime`, `loadBeakFileSystem`, `loadGz`, `loadCache`, `findEntry`, FUSE callbacks under one mutex | loading on demand, failed loads, names of points of the same minute | every point and file can be reached, and is what was stored |
| backup scan (`src/backup.cc`, `src/tarentry.cc`, `src/contentsplit.cc`) | the tree of entries and storage directories, tars | recurse, group into storage directories and tars, fix hard links, write index files | passes that change what they go through, sizes taken away level by level, hard links across directories, names cut to safe paths | the index files together are the origin, every entry once; a small change renames little |
| tar layout (`src/tarfile.cc`, `src/tar.cc`, `readParts` in `src/restore.cc`) | sizes and offsets of parts | `splitParts_`, `readVirtualTar`, `findPartContainingOffset` | part borders, headers of different lengths | what is read back is what was written |
| remote storages (`src/storage_rclone.cc`, `src/storage_rsync.cc`, `CacheFS` in `src/storagetool.cc`, `src/filesystem_helpers.cc`), push (`src/beak_push.cc`) | remote files, a local cache of index files and tars, its flags | list, fetch, send, delete through external programs | partial failures, order of transfer, paths that are taken for patterns, children that are killed, stale cache | the same as for a local storage |
| restore (`src/origintool.cc`, `src/beak_restore.cc`), diff (`src/diff.cc`) | the destination tree | a comparing walk, then files, fifos, symbolic links, hard links, directories | interrupted and repeated restores, read only directories, newer files | the tree of the point in time, and nothing of the user's lost |
| configuration (`src/configuration.cc`) | rules in memory and in a file | menus, save, load | keys that are not the names any more, locations behind links, edits that are not saved, saves that fail | what is read back is what was shown; no storage in two rules |
| command line (`src/beak_commandline.cc`, `src/beak.cc`) | what has been read of the line, a storage made on the fly | options, arguments, lookups, dispatch | an argument means what is there at the moment | no option is lost, no user directory becomes a storage |
| camera import (`src/beak_cameramedia.cc`, `src/beak_importmedia.cc`, `src/storage_aftmtp.cc`) | a cache, an archive, the list of the phone | list, compare, fetch with retries, import, stamp | the phone is unplugged, photos come and go, the client or a copy fails, crashes | a photo that is said to be imported is, and stays |
| media index and server, monitor, system, UI, logging | see `PROJECT.json` | | mostly input, output and formatting | |

The parts interact by calls in one process, and processes interact only through
the files of the storage and of the origin. There are no locks on either. A
FUSE mount is the only multi threaded part (one global mutex).


## Modules

| Module | What it models | Depends on |
|---|---|---|
| `BackupPromise` | what a storage promises, without files: the restorable backups, and that only discarded ones are lost | |
| `BeakStorage` | one local storage, file by file, and the commands store, prune and fsck, one at a time, with crashes | instantiates `BackupPromise` |
| `StoreAndScan` | two processes on one storage, a store and a prune or fsck | two instances of `BeakStorage` |
| `Calendar` | `to_days_since_epoch`, `to_weeks_since_epoch`, `to_month_identifier_since_epoch` | |
| `CalendarWalk` | the civil calendar, day by day, as the reference for `Calendar` | `Calendar` |
| `PruneKeep` | the keep calculation over the life of a storage | `Calendar` |
| `VirtualTar` | the layout of a tar, its parts, their bytes, and a restore's way back to a file | |
| `RestoreIndex` | one point in time under a mount or a restore: the tree of entries that is filled from index files while it is used | |
| `BackupScan` | the passes of a scan, from the walk of an origin to the index files | |
| `OriginRestore` | a restore into a directory that holds something | instantiates `TreeDiff` |
| `TreeDiff` | what a diff of two trees counts | |
| `RemoteStorage` | one storage behind rclone or rsync, with store, push, prune and fsck | |
| `Configuration` | the rules, their file and the menus | |
| `CommandLine` | a command from its first word to its handler | extends `Configuration` |
| `CameraImport` | the import of photos from a phone | |
| `BeakStorage_proofs`, `VirtualTar_proofs`, `RestoreIndex_proofs`, `OriginRestore_proofs`, `RemoteStorage_proofs`, `CameraImport_proofs` | theorems | their module |
| `Prune_proofs` | theorems about the keep calculation, the calendar under it, and a prune beside a store | `PruneKeep`, `CalendarWalk`, `StoreAndScan` |
| `CommandLine_proofs` | theorems about the rules, their file, and the command line | `CommandLine`, with `Configuration` |
| `MC...` | small instances for TLC | their module |

Every property has a mutant in `PROJECT.json`: a definition replaced by what a
plausible mistake in the code would make of it, which TLC must then find. The
replacements stand beside what they replace and are marked `Mutant:`.

### BeakStorage

`disk` maps a file to how much of it is in the storage directory: `absent`,
`short` (created, not all of it written), `unstamped` (written, `utime` not yet
called) or `stored`. These are the states `store_local_backup_file` can tell
apart with its comparison of size, mtime and permissions, and the ones a crash can
leave. The point in time stands for the name of its root index file; an archive
file stands for its content, because its name is a hash of the names, sizes and
mtimes of what it holds. `tainted` is what the code cannot see: a tar that was
filled from an origin that had moved on since the scan, under the name of the old
content.

| Actions | Code |
|---|---|
| `StartStore` | `BeakImplementation::store` up to the scan of the origin |
| `Visitable` | the order of `BeakFS::recurse`: sub directories, root; index file before tars |
| `SkipFile`, `ReplaceFile`, `CreateFile`, `FillFile`, `StampFile` | `store_local_backup_file`, with `createFile` cut where a crash can fall |
| `WriteFails` | `createFile` returning false, a result that is dropped |
| `ReadStalls` | `readVirtualTar` on an origin file that has shrunk, is gone, or cannot be read though it is unchanged; the store stays there until it is killed |
| `FinishStore` | the comparison of the entries with the origin, and its warning |
| `LoadIndexes` | `lookForPointsInTime` and `loadBeakFileSystem`; a short index file gives any subset of its lines |
| `DecidePrune`, `DeclinePrune`, `FinishPrune` | `beak_prune.cc` |
| `DecideFsck`, `DeleteBroken`, `FinishFsck` | `beak_fsck.cc`, in its order: superfluous files, then broken index files |
| `DeleteFile` | `removeBackupFiles`, one file a step |
| `Crash` | kill, power failure, or an exit through `error()` |
| `OriginChanges` | the user works in the origin directory |

What prune keeps is any set with the newest point (`MayKeep`); `PruneKeep` says
which, and its theorem `NewestIsKept` is what `MayKeep` relies on.

Assumptions: an archive file that went out of use does not come back
(`NoRevertAssumption`: mtimes in the origin are not turned back; without it a tar
of an earlier point can be spoiled when it is stored again); the hash in a name
identifies the content; a crash keeps the order of the operations on a file
(nothing is synced by the code, so a power failure may do worse than `Crash`).

### StoreAndScan

The actions of `BeakStorage` twice, over one `disk`, `tainted`, `origin` and
`promised`: one instance stores, one prunes or checks. `safe` is a history
variable: what could be restored when the scan began and is not discarded.
The assumptions on points, tars and the layout are those of `BeakStorage`.
Two stores at once are not modelled: `disk` has one state for a name, while two
writers may hold handles to different files of the same name. The names of its
specification begin with `Pair`, so that it can be proved about beside `PruneKeep`.

### PruneKeep and Calendar

`AddPointInTime` is one call of `addPointInTime` with the loop around it in
`beak_prune.cc`, from the oldest point to the newest; `Refuse` is its refusal of
points in the future. Ages are in seconds, rounded, as `PruneImplementation`
computes them. `Store` adds points in any order, since the time of a point is the
newest mtime of the origin and not the clock. `Calendar` works on ticks, so that
the same definitions serve a day of two ticks in `CalendarWalk`, a day of four in
`MCPruneKeep`, and any other number in the proofs.

### VirtualTar

A tar is a sequence of entries, an entry a header and the size of a file; a byte
is known by the entry (or part) it belongs to and its place in it, so that a byte
that is lost, doubled or moved is a different result. The variables are those of
`TarFile` (`contents`, `offsets`, `current_tar_offset`, `layout` for its four
sizes), the storage, and the arguments of the call that runs (`from`, `want`, `buf`).

| Actions | Code |
|---|---|
| `addEntryLast`, `FixSize` | `TarFile::addEntryLast`, `fixSize` with `splitParts_`, as `groupFilesIntoTars` calls them |
| `AcquireBytes`, `WriteBytes`, `NextPart`, `EndWrite` | the loop of `createFile` over buffers, and the loop of `BeakFS::recurse` over parts |
| `CopyPartHeader`, `CopyEntry`, `CopyPadding` | the three branches of the loop of `readVirtualTar` |
| `copy`, `CopyFails` | `TarEntry::copy`, and the same with a read that fails |
| `StartRead`, `ReadPart`, `EndRead` | a read of a mount (`readCB`) or of a restore (`extractFileFromBackup`), through `readParts` and `findPartContainingOffset`, or straight from the tar if it has one part |

The files of the origin do not change here, and the storage keeps what was written;
the other cases are those of `BeakStorage`. But reads of the files may fail, and work
again (`Readability`): `TarEntry::copy` prints a `pread` of -1 and adds it to the bytes
copied (`CopyFails`). If a header came before, the copy ends a byte early, and the byte
is filled with a zero, as it was. If not, the copy comes back with nothing, the loop of
`readVirtualTar` asks again, and the last byte of the buffer has become a zero. With
headers that byte is a filling or the end of a header, always a zero already; in a tar
without headers it may be the last byte of the file before (`spoilt`, a history variable).
A `write` takes the whole buffer: one that is cut short would make the next copy begin
inside a block, for which `TarEntry::copy` is not made (hazard at `tarentry.cc:238`).

### RestoreIndex

The tree is fixed by the constants: the paths of the backup, which of them are
directories, which directories have an index file (`StorageDirs`), and the hard
links. `Listing(s, p)` is how often the index file of `s` lists `p`. It is what
`addEntriesToTarCollectionDirs` and `fixHardLinks` make of the tree: an entry is
listed by the nearest storage directory above it; a hard link whose target is in
the tars of another storage directory is listed by the nearest one above both
(`CrossLinks`, `LinkHome`), with copies of the directories on the way
(`CopiedWith`). So a directory may be listed twice, and by two index files.

| Variable | Code |
|---|---|
| `entry` | the map `entries_` of `PointInTime`; a `blank` entry is one made by `loadGz` for the directory of an entry that was read, with no attributes of its own |
| `linked` | the vector `dir` of the directory a path is in, as a count |
| `loaded` | `RestoreEntry::loaded` |
| `gz` | the map of index files, filled from the root index file (`hasGzFiles`, `getGzFile`) |
| `gzRead` | `loaded_gz_files_` |
| `call`, `at` | a callback, and the variable of the loop of `loadCache` |
| `stack`, `done`, `seen` | the recursion of `RestoreFileSystem::recurse`, and what its callback was given |
| `failed`, `missed`, `known` | history: index files that could not be read, or not to the end; files not found for now; directories the kernel has found |

| Actions | Code |
|---|---|
| `loadBeakFileSystem` | the root index file, and the tars it names |
| `Call`, `findEntry` | the start of each callback: `findEntry`, and `loadCache` step by step |
| `getattrCB` | the answer of `getattrCB`; the lookups of `readlinkCB` and `readCB` are the same |
| `readdirCB`, `FillDir`, `ListDir` | `readdirCB`: the entry, `loadCache` if it is not loaded, the list |
| `loadGz`, `ReadIndex`, `CutIndex` | `loadGz` and the reader of `index.cc`, to the end or not |
| `StartRecurse`, `recurseInto`, `LeaveDir` | a pass of `recurse`, with its `loadDirContents`, depth first |

All callbacks take `global`, so a call runs from its lookup to its answer with no
other between; the steps of the walk are there for its termination and for the
proofs. The kernel asks for a path only after it has found the directory the path
is in (`known`). `loadBeakFileSystem` also gives the root the newest mtime: that is
data, left out.

### BackupScan

A path is a sequence of names, a size a number of blocks. `Inputs` are the origins,
filters and triggers. The walk (`addTarEntry`) takes the entries one at a time, every
pass after it is one action, in the order of `scanFileSystem`:

| Actions | Code |
|---|---|
| `addTarEntry`, `EndWalk` | the callback of the walk, filters, what is passed over, and the check for times in the future |
| `findHardLinks` | the first name of an inode is the file, the others are links to it |
| `findTarCollectionDirs` | which directories become storage directories, from the deepest up, sizes being taken away from all above |
| `pruneDirectories` | what is left out of the lists |
| `addDirsToDirectories` | safe paths, and the nearest storage directory of each |
| `addEntriesToTarCollectionDirs`, `fixHardLinks` | who lists an entry, and where a link goes whose file is elsewhere |
| `groupFilesIntoTars` | how many tars of each size, the tar of each file by the hash of its name, and the index file of each storage directory |
| `Touch`, `ScanStep` | the user changes a file, and the origin is scanned again |

A tar is identified with the set of names, sizes and times in it, which its name
hashes. `SafeName` and `HashOf` are constants, so that two directories can have one
safe path and two files one hash.

### OriginRestore and TreeDiff

`dest` maps a path to kind, permissions, time, content and inode; all names of an inode
change together (`Changed`), and a name that comes or goes stirs the time of its
directory. `StartRestore` is the comparing walk, with `checkStat` for each entry and the
decision that nothing has to be done; `NextPass` the loop over the five walks. Within a
walk each file goes through steps of its own: `SkipFile`, `ChmodFile`, `CreateFile`,
`FillFile`, `WriteFails`, `Stamp`; `SkipFifo`, `CreateFifo`, `FifoIsThere`; `SkipLink`,
`DeleteLink`, `CreateLink`; `SkipHardLink`, `CreateHardLink`, `HardLinkFails`, and `Die` for
its `error()`s; `SkipDir`, `ChmodDir`. A command can be killed between any two (`Crash`)
and given again with or without `--forceoverwritefiles`. `mkDirpWriteable` is the function of
`filesystem.cc`, with the files it deletes and the permissions it changes.

A path is the sequence of its names. A directory has no inode in the model, since it has one
name; the names of anything else are those of its inode (`Names`), and `IsTree` says that
they agree. `Handled` gives the entries of a walk and `Orders` the orders it may come to them in:
`recurseInto` comes to a directory after all that is below it, and to files after the
directories beside them (`After`); the order of siblings among themselves, that in which index files
listed them, is left open. `IsBackup`, `IsTree` and `Fits` are the assumptions on what is restored, and where:
the size of an entry is that of its contents, but for a hard link, whose size in the index file is
none of its own; a hard link has the permissions and the time of its file, since a scan has
seen one inode; fifos and directories have no contents.

What "restored" means needs three words of care, and `FinishedIsRestored` says them. A file that
had the size and the time of the backup is taken to be as it is there, whatever is in it, and what is
linked to it is linked to that (`Contents`). A file in the place of a directory passes for the
directory if its time and permissions are right. And names that were one file before, and are
not in the backup, are written through each other (`LinkedAsInBackup` excludes them).

`TreeDiff` is `DiffImplementation::diff`. It follows a hard link on the new side into the
map of the old one, as the code does, and this enters the path there (`Entered`).
What is restored where is excluded: a symbolic link, fifo or directory that has
to go in a place where something of another kind is, but for a file in place of
a directory.

### RemoteStorage

`remote` and `local` map a file to how much of it is there, `cache` is the set of index
files that are cached as they were listed. `matches` says which files a path matches when
rclone reads it as a pattern: what is sent or deleted is given to it with `--include-from`,
unanchored and unescaped (`storage_rclone.cc:199`, `286`). A path with brackets in a directory's
name does not match itself; the path of a tar at the root matches a tar of that name in any
directory. `ToSend` and `ToDelete` are what such a call then works on. `Namings` are the ways
the files may be named; an index file at the root is matched by its own name only. A listing gives the
files of the right size (`Listed`), with rsync only those `rsyncListBeakFiles` would
accept (`Listable`), and perhaps not all of them (`Listings`).

| Actions | Code |
|---|---|
| `StartStore`, `SendFile`, `SendBreaks`, `FinishStore` | `storeBackupIntoStorage`: the work list, then one call of rclone or rsync, file by file in any order, from a view of the backup |
| `StartPush`, `StoreLocally`, `StartCopy` | `beak_push.cc`: the local store, the comparison of the origin, then `copyBackupIntoStorage` with what is in the local storage, whatever became of it |
| `StartScan`, `LoadIndexes` | `CacheFS::loadDirectoryStructure`, and `fileCached` once more for each index file that is read |
| `DecidePrune`, `Decline`, `DecideFsck`, `DeleteFile`, `DeleteBroken`, `FinishScan` | as in `BeakStorage`, on the listing |
| `SenderKilled`, `DeleterKilled`, `Listings` | `invoke` returns `OK` if the child was killed by a signal |
| `Crash`, `OriginChanges` | kill or `error()`; the user |

`mishap` is a history variable for the three things that do harm the storage (see
Findings): a deletion after an index file of a kept point could not be read, or after a
listing that was cut short; a push that replaces a file with one it failed to
write; a sender that was killed. rsync sends into a temporary file, so it leaves no
part of a file; what else it leaves depends on no choice of beak.

`PromisedIsThere` is about the backups that patterns cannot harm (`Harmless`): each file matches
its own path (`Sendable`), and no other path (`Alone`). `FsckOkMeansStored` needs the second. Neither
condition can be dropped: TLC then finds a store that sends nothing and ends well, and a prune that
deletes a tar it keeps (see Findings).

### Configuration and CommandLine

`Configuration` keeps the rules under the keys of the map they are in, apart from the
names they have, and the storages of a rule the same way, since an edit changes the
one and not the other. `Real` is `realpath`: a rule is looked up by the real path of a location, and
what that is compared with is the path that was given. `load` is `parseRow` over the lines, one after
the other (a function of how many have been read; `Rejected` are its errors), `Written` what `save`
writes. A `Crash` during a save leaves any beginning of it. `save` does not look at the result of
`createFile`, and reads back what is there (`FinishSave`): the old file, a beginning of the new one,
or, since a short write begins anew with the whole buffer, a beginning with the whole behind it
(`Leaves`). A rule that was cut off before its origin, and is shown or written, ends the program
(`HaveOrigins`), and so does a rule in the hands of its menu that is no longer there. Each menu choice is an
action: `NewRule`, `DiscardNewRule`, `DeleteRule`, `RenameRule`, `CopyRule`, `EditField`,
`AddStorage`, `EditStorage`, `EraseStorage`, `SaveRule`, `LeaveRule`.

`CommandLine` extends it. `StartCommand`, `ReadOption`, `ReadValue`, `EndOptions`,
`ReadArgument` and `EndOfLine` read a line word by word, by the tables of `beak.h`
(`ExpectedFrom`, `ExpectedTo`, `CommandOptions`); `parseArgument` is the function of
`beak_commandline.cc` with its order of lookups; `Run` does what the handler does to
directories, `RunConfig` goes to the menus, and `Abort` is an assertion or a crash. `Writes` is where
a handler writes: storages behind links, for a push the rule's local storage as well
(`LocationsOf`), for the camera import its archive, for a restore its target. `opts` are the options
in force, not those that were read: what a `useconfig` in two words, a `background` or a
`deepcheck` sets is looked at nowhere (`Obeyed`, `NeverRead`).
`answers` is what the user says when asked. `PathsAssumption` says that the words of a line
include all locations, names and remotes, and that none of them is the empty argument,
`OptionsAssumption` that no option has an empty name, `LinksAssumption` that a storage that is a link
leads to something. A word of `written` was meant as an option:
it was read as one, or there is no file, rule, storage or remote of its name (`NamesNothing`);
a user who has a rule named `--dryrun` may well have meant the rule. `fs` says of a path whether it is empty,
has an index file, or other files.

### CameraImport

The phone and its user (`Take`, `Delete`, `Unplug`, `Plug`), what makes the client fail though
the phone is there (`Refuse`, `Allow`: a directory that is missing, a full disk, a path with
a blank), and the program:

| Actions | Code |
|---|---|
| `Start`, `Pwd`, `Device` | the start, and getting access, up to a bound of attempts (`aftmtpReEstablishAccess`) |
| `ListFiles` | `aftmtpListFiles`, repeated until the client does not fail |
| `Compare` | `check_if_already_exists`, and the cache |
| `Fetch`, `FetchAgain`, `PrimeFiles` | `aftmtpFetchFiles`, each file until the client does not fail |
| `ScanCache` | `scanFile` over the whole cache: files of known types (`Known`), under the names `normalizedFile` makes from the date of the metadata, the path or the file, the size and the metadata |
| `Copy`, `Create`, `CopyEnds`, `CopyFails`, `Utime` | `copy_local_backup_file`: compare permissions, size and time (`UpToDate`), delete what is there, create, write, stamp; neither a failed `createFile` nor a failed `utime` is looked at |
| `Finish` | the end with its message |

A file is a photo or a part of it; in the archive it is stamped once it has the photo's time
(`Kept`). `Masked` says that the umask takes permissions from the files of the archive, so that
none of them is ever up to date. `Killed` is the client killed by a signal, which counts as a
success. `ever` is a history variable that says one was, `cut` that one was in this run or
that a copy failed in it, `said` that beak ended with its message.

## Runs

| Run | Instance | What it shows |
|---|---|---|
| `storage` | three points in time, three tars, every neighbouring pair of backups shares a file and differs in one | `PromisedIntact`, `PruneLeavesOnlyKept`, `FsckLeavesNoBrokenPoint`, `ImplementsPromise`, `EndsUnlessStalled` |
| `store_and_scan` | two points, one shared tar, one tar of the first point only | `RestorableSurvives` |
| `calendar` | every half day from 1970 to 2105 | `MonthsAreCivil`, `WeeksStartOnMonday` |
| `prune_keep` | nine instants around the borders of a day, a week and a month; two keep rules | `KeepsByRule`, `NothingForgotten` |
| `virtual_tar` | eight kinds of entry, up to two in a tar; blocks of 2, buffers of 4, parts of 6 and 8 bytes; all paddings; with and without headers; reads that fail and work again at any time | `PartsAddUp`, `PartsMakeTheTar`, `ReadsBack`, `CopiesEnd` |
| `restore_index` | a root with storage directories `a`, `a/b`, `a/g` (empty) and `c`, a plain directory `c/e` with a hard link to a file in `a/b`, two names that do not exist; up to two index files that cannot be read | `ReaddirIsExact`, `NoFalseAbsence`, `PassIsComplete`, `DirOnStackIsFixed`, `CallsAreAnswered` |
| `backup_scan` | directories `a/b/c` and `d`, of which any may become storage directories by size, trigger or depth; big and small files in all combinations, hard links across and within them, filters, marked and colliding directories; each origin scanned, changed and scanned again | `StorageDirsAreNeeded`, `PointIsOrigin`, `EveryFileIsListedOnce`, `IndexKnowsAllBelow`, `TouchIsLocal` |
| `restore` | a read only directory with a file and a hard link to it, another hard link beside it, an empty directory, another file, a symbolic link, a fifo; twenty directories to restore into | `NewerIsKept`, `FinishedIsRestored`, `SecondHasNothingToDo`, `EmptyDiffMeansSame`, `NamesChangeWhereWritable` |
| `remote` | two points in time that share a tar, the first with one of its own; rclone and rsync; paths that match only themselves, one that matches nothing, and one that also matches the shared tar | `PromisedIsThere`, `FsckOkMeansStored`, `CopyIsLocal` |
| `command_line` | two lines of up to three words, out of ten commands, eight paths and seven options; a configuration of one rule with a local storage, three locations of which one is a link to another, up to three edits | `OneRulePerLocation`, `OptionsAreHonoured`, `SaveIsLossless`, `FilesStayFiles` |
| `camera` | three photos, two of them videos of one name and kind, the metadata of one telling another day, and one of an unknown type; three runs, three faults | `DoneMeansArchived`, `PartsAreOfGonePhotos`, `ArchiveIsKept`, `OnlyRefusalsHang` |
| `storage_prune` | that of `storage` | finds a claim of the documentation violated, see Findings |

Two more instances are kept beside these, for cases that theirs do not have:
`MCRestoreIndexLinks.cfg` (two hard links that have moved, one of them listed below the
root; two minutes, the properties of `restore_index`) and `MCCameraImport_alike.cfg` (two photos
that look the same, and an umask that takes permissions; the properties of `camera` and its type
invariant). All hold.

Bounds. Three points are the least that have an older, a kept and a newer backup
at once, with a crashed store on top of them; each file of the instance is shared
by some and not all of them, which is what makes a deletion dangerous. There is
no bound on the number of commands, crashes and failed writes: the state space is
finite without one. Two points are enough for `StoreAndScan`, where the scan must
see one backup and a store add another. The walk of the calendar ends with 2105, so
that it has 2100, a year without a leap day. The instants of `prune_keep` are two of
one second, of one day, of one week and of one month, and their neighbours across the
border. `virtual_tar` has buffers that are no divisor of a part, files that end on
and inside a block, a header of two blocks, and tars that fit one part, fill
several exactly, and leave a rest. The tree of `restore_index` is the least with a
storage directory in a storage directory (which is blank until the one above is
read), one with an empty index file, and a directory listed by two index files;
`MaxFailed` = 2 lets the index files on both ways to a path fail. There is no bound
on the number of calls and passes.

In `backup_scan` three levels are the least at which a size is taken away from two
directories above, and a link can move past one storage directory to another; sizes
are such that a directory is over the trigger with a file of its own, with one of a
directory below, or not at all. The backup of `restore` has each kind of entry once,
and a directory that must be made writable for two of them; the directories have each
difference `checkStat` tells apart, contents of the same size, files in place of directories, and
links that are one file there and two in the backup, or the other way round. There is no bound on commands in `restore`
and `remote`. In `remote` the shared tar is what a prune of one point must leave, and the
one of its own what it may take. A second line of `command_line` meets the
configuration, directories and storage that the first has left; three edits suffice to rename a
rule or copy it, change a location and save. In `camera` one attempt stands for
twenty, and three faults allow for a broken transfer, a crash while it is mended, and a
killed client, or for a copy that fails, a crash before `utime`, and a client that fails in the
run after them. In `remote` the tar of its own is the one whose path matches nothing or too much: it is
what a store must send and what a prune deletes.

`CHECK_DEADLOCK FALSE`: a storage with no points and an origin that has reached
the last one may stand still, the calendar walk ends, all backups may be stored and
the clock be at its last instant, a tar whose entries are empty is not stored, a mount waits for calls, a remote storage
that is empty has nothing to list once the origin is at its last point, and the bounds on
lines, edits, runs and faults end the others. In
`restore_index` a deadlock would be a call that is not answered, which
`CallsAreAnswered` excludes. `backup_scan` and `restore` check for deadlock.

Fairness. `BeakStorage` assumes weak fairness of the steps of a command that runs:
it is one process that waits for no other. Nothing is assumed of the user, the
origin, crashes, or the start of a command. `VirtualTar` assumes the same of writing
and of reading, each a loop in one thread, and `RestoreIndex` of a call that has the lock
and of a pass of a restore. It is not assumed that anybody calls. `OriginRestore` and
`CameraImport` state it of the program, one thread; nothing of the phone or its user:
that a phone which is never plugged in again is given up is a result. Nor is it assumed that a
file that cannot be read, or a client that fails, ever works again; where a property needs it
(`CopiesEnd`), it says so. `BackupScan`,
`RemoteStorage` and `CommandLine` have safety properties only, and no fairness.

## What the properties say

- `PromisedIntact`: a backup whose store ended without a failed write and without
  a changed origin can be restored until a prune discards it, whatever is
  stored, killed, pruned or checked afterwards. It takes the remains of one
  command, the decision of a second and the write of a third to violate it.
- `ImplementsPromise`: the files refine `BackupPromise`. A backup here is one whose
  files are all there, promised or not, so this includes backups completed by
  accident.
- `PruneLeavesOnlyKept`, `FsckLeavesNoBrokenPoint`: what a command has cleaned
  is clean, in terms of what it has read.
- `EndsUnlessStalled`: commands end, after any crashes and failed writes of earlier ones, except
  a store that cannot read an origin file, changed or not; without the exception (`CommandEnds`)
  it fails, see Findings.
- `RestorableSurvives`: prune and fsck without a lock do not harm older backups
  when a store runs beside them. (The backup that is being stored may be harmed:
  its files look superfluous. The property does not hold for it.)
- `KeepsByRule`: the one pass with maps computes the meaning of the keep rule.
- `NothingForgotten`: pruning early or often keeps all that a first prune of every
  backup ever made would keep now. It relates the storage to its whole history.
- `PartsAddUp`, `PartsMakeTheTar`, `ReadsBack`: the writer and the reader of the
  parts, two calculations in different files, are each other's inverse; the bytes
  of the parts are the tar; a piece of a file is that piece.
- `CopiesEnd`: the loops of `readVirtualTar` and `readParts` end if from some time on the files
  can be read, whatever failed before; neither is ever given nothing for ever.
- `ReaddirIsExact`: a listing has every file and directory once, whatever was
  looked up, listed or failed before it; if the index file could not be read it is
  empty, never half of it (directories with a moved hard link excepted, which may
  be listed twice or in part); and what it shows has attributes.
- `NoFalseAbsence`: the mount says that there is no such file only of a path that
  is not in the backup, or whose index file could not be read.
- `PassIsComplete`: each pass of a restore is given every path it can reach, and
  none twice (again but for moved hard links).
- `DirOnStackIsFixed`: `recurse` iterates over the vector of a directory while it
  loads those below; the vector does not change then, neither in a first pass nor
  after failures.
- `CallsAreAnswered`: the walk of `loadCache`, which ends only at an index file that
  has an entry, always comes to one.
- `StorageDirsAreNeeded`: the selection of storage directories, done while sizes are
  changed under it, is what one would say of the result: a directory is one when it has to be
  or when what would be left in it is too large.
- `PointIsOrigin`, `EveryFileIsListedOnce`, `IndexKnowsAllBelow`: the index files, read back
  the way a restore does, are the scanned tree, hard links included; no entry is lost or
  doubled on its way between lists; an index file names all that is below it. The second is
  what `RestoreIndex` assumes of `Listing`.
- `TouchIsLocal`: one changed file changes the names of the tar it is in (or was) and of
  the index files above it, and of nothing else, as long as the number of tars stays.
- `NewerIsKept`, `FinishedIsRestored`, `SecondHasNothingToDo`: after any history of
  restores, killed or not, the user's newer files are untouched; an end without an error
  means the backup is there; and the next restore agrees. A second name of a file, by which it
  is written to, permissions of a file that is written over, and contents that size and time
  do not tell apart are excepted: there the code does otherwise.
- `NamesChangeWhereWritable`: a restore never relies on a permission it does not have.
- `EmptyDiffMeansSame`: diff and restore, two comparisons in different files, agree.
- `PromisedIsThere`, `FsckOkMeansStored`: the promises of a local storage, for a remote one,
  where any order of transfer is possible and the knowledge is a listing and a
  cache, and paths are patterns. fsck's OK is stronger here than for a local storage, since a
  listing has sizes.
- `CopyIsLocal`: after "It is now safe to work in your origin directory" it is.
- `SaveIsLossless`, `OneRulePerLocation`: what is shown, written and read back are the same
  rules, and no two of them prune one storage, over all histories of edits. Locations that are
  links are excepted, and a save whose write failed; what such a save leaves in the file and in
  memory still has no storage in two rules.
- `OptionsAreHonoured`, `FilesStayFiles`: no line, however its words are ordered, loses a
  dry run, unless it is the name of something, or turns a directory of the user's into a storage
  that no rule has as one. The three options that nothing obeys are excepted.
- `DoneMeansArchived`, `PartsAreOfGonePhotos`, `ArchiveIsKept`: "All files imported" is true of
  the photos of known types, over retries, crashes, and copies that failed in earlier runs; nothing
  half or other takes their place. Photos that look the same to beak (one size and kind), and what
  failed unnoticed in the same run, are excepted (see Findings). A whole photo is removed from
  the archive only if it was not stamped, or looks different for its permissions, and while there is a
  whole in the cache to write again; a crash just then leaves the archive without it until the next import.
- `OnlyRefusalsHang`: the program ends, unless it waits for a photo that is gone, or for a file or
  a directory the client fails for.

## Findings

`storage_prune` ends with a behaviour in which prune counts an interrupted backup as the newest
and discards the last one that can be restored (`prune.cc:153`); `PROJECT.json` quotes
the claim. The following configurations are kept beside the runs. Each checks one
claim of a document or message that the code does not keep, and TLC shows how:

| Configuration | Claim | What happens |
|---|---|---|
| `MCBeakStorage_fsck.cfg` | `FsckOkMeansComplete` | fsck lists a point in time as OK when a tar of it was cut short: `beak_fsck.cc:76` compares names; its help text speaks of wrongly sized files |
| `MCBeakStorage_store.cfg` | `StoreMeansComplete` | a failed write of a tar is dropped, and a store reports nothing (`tarfile.cc:539`) |
| `MCBeakStorage_ends.cfg` | `CommandEnds` | a store whose origin shrinks under it, or that has no permission to read a file, reads for ever and does not get to its warning (`tarfile.cc:502`) |
| `MCVirtualTar_fails.cfg` | `StoresTheTar` | in a tar without headers (`--tarheader=none`) a read that fails and then works has made a zero of the last byte of the file before (`tarentry.cc:245`); the store reports nothing |
| `MCRestoreIndex_lookup.cfg` | `LookupFindsFile` | a path below two storage directories is not found in a mount until the directories above it have been listed: its directory has a blank entry, made by its own index file, and the lookup ends there (`restore.cc:391`) |
| `MCBackupScan_safe.cfg` | `EntriesAreBelow` | two directories with one safe path (`a/b/c` as a storage directory beside `a/b_c`): the entries of one go to the tars of the other (`backup.cc:281`) |
| `MCOriginRestore_uptodate.cfg` | `UpToDateMeansRestored` | "No restores are needed" while an empty directory is missing: only updated directories count, not new ones (`beak_restore.cc:80`) |
| `MCRemoteStorage_prune.cfg` | `PruneKeepsWhatItKeeps` | an index file that could not be fetched counts as one that lists nothing: prune deletes the tars of a point that it keeps (`restore.cc:942`) |
| `MCRemoteStorage_rsync.cfg` | `StoredIsFound` | what is stored with rsync is never found again: a listing accepts an index file only if it is as large as its name says, and the name says 0 (`storage_rsync.cc:95`) |
| `MCCommandLine_point.cfg` | `RestoresPointAsked` | a restore takes the newest point, whatever point follows the storage: the handler reads it from the other argument (`beak_restore.cc:36`) |

Met while modelling, and excepted in the properties: a child that is killed by a signal
counts as a success (`system_posix.cc:348`), so that prune or fsck may act on a listing
that was cut short; a push that failed to write a local file replaces the remote one with
it (`storagetool.cc:459`); a file with a second name is written through it by a restore,
and one that is written over keeps its permissions; a photo whose size and kind are those of
another one of that day counts as imported (`beak_cameramedia.cc:41`), and one deleted from the phone
after it was listed is fetched for ever (`storage_aftmtp.cc:206`); a rule copied with its
storages, or renamed onto another key, can make a saved file that does not load
(`configuration.cc:384`), after which beak exits.

More of these, in the parts that call other programs or write small files:

- rclone takes paths for patterns (`storage_rclone.cc:199`, `286`). Where a directory of the origin has
  brackets in its name, a store sends none of the files below it, and ends well. If a directory of the origin
  is a copy of another one, its tar has the same name, and a prune that deletes the one nearer
  to the root deletes the other with it, though a point that is kept requires it.
- A location that is given by a link, or relative to where beak was started, is stored as it was given, and looked up by its real path
  (`configuration.cc:551`, `979`): it is never found again and may be in two rules.
- A save that fails prints "Configuration saved!" (`configuration.cc:408`), and goes on with what is in the
  file, perhaps nothing; a `write` cut short is repeated from the beginning of the buffer
  (`filesystem_posix.cc:475`).
- `--useconfig file` is accepted, and the usual configuration is used: only `--useconfig=file` is looked
  for (`beak_commandline.cc:301`). `--deepcheck` and `--background` are accepted and do nothing.
- beak-media ends well over photos of types it does not know (`beak_importmedia.cc:63`), and fetches
  them again in each run unless the cache has them. A copy that fails leaves a part with the
  time of the photo, and beak ends well (`storagetool.cc:210`); the next import replaces it. After a crash
  before `utime` the next import deletes a whole photo and writes it again. A client that fails, for
  whatever reason, is called again for ever, as long as the phone answers
  (`beak_cameramedia.cc:104`, `storage_aftmtp.cc:217`).

## Proofs

All theorems hold for every value of the constants that meets the named
assumptions of the module; nothing is assumed beside them.

`BeakStorage_proofs` (from `PointsAssumption`, `TarsAssumption`, `LayoutAssumption`,
`NoRevertAssumption`, `NoneAssumption`):

- `TypeCorrect`: `Spec => []TypeOK`.
- `PromiseKept`: `Spec => []PromisedIntact`. `PromisedIntact` is not inductive. `IInv`
  adds `StoreInv` (what a store has visited is stored unless a write failed, and
  it never has a stored file in its hands; needed for `FinishStore` and for every
  write), `TaintIsPast` (a spoiled file belongs to no backup of the origin now or
  later; with `NoRevertAssumption` the reason why `FillFile` harms no stored
  backup), `ScanInv` (a prune or fsck has found every intact point and read all
  that it lists; truncated index files are those of points that are not intact),
  `DeleteInv` (what is going to be deleted belongs to no intact point that is
  kept), and `IdleInv`.
- `StorageKeepsItsPromise`: `Spec => ImplementsPromise`. Every step maps to a step
  of `BackupPromise` or a stutter: a store only adds intact points
  (`StoreLosesNothing`), a delete only takes condemned ones (by `DeleteInv`).
- `PruneCleansUp`: `Spec => PruneLeavesOnlyKept`, and `FsckCleansUp`: `Spec =>
  FsckLeavesNoBrokenPoint`. Both say what is true when the last file has been deleted, so
  `EndInv` says of every moment before it what is left to do: what is not on the work
  list of a prune is required (`PruneEndInv`), a fsck found every index file
  (`FsckFoundInv`), and its points are complete and stay so, or are broken and on
  the list (`FsckEndInv`). `BrokenMeansMissing` is the decision, `DeleteFileKeepsEnd` the step.

`Prune_proofs`, for `StoreAndScan` (from `TarsAssumption`, `LayoutAssumption`, `NoneAssumption`; any
interleaving of the two processes):

- `PairTypeCorrect`: `PairSpec => []PairTypeOK`.
- `NoLockNeeded`: `PairSpec => []RestorableSurvives`. `WriterInv` says that the file a store has in
  its hands is not a stored one, though the other process may delete it at any moment;
  so no step of a store takes anything from a stored backup (`WriterStepSpares`).
  `ScannerInv` says that a prune or fsck has found each safe point and read all it lists, however
  much has been stored since, and that nothing it is going to delete is of a safe point
  (`SafeIsRequired` is the decision). What is read is not what is there when it is used: the
  invariant is about the safe points only, which is as much as stays true without a lock.

`Prune_proofs`, for `PruneKeep` (any clock, any set of instants, any keep rules and lengths of a
day, week or month):

- `PruneFollowsRule`: at the end of a pass the maps hold the last point of each
  bucket among those young enough. The invariant `AddInv` says so of the points
  given so far; `PutMax` is the step, `DivMonotone` and `AgeMonotone` the
  arithmetic under it.
- `PruneForgetsNothing`: with `NothingForgotten` itself in the invariant, by
  `KeptLater` (a later clock keeps less) and `KeptAmongFewer` (a point that is last
  of its bucket is last among fewer).
- `NewestIsKept`: what `BeakStorage` assumes of prune as `MayKeep`.

The same module has the calendar under it (any number of ticks in a day, any year to end with):

- `MonthsAreCalendarMonths`: `WalkSpec => []MonthsAreCivil`. `DateInv` says that the day the walk
  is at has the number that the civil date beside it has, counted in years that begin with March
  (`Date`). `YearOfDay` and `MonthOfDate` are the other direction: what the divisions of
  `to_month_identifier_since_epoch` make of such a number, by years of an era (`YearLength`,
  `EraLength`) and months of a year (`MonthLength`).
- `WeeksAreCalendarWeeks`: `WalkSpec => []WeeksStartOnMonday`, from `WeekInv` in the same way.

`VirtualTar_proofs` (any sizes of block, buffer, part, header and entry that meet the eight
assumptions of `VirtualTar`):

- `PartsAlwaysAddUp`: `Spec => []PartsAddUp`. The layout is a function of the tar's size once it
  is fixed (`LayoutIsFixed`), and `SplitPartsCover` is the arithmetic of `splitParts_`
  against `findPartContainingOffset`, from `DivMod`.
- `RestoreReadsBack`: `Spec => []ReadsBack`. `TarByte(x)` says what the byte at `x` of the tar
  is, `PartByte(p, o)` what the byte at `o` of a part is. `TarInv` says that entries follow each
  other in whole blocks; `BytesInv`, that the storage, the buffer of a copy (`StorageInv`, `CopyInv`)
  and the buffer of a read (`ReadInv`) hold those bytes as far as they have come. A copy that stops
  before the end of a part stops at the end of a block (`UpTo`), which is what `TarEntry::copy`
  relies on. `BorderInv` says that the byte a read that fails makes a zero of is one already, but in a
  tar without headers (`NoSpoiling`, `FailedStep`). `CopyIsRight` is `copy`, `TarIsCopied` a copy out of the tar, `PartIsPiece` and
  `PieceIsInPart` the two directions between a part and the tar, `StoredBytes` a read.
- `StoreMakesTheTar`: `Spec => []PartsMakeTheTar`, from `BytesInv`: `TarIs` and `JoinedIs` say
  what the flattened sequences of the entries and of the parts are, by the least length
  at which they would be something else (`FlattenIs`, `SmallestOf`).

`RestoreIndex_proofs` (any tree, any hard links, any number of failures; from
`TreeAssumption`, `HomeAssumption`, `LinkAssumption`, `NoneAssumption`):

- `TypeCorrect`: `Spec => []TypeOK`.
- `MountShowsBackup`: `Spec => []ReaddirIsExact`. The answer of `readdir` depends on
  every call before it, so `IInv` says of all directories what has been put into
  them: `LinkInv` (a plain directory holds what its index file lists if that was
  read to the end, and nothing otherwise), `ShownInv` (what is in a directory has
  attributes), `RootInv` (an index file was named by the root index file, or that
  one failed), `FillInv` (a walk up has not passed the index file of the directory
  without having tried it) and `CallInv`. A plain directory is one that only its own
  index file lists anything in, once. `LoadKeeps` is the step for one index file;
  `WalkKeepsInv`, `CallKeepsInv` and `PassKeepsInv` are its users.
- `LookupIsHonest`: `Spec => []NoFalseAbsence`. `CallsInv` adds `EntryInv` (no index file that was
  read to its end lists a path without an entry), `LinkedInv` (a directory holds what those
  files list), `KnownInv` (above a storage directory the kernel knows, every index file was
  tried) and `LookupInv` (a walk up has not passed the nearest one without trying it). The
  lemmas about the tree are proved by induction in terms of sets (`TreeInduction`, from
  `SmallestSet`): what lists a path is above it (`ListedIsBelow`, `HomeIsNearest`), and a directory
  that is copied for a moved link is on the way to it (`CopiedIsBelow`).
- `RestoreSeesBackup`: `Spec => []PassIsComplete`, and `IterationIsSafe`: `Spec =>
  DirOnStackIsFixed`. `PassInv` says that the stack is a path down the tree, the index files of
  whose directories were tried (`StackInv`); that everything in a directory it has left was
  given to the callback (`GivenInv`); and nothing before it has entered the directories above,
  nor twice (`OnceInv`). What is loaded later is listed by index files further down and so
  leaves the directories on the stack as they are: the loop over their vectors is safe.

`OriginRestore_proofs` (any backup, any directory it fits, any order of siblings; from
`UniverseAssumption`, `InputsAssumption`, `CutAssumption`, `NoneAssumption`, `NowAssumption`):

- `TypeCorrect`: `Spec => []TypeOK`, with `IsTree(dest)` in it: the directory stays a tree whose hard
  links agree, whatever is made, deleted, written through another name, or left by a crash.
- `NewerStays`: `Spec => []NewerIsKept`. The comparing walk decides, and five walks later the
  file must still be as it was. `KeptInv` says that its entry in the plan says so, and that no other
  name of its inode has appeared (`AddsNoName`) until the walk of the hard links, which makes one
  only for a file of the time that the backup has, so that the stamp on it changes nothing.
  `WalkInv` says that a walk handles its own entries only, `PlanInv` that what the plan calls
  present is present. `EarlyStep` is the step of the first three walks, `LateStep` that of
  the last two; `MkDirpIs`, `WithIs`, `WithoutIs` and `ChangedIs` say what the operations on a tree do.
- `WritesWhereAllowed`: `Spec => NamesChangeWhereWritable`, since each step that adds or takes a name
  leaves its directory writable (`Opens`): `MadeReady` for `mkDirpWriteable`, which makes the
  nearest directory writable and what is missing below it.
- `RestoreIsComplete`: `Spec => []FinishedIsRestored`, and `RestoreSettles`: `Spec =>
  []SecondHasNothingToDo`, both from `RestInv`. `Left(p)` says that a walk is still to come to `p`,
  `Waits(p)` that nothing has been done for it. What is not left is `Fine`, as the command is to
  leave it (`FineInv`), and each later step leaves it so: the work on one entry touches only what is above
  it and the other names of its file (`Leaves`, `Joins`; `WayStays` is the step), a directory comes after
  all that is below it (`OrderInv`), and the names of one file are those of one file in the backup
  (`NamesInv`). What waits is as it was when it was compared (`FilesWait`, `FoundInv`), so that a file
  may be left alone; a hard link that waits may have been written through its file (`LinksWait`).
  `BegunInv` says of the entry in hand how far it has come, and `TargetIs` what the file is that a
  link is made to or compared with. `OrderBegins` gets the order of a walk from `Orders`.
- `EmptyDiffLeavesNothing`: `Spec => []EmptyDiffMeansSame`. `EmptyDiffFromBackup` is the diff of the
  backup and the directory, `EmptyDiffToBackup` that of the directory and the backup, in which a hard
  link is followed to its file (`EmptyDiffOfFile`).

`RemoteStorage_proofs` (any points and tars, however they are shared, both programs; from
`PointsAssumption`, `TarsAssumption`, `PlainAssumption`, `NamingsAssumption`, `NoneAssumption`; the files may
be named in any way that leaves the index files to themselves):

- `TypeCorrect`: `Spec => []TypeOK`.
- `PromiseKept`: `Spec => []PromisedIsThere`. `IInv` adds `StoreInv` (a file of the point that is stored, and that
  its own path matches, is on the work list or on the remote, unless something went wrong; for a push the same of the local
  storage before), `ScanInv` (what a prune or fsck has read of a point is all of it, if it could
  be read; what was listed was there) and `DeleteInv` (what is deleted is of no promised
  point that is `Harmless`). `ToDeleteTyped` says that only what was to be deleted is, if it is `Alone`. `PruneSpares` and `FsckSpares` are the two decisions: a promised point
  was listed, so it was read or is a mishap.
- `FsckTellsTheTruth`: `Spec => []FsckOkMeansStored`, by `FsckKnows` and `DeleteInv`. It needs no
  exception for a listing that was cut short.
- `PushCopiesLocal`: `Spec => CopyIsLocal`.

`CameraImport_proofs` (any photos, names, dates and metadata, any number of runs, faults and
attempts; from `PhotoAssumption`, `AttemptsAssumption`):

- `TypeCorrect`: `Spec => []TypeOK`.
- `ImportedIsArchived`: `Spec => []DoneMeansArchived`. `ArriveInv` follows a listed photo of a known
  type on its way: it is still to be fetched, or whole in the cache, or being imported, or in the
  archive; and what is being copied is only gone from the archive until the copy ends.
- `PartsAreReplaced`: `Spec => []PartsAreOfGonePhotos`. `PartsInv` says that no part goes into the
  archive but under the name of the whole, which replaces it.
- `WholesAreKept`: `Spec => ArchiveIsKept`. By `NamesInv` a file of the archive is under the
  name made from it, or from its whole after a copy that failed or a crash, and the size is in the
  name, so what would be deleted is up to date, or was never stamped (`WholesStay`).

`CommandLine_proofs` (any names, locations, keep rules, options and words, and any
configuration file, well formed or not, any links; from `KeepAssumption`, `LinksAssumption`, `FilesAssumption`, `PathsAssumption`,
`OptionsAssumption`):

- `ArgumentsAreKnown`: `CommandSpec => []CommandInv`, the inductive invariant: a storage that was
  found for a word of the line is in a rule that was loaded, or was made for the word, and then
  is remote or in a directory that is empty or a storage already; and no menu is open meanwhile.
- `FilesAreNoStorage`: `CommandSpec => FilesStayFiles`, from it: `WritesInStorages` says
  of each handler where it writes, and `RulePlaces` that a push writes in the storages and the local
  storage of its rule.
- `NoOptionIsLost`: `CommandSpec => []OptionsAreHonoured`. `OptionsInv` says of prune, restore, fsck
  and push that what was written and not taken as a value is in force (`ReadIsObeyed`; but for the three
  that nothing obeys), or is the one option whose
  value comes next, and that none waits for its value when the handler is called. After the first
  argument an option is read as an argument, and `NothingIsRefused` says that these commands
  refuse one that names nothing: no lookup of `parseArgument` finds it, and none creates it.
- `LocationsAreApart`: `CommandSpec => []OneRulePerLocation`. `ConfigInv` says that
  the rules in memory are rules (`Shape`), and that no two storages of them share a location that
  is its own real path while a menu is open (`Apart`). A load ends in an error at a line that breaks this (`RowKeeps` is
  one line, `LoadKeeps` all of them); each menu choice keeps it (`EditKeeps`, `ChangeKeeps`, `SaveKeeps`).
- `SavesAreLossless`: `CommandSpec => SaveIsLossless`. What `save` writes is a sequence of parts,
  a rule each, and in these a storage each (`RuleParts`, `StorageParts`, in the order of some
  enumeration of the keys). `Follows` says what a reader has done after a number of lines, and
  `FollowsParts` carries it from part to part: `StorageRead`, `HeadRead`, `RuleRead` and
  `RulesRead` say what is read back from a storage, a head, a rule, and all of them.

Recursion. The functions these proofs are about (`load`, the recursive function under
`FlattenSeq`) are shown to exist before they are used (`ReadingExists`, `FlattenExists`), and what
holds of all their values is proved by the least number for which it fails (`SmallestOf`), since the
induction theorems of the library take an operator, which the provers cannot instantiate.

Only model-checked:

- `EndsUnlessStalled`, `CopiesEnd`, `CallsAreAnswered`, `OnlyRefusalsHang`: liveness under
  fairness is out of the prover's reach.
- All of `BackupScan`: its passes are folds over sequences that are sorted or filtered first,
  and the library has no facts about those folds.
- `VirtualTar`'s `TypeOK`, which its other theorems do not need, and the two remaining
  instances (`MCRestoreIndexLinks.cfg`, `MCCameraImport_alike.cfg`) of proved properties.

## Plan

What is above is done. What is left, in this order:

1. Proofs: what the passes of `BackupScan` keep, as lemmas pass by pass.
2. A module that composes `BackupScan` and `RestoreIndex`: a scanned tree is the tree a
   restore is given, in place of the assumptions `HomeAssumption` and `LinkAssumption`.
3. `PointNames` (`lookForPointsInTime`, `setPointInTime`): names of points of the same minute in
   a mount, `@n`, and references that stay valid while backups are added.
4. Two stores on one storage at once, which needs open files that are not names.
5. Keep rules as text (`prune.cc`, `configuration.cc`): parse, format, `subsetOf`.

## Not modelled

- The names of points, two stores at once, keep rules as text: planned.
- Restoring from a remote storage through its cache of tars, and several remote
  storages in one push: the same calls again.
- Media index and server: text and pictures made in one pass, with no state shared with
  backups. The import through gphoto2: the same import with another client.
- Delta backups: unfinished in the code. `pull` prints and ends.
- Help, completion, reports, logging, progress, string helpers: no state
  beyond the command, or only wording.
- Hashing and compression: a name stands for its content, and an index file that is
  cut short is one that is not read to its end.
- Owners and extended attributes: data that is carried and not decided on.
- Memory: the tree of a mount is kept until the end, and nothing bounds it.
