# A TLA+ model of the Synology CSI driver

The repository is a collection of guides. The one program in it is the Go source of the Synology CSI
driver, under `src/K3S/Installing the Synology CSI Driver with the Snapshot feature in k3s/02 - synology-csi`;
every Go path below is relative to that directory. The other files (Markdown, YAML, shell) have no logic to
model.

The driver lets a Kubernetes cluster use Synology storage servers ("DSMs"). It runs as a gRPC server: the
cluster's sidecars and kubelet call it, and it calls the DSMs' HTTP web API and, on a node, `iscsiadm` and
`mount`. It stores nothing itself. What exists is found by listing the DSMs again for every request, and what
is to be done is repeated by the cluster until the driver reports success. So the properties that matter
relate what the driver *reported* to what the DSMs *hold*, under calls that fail half-way, answers that are
lost, handlers that overlap and a process that crashes.

## 1. Inventory

| Component | Source | State | Operations | Talks to |
| --- | --- | --- | --- | --- |
| Controller service | `pkg/driver/controllerserver.go` | none; locals of each handler | CreateVolume, DeleteVolume, ControllerExpandVolume, ListVolumes, GetCapacity, Create/Delete/ListSnapshot(s), ValidateVolumeCapabilities | DSM service |
| DSM service, iSCSI | `pkg/dsm/service/dsm.go` | `dsms`, the servers logged in to at start-up | listing, creation (new, from a volume, from a snapshot), deletion, expansion, snapshots | web API of each DSM |
| DSM service, SMB | `pkg/dsm/service/share_volume.go` | none | the same with shared folders | web API |
| Web API client | `pkg/dsm/webapi/*.go` | `DSM.Sid`, one per server, shared by all handlers | one function per web-API method; `sendRequest` logs in again on a session error; `Login`, `Logout` | DSM over HTTP |
| Node service | `pkg/driver/nodeserver.go`, `initiator.go`, `multipath.go` | none; the node's iSCSI sessions and mounts | stage, publish, unpublish, unstage, expand, stats | DSM service, `iscsiadm`, `mount` |
| Start and stop | `main.go`, `pkg/driver/driver.go`, `grpc.go` | the list of clients | log in to every DSM, serve, log out at SIGTERM | all of the above |
| Names and sizes | `pkg/models`, `pkg/utils` | none | LUN, target and share names, byte and megabyte conversions | |
| synocli, logger, identity service | `synocli/`, `pkg/logger`, `identityserver.go` | none | a tool that makes single web-API calls; formatting; constant answers | |

What is hard here:

* **Interleaving.** gRPC runs each request in a goroutine of its own and no handler takes a lock. No handler
  looks at its `ctx`: one whose caller has given up runs on, next to the retry.
* **Partial failure.** A creation is five or more web-API calls (LUN, target, session limit, mapping). When
  one fails the earlier ones stay done (`FIXME need to delete lun and target`, dsm.go:253). Idempotence rests
  on names: what a retry finds under its name it takes over.
* **Lost answers.** An error from `http.Client.Do` does not say whether the DSM did the work.
* **Failed reads that look like an answer.** A listing skips a DSM or LUN it could not read, and the caller
  sees "no such volume": the reason of the finding below.
* **Crash and restart.** Everything known about a half-made volume is lost; a DSM that is down at start-up is
  left out until the next restart.
* **Map order.** `CreateVolume` ranges over the Go map `service.dsms`: the DSMs come in another order on each
  call, and what one of them wrote into the request's spec stays for the next.
* **Time.** Clones are waited for 20 seconds; there is no HTTP timeout, so a call that hangs holds its handler.
* **Shared session id.** Several handlers meet an expired session together, each logs in and overwrites
  `Sid`; the shutdown logs out under them and empties `Sid` when its answer comes, whatever id it holds by then.

What makes each component correct:

* *provisioning*: a reported volume is attachable and stays so; a reported deletion happened; one name, one
  volume; no half-copied clone is offered; sizes never shrink; retries get there in the end;
* *sessions*: an expired session is renewed without failing calls; sessions do not pile up on the DSM;
* *node service*: a published path serves the volume asked for; no session is closed under a mount; unstage
  leaves no session behind;
* *snapshots*: one name, one snapshot; deletion deletes; a volume restored from one is complete;
* *placement*: a volume goes where it was asked for, or to a location with space; *paging*: what exists
  throughout is listed exactly once; *sizes*: what is reported is at least what was asked for.

`PROJECT.json` lists the hazards line by line with the properties that cover them.

## 2. Modules

| Module | What it is | Instance | Proofs |
| --- | --- | --- | --- |
| `IscsiVolumes` | iSCSI volumes: handlers, DSMs, cluster, crashes and failures | `MCIscsiVolumes` | `IscsiVolumes_proofs` |
| `SmbVolumes` | the same with shared folders, quotas and megabytes | `MCSmbVolumes` | `SmbVolumes_proofs` |
| `VolumeStore` | what the controller service promises of volumes; both modules above implement it | | |
| `Snapshots` | snapshots of LUNs and shares, volumes restored from them | `MCSnapshots` | `Snapshots_proofs` |
| `VolumePlacement` | on which DSM, where and as what a volume is made; GetCapacity | `MCVolumePlacement` | `VolumePlacement_proofs` |
| `ListPaging` | ListVolumes and ListSnapshots page by page | `MCListPaging` | `ListPaging_proofs` |
| `NodeVolume` | one volume on one node: sessions, mounts, kubelet | `MCNodeVolume` | `NodeVolume_proofs` |
| `Portals` | the addresses through which a node reaches a LUN | `MCPortals` | `Portals_proofs` |
| `DsmSession` | `Sid`, re-login and shutdown | `MCDsmSession` | `DsmSession_proofs` |

Common to all. A *handler* is one gRPC request in its goroutine: `call[c]` holds its program counter and its
locals, and one action is **one call that leaves the process** (a web-API request, `iscsiadm`, `mount`) with
the code that runs when it returns, up to the next call. The program counter names the call made next. A call
that changes something ends in one of three ways: answered, lost (error, nothing done), or mute (done, but the
caller sees an error). `Faulty` says which calls may fail, `MaxFaults` how many mishaps a behaviour has,
crashes and missed deadlines included. After `Deadline` the cluster has stopped waiting while the handler runs
on. An operator whose comment begins with "Mutation" is a plausible bug of the operator after it and no part
of the model.

*Worlds.* `NodeVolume`, `SmbVolumes`, `Snapshots` and `VolumePlacement` have a variable `world`, chosen in `Init` and never
changed: the kind of volume, what the users want, which calls may fail and how often. One run so covers
several environments, and a property that needs an honest one says so in its first line (`Patient =>`,
`LookupsWork =>`); every such condition is satisfied by some world of the run.

### IscsiVolumes

State. `lun` and `target` are the LUNs and iSCSI targets of all DSMs, each with a status, its server and its
name; a target has the set of LUNs mapped to it. `dsms` is `DsmService.dsms`. `phase`, `volumeId` and
`capacity` are the cluster's view of each name: wanted → bound → released → deleted, with the id and the size
it was last told.

Steps. Every request starts with a listing: `TargetList` per server, `LookupLun` per mapping, `ListEnd`
(`listISCSIVolumes`, `GetVolume`, `GetVolumeByName`). CreateVolume goes on with `Pick` (the loop over servers
and the location), `LunCreate` or `LunClone` + `WaitClone`, `LunGet`, and `createMappingTarget`:
`TargetCreate`, `TargetGet`, `TargetSet`, `LunMapTarget`. DeleteVolume: `LunDelete` (`LunCheck` after an error),
`TargetDelete` (`TargetCheck` after an error). ControllerExpandVolume: `LunUpdate`. The cluster: `StartCreate`,
`StartDelete`, `StartExpand`, `Release`, `Deadline`; the environment: `Restart`, `CloneDone`. "Full" answers
come when the finite sets `Uuids` and `Tids` are used up.

Assumptions about the DSM, which is not in the repository: LUN and target names are unique on a server (from
the error codes in `errCodeMapping`); an id is never given twice; deleting a LUN takes it out of its targets;
deleting a target with LUNs is accepted; an action-locked LUN can be mapped; `LunUpdate` to a smaller size is
accepted (so that `NeverShrinks` is about the driver's own test); a lost call is not carried out later.

Left out: foreign LUNs and targets (filtered by name prefix), the choice of the location and LUN type (the
mishap "Location" of `Pick`; it is `VolumePlacement`), request validation that changes nothing.

### SmbVolumes

A share is its quota in megabytes, its name and its DSM; nothing is mapped, and it is found, changed and
deleted **by name**, the uuid being only the id the cluster is given. `ShareList` per server, `Pick`,
`ShareCreate` or `ShareClone`, `ShareGet`, `ShareSet` (quota), `ShareDelete`. `BytesToMB`, `BytesToMBCeil` and
`MBToBytes` are those of `pkg/utils/utils.go` with a small `MB`. `ShareOf` is `GenShareName`
(`pkg/models/dsm.go:42-48`), which cuts a name at 32 characters; it is injective in the run, and with a
collision `BoundKept` is violated. DSMs with two controllers have no share API (`world.unified`); whether a
clone brings its source's quota along is left open (`world.quotaLost`). Clones need a source of equal size.

### Snapshots

One DSM with the volumes that snapshots are taken of, their snapshots, and the volumes restored from them. A
LUN's snapshot has a uuid and a name and becomes ready in the background; a share's snapshot is identified by
the second in which it was taken. `CreateSnapshot` lists everything for the name (`VolumeList`,
`SnapshotList` per volume), finds the volume, takes the snapshot and lists again for what it has made;
`DeleteSnapshot` lists for the id, deletes by uuid or by time and share, and after an error looks once more.
`StartRestore` is CreateVolume from a snapshot: `SnapshotClone`, `WaitClone`, `Map`. Deleting a volume takes
its snapshots with it (`DeleteSource`); a share takes at most one snapshot a second.

### VolumePlacement

The loop of `CreateVolume` over the DSMs as the turns of `call[r]`, with the *shared* spec: what a turn wrote
into `spec.Location` (dsm.go:209) stays for the next. The loop ranges over a Go map (dsm.go:25, 461), so `Turn`
takes any of the DSMs that the call has not visited (`todo`), and the order differs from call to call.
`world` says what is asked for and which DSMs refuse every LUN and share. `VolumeList` is `getFirstAvailableVolume`, `VolumeGet`
and `Create` the rest of a turn; `disk[d][p]` changes at any time (`Change`). `GetCapacity` is an operator on
the state. Sizes are in gigabytes; a free size that is no number makes the listing fail (`Unreadable`).

### ListPaging

A walk is a sequence of requests, each of which lists all DSMs anew, sorts and cuts a page at the token. Items
are ranks in the order of sorting; they come and go between any two listings.

### NodeVolume

State. `sessions` are the portals with an iSCSI session, `staging` and `path[p]` what is mounted (a stack per
pod, since binds may stack), `size` the LUN's, the device's and the file system's size; `staged`, `published`
and `granted` are what the kubelet believes. Staging runs through `GetVolume`, `Session` and `Login` per portal,
`Device`, `Probe` (is it mounted?) and `Mount`, for a share `Permission` and `Mount`; publishing through `MkTarget`
and `Bind`, for an iSCSI volume with a login of its own; unpublishing through `Look`, `UnmountTarget`,
`RemoveTarget`; unstaging through `Unmount`, `GetVolume`, `HasSession`, `Logout`; expanding through `GetVolume`,
`Rescan`, `Resize`. `Crash` loses the handlers, `Reboot` also mounts and sessions.

Assumptions: the multipath map is there whenever both sessions are; the kubelet serialises what it asks of one
volume except after a missed deadline; the kernel refuses to mount a device twice on one path.

### Portals

`getPortals` with `IsUC` and `GetAnotherController` as a search: up to four rounds, each with one number less
of the address, each over all interfaces of the other controller in turn, while interfaces go down and come
up. Addresses are four numbers, and "begins with" is that of their *text*: `10.0.1` is a beginning of
`10.0.12.2`, as in the code.

### DsmSession

`live` is the DSM's set of live sessions, `sid` the field `DSM.Sid`, `req[h]` one call of handler `h` in
`sendRequest`: `Send` reads `sid`, `Answer` is the DSM's answer, `Login` opens a session at the DSM, `Store`
writes `sid`, `Retry` reads it again (another handler may have written it since), `ReAnswer` ends the call.
`Expire` is the DSM ending a session; `Signal`, the logout and `Exit` are the main goroutine at SIGTERM, during
which the handlers still run. A logout is three steps: `LogoutSend` reads `sid` (dsmwebapi.go:96), `LogoutAnswer` is
the DSM ending the session and its answer, `LogoutClear` the `dsm.Sid = ""` after it (dsmwebapi.go:207). In between
handlers may log in again and store new ids, which `LogoutClear` then overwrites.

Unsynchronised reads of `Sid` return the old or the new value: session ids of one DSM have one length, so a torn Go
string is one of the two. Where one of them is empty, a torn read may be a length without a string: `Torn` ends the
process, since nothing recovers from the panic (grpc.go has only a logging interceptor).

### VolumeStore

Names go wanted → bound → released → deleted. A name is bound only to a usable volume, a usable volume that
is bound does not vanish, and a deletion is reported only when the volume is gone. Volumes nobody was told of
may appear and vanish. `IscsiVolumes` implements it with `usable` = the LUNs that are ready, mapped, and
mapped to a target that lets in as many initiators as were asked for; `SmbVolumes` with the shares that have a
quota.

## 3. Runs

| Run | Instance | Shows |
| --- | --- | --- |
| `faults` | 1 DSM, a volume and its clone, 3 LUNs, 3 targets, 2 handlers, any 3 mishaps | `TypeOK`; `BoundUsable`, `MappedReady` |
| `patient` | the same, 3 sizes, listings do not fail, the cluster waits for each answer | `CapacityKept`, `NothingLeaked`, `UnmapDeletes`, `NeverShrinks` |
| `retries` | a volume and its clone, 1 mishap, listings do not fail, fairness | `DeletedGone`; `ImplementsStore` (refinement); `EventuallySettled` |
| `idempotent` | 2 DSMs, 1 handler, failures the driver learns of, crashes | `OneVolumePerName` |
| `calls` | 2 handlers, 2 mishaps, shutdown, fairness | session `TypeOK`, `OneMishapHarmless`, `SessionsBounded`, `Recovers` |
| `node` | 8 worlds: file system, block, SMB; 2 pods, 2 portals, 2 handlers | `PublishedServed`, `MountsBacked`, `UnstageLeavesNothing`, `ExpandHonest`, `UnpublishHonest`, `EventuallySettled` |
| `shares` | 5 worlds: a share and its clone, 2 DSMs, 2 handlers, sizes that are no whole megabytes, abandoned handlers with an old quota | `BoundKept`, `RoundedOnce`, `NeverShrinks`, `ImplementsStore`, `EventuallySettled` |
| `snapshots` | 5 worlds: LUNs and shares, 2 volumes, 2 snapshots, a restored volume, 2 handlers | `SnapshotKept`, `OneSnapshotPerName`, `DeletedGone`, `RestoredComplete`, `CopiedFirst`, `EventuallySettled` |
| `placement` | 2 worlds: a DSM that refuses, two thick LUNs; 2 DSMs in any order, 3 disks in all combinations of 6 states, 2 requests, 1 mishap | `PlacedAsAsked`, `CapacityCovers`, `EventuallyPlaced` |
| `paging` | 4 items, 2 DSMs, pages of 1, 2 or all, filters, 2 changes, 1 failed listing | `Ordered`, `ListedAll`, `EventuallyDone` |
| `portals` | 3 and 4 interfaces, every one up or down, 1 change, 1 failed call | `TwoControllers`, `NearestFound` |
| `forgotten` | 1 DSM, `TargetList` may fail | **violation** of `DeletedGone` |

Why the bounds are enough to be interesting. Two names, one the clone of the other, cover a deletion next to
a creation and a source that goes away under its clone. Two handlers are an abandoned one and its retry, or
two names at once. Three LUNs (shares, snapshots) let a name get a second one and still leave one; using them
up is the "full" error. One to three mishaps cover, for example, a lost answer, a missed deadline and a crash
in one behaviour; the counterexamples seen need one or two. Two servers are needed for duplicates, two pods for a bind
next to an unstage, two portals for a login that gets half-way. The quota of two bytes a megabyte has sizes
on, below and above a whole number. Two seconds let two shares take snapshots in the same one, and one share
in different ones. Four interfaces have common beginnings of every length, one of them textual only.

Which runs need which honesty of the environment is itself a result. `BoundUsable`, `MappedReady`,
`RoundedOnce`, `UnpublishHonest`, `ExpandHonest`, `CopiedFirst`, `PlacedAsAsked` and `Ordered` need nothing. `DeletedGone`
and the refinements need listings that do not fail (the run `forgotten` shows why).

* *Waiting.* `NothingLeaked`, `UnmapDeletes`, `NeverShrinks` and `CapacityKept` need a cluster that waits for
  its answers: an abandoned CreateVolume can recreate a volume after its deletion, an abandoned DeleteVolume can
  remove a target from under it, and an abandoned expansion can end after a larger one. On a node the same holds for
  `PublishedServed`, `MountsBacked` and `UnstageLeavesNothing`: a late unstage logs out under a new mount.
* *Steadiness.* In `BoundKept`, that a bound share exists, has its name and has a quota needs nothing. That the
  quota holds what was promised needs `Steady`: a cluster that waits, or one wish per name and no clone without
  its quota. Otherwise an abandoned ExpandVolume sets its smaller quota after a larger one was reported, or an
  abandoned CreateVolume sets the clone's first quota after its expansion; two worlds of `shares` have both.
* *One server.* `NothingLeaked` needs one server for each name (a single DSM, a request that names its DSM, or a
  clone, which is made on its source's server): with two, a failed try leaves its LUN on the first and the retry
  may succeed on the second. `OneVolumePerName` needs the same, or else listings that work, a LUN that is not
  mapped by a call that reports an error, and one handler at a time for a name.
* *Logouts.* `UnstageLeavesNothing` needs that listing the volume, listing the sessions and logging out work,
  since the handler ignores their failures (nodeserver.go:445).
* *First turns.* `EventuallyPlaced` needs a DSM that could take the volume all the time and that either is the
  first to be visited again and again (`First`) or takes the volume at whatever location the other DSMs choose
  (`TakesAnywhere`). Go gives no order of a map that could be called fair, so the former is a premise and no part
  of `Fairness`. Without either the property is violated, in the first world of `placement`: d1 comes first on each
  call, chooses p2 and refuses, and d2, which has room but no p2, fails the request.
* *Seconds.* `SnapshotKept` needs, for shares only, a cluster that waits (`Careful`): a deletion that was
  given up deletes by time, and its retry may have made room for a new snapshot of that second.

Fairness. `WF(Step(c))`: a goroutine that is not blocked is scheduled, and every call it makes returns.
`WF` of the DSM's background work (`CloneDone`, `SnapshotDone`) and of its clock (`Tick`). `SF` on starting a
request: provisioner, resizer, snapshotter and kubelet come back to what failed from a work queue with
back-off; strong, since another handler of that name may hold it off again and again. In `VolumePlacement`
and `ListPaging` the caller is never held off, so `WF` does. Crashes, failures, deadlines and changes of the
environment are never fair, nor is the order in which a loop visits the DSMs. In `DsmSession`, `WF(Step(h))` also says that requests keep coming: without
requests nobody notices a dead session. `EventuallySettled` has the form `[]<>(everything wanted is done)`:
wishes change only finitely often, so this is as strong as one leads-to for each wish, and cheaper to check.
Where the code gives a wish no way to succeed the property names the case: a clone whose source is gone
(`SourceGone`), a share that was left without a quota (`Unmakable`), an expansion refused for a rounding
(`Overtaken`).

`CHECK_DEADLOCK FALSE` is set only in `calls`, where the system stops: after `Exit`, the process is gone. The
other modules have a step that stutters when all is done (`Finished`, `Again`), so that a deadlock anywhere else is found.

### Finding

**`forgotten`**: DeleteVolume reports success for a volume that exists. `GetVolume` returns nil when
`TargetList` or `LunGet` failed, and dsm.go:487 takes that for "Skip delete volume[%s] that is no exist". The
cluster never asks again; the LUN stays.

### Observations

Behaviours that TLC showed while the models were written, and that the properties except by name:

* The same misreading at controllerserver.go:163 lets CreateVolume make a volume a second time on another DSM.
* After a failed `SnapshotDelete` every error of `SnapshotGet`, a lost connection too, counts as "no such
  snapshot" (dsm.go:732).
* When `SetShareQuota` fails after `ShareClone`, the share stays with quota 0, and the retry finds it by name
  and refuses it for its size (share_volume.go:115, controllerserver.go:163-176).
* A `ShareSet` of a request that the cluster has given up sets its own quota whenever it comes: after an
  expansion to 8 was reported, an abandoned one to 5 makes the quota 5 again (share_volume.go compares with the
  quota read before, dsm.go:608). The same holds of `LunUpdate`.
* An expansion to a size that is no whole number of megabytes, whose answer was lost, is refused when it is
  retried: the quota found is larger than the size asked for (dsm.go:608).
* The location chosen for one DSM stays chosen for the next (dsm.go:209), though README.md:175 says that the
  driver chooses one "with available storage": with *location* blank, a request fails as long as a DSM comes
  first that chooses a location and then refuses, and the other DSMs have no such location, even if they have
  room. README.md:176 says that all iSCSI volumes are thin; `thin_provisioning` can make thick ones.
* The logout at SIGTERM empties `Sid` under handlers that have logged in again since the DSM ended the old session
  (dsmwebapi.go:207): with two handlers, one logout and no failure four sessions stay open on the DSM. The last
  summand of `SessionsBounded` (`Cleared`) is for this window.
* A LUN mapped to two targets is listed twice (FIXME at dsm.go:554), and with `max_entries` 1 a walk never
  gets past it. The driver makes no such LUN, and the run excludes them (`Twice = {}`).
* `MappedReady` excepts names the cluster has given up. With three handlers, two of them abandoned in the middle
  of CreateVolume, a clone can be bound, released and deleted, and then be copied again by one late handler and
  mapped half-copied by the other. Nobody has its id.
* A DSM name that resolves to addresses of both controllers is looked up twice (utils.go:42), and two portals
  may then be of one controller. A DSM address that no interface has counts as of controller A.

## 4. Proofs

Checked by TLAPS, for all values of the constants (any number of servers, names, handlers, pods, disks,
interfaces and mishaps, any worlds). Each follows from an inductive invariant, `Init => IInv`,
`IInv /\ [Next]_vars => IInv'`, with one lemma per action. The only assumptions are the named ones on the constants
(`None` is none of the other values, sizes are positive numbers, there are finitely many DSMs, requests are typed and some can be made) and those in the table.

| Theorem | States | Assuming |
| --- | --- | --- |
| `TypeCorrect`, `SessionTypes`, `NodeTypes`, `SnapshotTypes`, `PlacementTypes`, `PortalTypes`, `PagingTypes` | `TypeOK` of their modules | |
| `BoundStaysUsable`, `CopiedWhenMapped` | `BoundUsable`, `MappedReady` of `IscsiVolumes` | |
| `CapacityPromised`, `SizesOnlyGrow`, `OnlyDeletionUnmaps` | `CapacityKept`, `NeverShrinks`, `UnmapDeletes` of `IscsiVolumes` | no `Deadline`: the cluster waits for its answers |
| `DeletionsReal`, `StoreImplemented` | `DeletedGone` of `IscsiVolumes`; `IscsiVolumes` implements `VolumeStore` | `ReadsWork`: listings and logins do not fail |
| `OneVolumeAtHome` | `OneVolumePerName` of `IscsiVolumes` | `OneHome`: one server for each name |
| `OneVolumeAnywhere` | `OneVolumePerName` of `IscsiVolumes` | `ReadsWork`; `LunMapTarget` does not fail; `Serial`: one handler, or no `Deadline` |
| `DeletedLeavesNothing` | `NothingLeaked` of `IscsiVolumes` | `ReadsWork`, no `Deadline`, `OneHome` |
| `RenewalShared` | `OneMishapHarmless` | |
| `SessionsLimited` | `SessionsBounded` | finitely many handlers |
| `ExpansionsHonest`, `UnpublishesHonest` | `ExpandHonest`, `UnpublishHonest` | |
| `PodsServed`, `SessionsUnderMounts`, `NothingLeft` | `PublishedServed`, `MountsBacked`, `UnstageLeavesNothing`, whose own conditions are `Patient` and `LogoutsWork` | |
| `VolumesTyped`, `VolumesKept`, `CapacityRounded`, `QuotasOnlyGrow` | `TypeOK`, `BoundKept`, `RoundedOnce`, `NeverShrinks` of `SmbVolumes` | `NamesApart`: share names tell volumes apart |
| `SharesAreStore` | `SmbVolumes` implements `VolumeStore` | `NamesApart` |
| `SnapshotsKept`, `CopiesComplete`, `OnePerName`, `DeletionsHonest`, `CopiesFirst` | `SnapshotKept`, `RestoredComplete`, `OneSnapshotPerName`, `DeletedGone`, `CopiedFirst` | |
| `WellPlaced`, `RoomReported` | `PlacedAsAsked`, `CapacityCovers` | |
| `PortalsOfTwoControllers` | `TwoControllers` | `OneController`: a name's addresses are of one controller |
| `NearestOfAll` | `NearestFound` | |
| `PagesOrdered` | `Ordered` | `Twice = {}`: no LUN is mapped to two targets |
| `NothingMissed` | `ListedAll` | |

*IscsiVolumes* (`IscsiVolumes_proofs`, part 1). `BoundUsable` is not inductive: a handler about to delete could hold a bound LUN. `IInv` adds
what rules that out. `LunInv`: names of LUNs are fixed and unique per server. `TargetInv`: a target serves LUNs
of its own name, opened as asked for, and only complete ones as long as the cluster wants the name. `PhaseInv`:
the id the cluster holds is a LUN of that name. `RequestInv`, and its companions for the handler's locals: a
deletion runs only for a name that was released, a handler's LUN and target carry its name, and past
`WaitClone` its LUN is complete. The key lemmas say that a name's phase never goes back, so a handler that was
right to create or delete stays right however late it runs; the steps that touch a LUN or a target only touch
those of their own name.

*IscsiVolumes, a cluster that waits* (part 3). `Alone`: one handler per name. It makes true what
the code takes for granted, that a handler's locals stay true: `SizeInv`, the size an expansion has compared
with is still the LUN's, and a creation's LUN has at least the size it read; `AimInv`, the target of a deletion
serves at most the LUN it was listed for when the deletion counted on that. A step changes sizes and mappings of its own name
only, so the handlers of other names do not matter.

*IscsiVolumes implements VolumeStore* (part 2). A deletion that finds nothing is the dangerous step.
`SeenInv` says of a deletion that is still listing, that as long as its LUN lives, a mapping of it is on a server
still to be listed, or among the mappings still to be looked up; so an empty end means that the LUN is gone. It needs
that a LUN which was bound once stays mapped while it lives (`MappedInv`) and that mappings are on the LUN's
server (`PlaceInv`). The refinement then goes by effects: a handler's step does one of seven things to the DSMs
(`DsmEffect`), each makes at most one volume attachable or takes at most one away (`UsablesChange`), and tells
the cluster of a bound volume that `BoundUsable` shows to be attachable, of a deletion that is real, or of nothing
(`Tells`).

*IscsiVolumes, one volume for a name* (part 4). With one server for each name, `Home`
says on which servers the volume of a name may be and `HomeCall` that a creation stays on them; the DSM has no two
LUNs of a name, so no two of a name are mapped, however many late handlers work for it. For `NothingLeaked`, `Known`
says that a name that was bound has no LUN but the one the cluster knows; a later LUN could only be a creation's,
and with a cluster that waits creations run for wanted names only (`CreateWanted`). On many servers the listing
is what counts. `MissInv`: while a creation lists, whatever is mapped for its name is on a server still to be listed or
among the mappings still to be looked up, so one that has found nothing creates the first. It lasts because only
`LunMapTarget` maps, for the handler's own name, which no other handler works for.

*SmbVolumes.* Shares are reached by name, so everything turns on who may act on a name. `ShareInv`: a server has
one live share of a name. `ClusterInv`: the id the cluster holds is a share of that name, and every capacity it was
told is the rounding of one size it asked for. `RequestInv`: creations and expansions carry sizes of the cluster,
and a deletion runs only for a released name, so none can reach a bound share however late it runs. `FoundInv`
is about the share a handler has found: it has the handler's name, and while the volume is bound it is the
volume itself, on the handler's server. `PatientInv` adds, for a cluster that waits, one handler per name and that
the quota read is still the share's. `SeenInv` is for the refinement: while its share lives, a deletion that is
still listing has the share's server still to list. The proof goes by effects, as for the iSCSI store: a step makes
one share, sets the quota of the handler's own, deletes it, or leaves the shares alone, and tells the cluster of
one name at most.

*DsmSession.* `Sound` says that before the first mishap nobody renews, and that up to the second one every id
still to be sent or stored is alive. `Paid`, for the bound, is an account: what was opened, plus one for each
handler that may log in without a new mishap (`Owing`), plus one for each handler and each dead id that is
still to be stored (`Doomed`), is at most one and a session per handler for each mishap, each logout and the emptying
of `Sid` (`Spent`). The answer of a logout and `LogoutClear` may each make every handler owe a login, and pay for it.
It needs that an id still to be stored is nobody else's, nor that of the logout on its way (`IdsApart`).

*NodeVolume.* The program counter fits the request (`PcsOf`), sizes are ordered file system ≤ device ≤ LUN and never
shrink, and nothing is mounted where there is no directory. For a kubelet that waits, `PInv` adds three parts.
`Waiting`: a request is served alone, unpublishings of different pods excepted, and what the kubelet believed when it
made the request is still so; an unstaging has every pod unpublished all the while. `Believed`: a path that was
unpublished is empty, a published one is not, only the volume itself is ever bound there, and a staged volume is
mounted. `Backed`: a mount has its session. None is inductive without the others: that a bind binds the volume and
not the bare directory needs the staging mount, which needs that nobody unstages next to the publishing; and that a
logout takes no session from under a mount needs that all paths are empty by then.

*Snapshots.* The invariant relates the locals of a listing to what it has not yet listed: a snapshot of the
name is either found, or in a volume still to come, or was taken after the listing began, which a cluster that
waits excludes; and a handler that deletes by time holds the time of the snapshot it was asked to delete.

*VolumePlacement.* What a handler carries in its spec is a location asked for or chosen, and its type fits the
file system of the disk it stands before, in whatever order the DSMs come. That the first available location is one
of the DSM's own rests on the least element of a set of naturals, which is proved without induction from the well-foundedness of proper inclusion. So is what
`CapacityCovers` needs of sums: `GetCapacity` folds a recursive function over the subsets of the listed locations;
`SumExists` shows that there is one, `SumBounds` that no term exceeds the sum, each from a smallest set of which
it would be false. A free size is a natural number or unreadable, also after a thick LUN has taken its space.

*Portals.* The first portal is of the controller the search believes in, and every address tried is of the other.
`Passed` says what the rounds have left behind while the network stood still: no usable address with a longer
beginning than this round's, nor, before the one at hand, with this round's. So what is taken is one of the
nearest, and after the last round, which any address passes, nothing was usable.

*ListPaging.* What is listed is sorted (`SortedList`), so a page that starts at the token has exactly what
is asked for from the token on, up to the next token (`Cut`). `OrderedInv`: everything got is sorted and
before the token; it needs strictness, hence `Twice = {}`. `ListedInv`, which does without: of what stayed, all
before the token was got, and while a request is answered the rest is listed or its DSM still is to be listed; it
holds whether or not the item of the token is still there. Lists are put together with `FlattenSeq`, whose
local function is recursive over the prefixes: `FlattenExists` shows that there is one, `Flattened` what it
contains and that it keeps an order, both from the shortest prefix of which they would be false.

Only model-checked. Liveness: `EventuallySettled`, `EventuallyPlaced`, `EventuallyDone` and `Recovers`; the prover
has no rule for `ENABLED`, with which fairness is defined. Every other property of a passing run is a theorem, and
the run's constants satisfy what the table says it assumes.

## 5. Not modelled

* `synocli`, the logger and the identity service: no state, no order of steps that matters.
* The configuration file, the parsing of `iscsiadm` and DSM answers, request validation that changes nothing.
* `NodeGetVolumeStats`, which only reads, and the assembly of multipath devices (`lsblk`, `multipath -f`).
* The inside of the gRPC server and of the HTTP client: library code.
* The check of a capacity range (controllerserver.go:45-60), two comparisons on the request alone.
* The guides, YAML files and scripts of the rest of the repository: no program logic.
