# Verification of MultiPaaS

MultiPaaS gives every tenant a Kubernetes cluster of its own and provisions
volumes, services and applications on it. This directory holds TLA+ modules of
its control plane, TLC configurations that check them on small instances and
TLAPS proofs. Paths below are relative to the repository; `tc/`, `api/` and `hn/`
stand for `src/src/task-controller/controllers/`, `src/src/api/src/` and
`src/src/host-node/controllers/`.

To check a module: `tlc -config MCTaskQueue.cfg MCTaskQueue` (each `.cfg` names
its module by its prefix: `MCNginxProxyStuck.cfg` belongs to `MCNginxProxy`); to
check proofs: `tlapm TaskQueueProofs.tla`.

## The system

A CLI talks HTTP to the **API** (feathers). The API validates a request, inserts
a row into the table `tasks` and announces it over MQTT. The **task controller**
executes rows: it asks **host nodes** over MQTT to create virtual machines,
attach disks, run helm and write ingress resources, edits the **nginx** load
balancer it runs next to, and keeps what it did in **Postgres**. Host nodes
answer over MQTT and also read and write the same database themselves. All
processes are single-threaded JavaScript: everything between two `await`s is
atomic, everything else interleaves. MQTT messages are QoS 0 and sessions are not
persistent, so a message may be lost, and an answer may arrive after its request
timed out.

### Inventory

| Component | State | Operations | Interacts by | What is hard | Correct when |
|---|---|---|---|---|---|
| Task queue (`tc/tasks/index.js`, `api/controllers/tasks/index.js`) | rows of `tasks`; `bussyTaskIds` in memory | schedule, `processPendingTasks`, the handlers' status updates | table, MQTT announcement, one-minute timer | overlapping calls with stale lists, lost announcements, crashes in the middle, failing updates in catch blocks | a row is executed by one call at a time, ids do not leak, pending rows are executed |
| Requests over MQTT (`*/mqtt/index.js`) | `pendingResponses`, timers | `queryRequestResponse`, `collectRequestResponse`, incoming answers | MQTT topics with a request id | late, lost, unexpected answers; timers that are not cleared | a promise settles once and never with an answer nobody gave |
| IP leases (`tc/dhcp/index.js`, `hn/engines/virtualbox`) | `available`, rows of `k8s_nodes`, the address configured in a VM | init, lease, return (with ping) | MQTT messages in both directions | restart while an address is in no row, late lease answers, failed deployments and deletions | no two nodes have the same address; addresses come back |
| nginx (`tc/nginx/*`) | `default.conf`, `tcp.conf`, backups, `bussy` | generate, update upstreams, cleanup, delete servers | called by handlers of all workspaces; `docker exec nginx -s reload` | two files, one lock, rejected preparations, refused reloads | edits are serialised, kept when they succeed, gone when they fail |
| Local volumes (`tc/tasks/tasks.volume.js`, `hn/tasks/task.volume.js`) | `volumes`, `volume_bindings`; disks on SATA ports; `/etc/fstab` of nodes | provision, bind, unbind, deprovision, attach to new workers | MQTT requests to each node's host | one step of several failing, ports that differ between nodes, one `portIndex` per volume | bound volumes are usable on every node, unbound ones attached nowhere |
| Workspaces and organisations (`tc/tasks/index.js`, `tc/tasks/tasks.runtime.js`, `hn/tasks/index.js`) | `organizations`, `workspaces`, `k8s_nodes`; VMs | create cluster, add worker, delete workspace, delete organisation | tasks with payloads read at scheduling time | deletion against a running update, late deployments, cascading deletes | no VM outlives its row, the organisation goes last |
| Application versions (`tc/tasks/tasks.apps.js`, `hn/tasks/task.apps.js`, `hn/tasks/task.ingress.js`) | `application_version` rows with weights, helm releases, VirtualServers | deploy, add version, canary split, replace, remove | MQTT requests, DB transactions, rows read by the host | rollbacks by hand, transactions open across requests, requests made from old listings | weights add up, the ingress follows the rows, rows name what runs |
| Cluster scaling (`tc/tasks/tasks.runtime.js`) | `k8s_nodes`, VMs, cluster nodes, taint of the master, upstream servers | scale up and down by several workers | requests per node | failure midway, several hosts, volumes on removed nodes, an update that rewrites all upstreams | rows, VMs, cluster and upstream name the same nodes; the master works when there are no workers |
| Routes and domains (`tc/tasks/tasks.nginx.js`, `tc/tasks/tasks.runtime.js`) | `routes`, `domains`, virtual ports | create routes, bind and unbind domains, regenerate the proxy | database, nginx | ports drawn at random, undo by hand, blocks found by prefixes | the proxy and the ingress show the rows |
| Services (`tc/tasks/tasks.services.js`, `hn/tasks/task.services.js`) | `services`, helm releases, persistent volumes and claims, pod presets | provision, deprovision | MQTT requests, one after another | rollbacks of half-done work | releases, claims and presets follow the rows |
| Gluster volumes (`tc/tasks/tasks.gluster.js`, `hn/tasks/task.gluster.js`) | `gluster_hosts`, replicas, authorised addresses, mounts | provision, mount, unmount, delete | requests to several hosts | partial failure over nodes, workers that join and leave | bound volumes are mounted everywhere, others nowhere |
| Keycloak groups (`tc/keycloak`, `tc/tasks/tasks.keycloak.js`, `api/controllers/tasks/tasks.keycloak.js`, `tasks.ns.js`) | groups, memberships, role bindings | create, clean up, grant, create namespace | REST, tasks | creation and clean-up are separate tasks, groups are found by name, names are used again | memberships are those of the present workspace |
| API services, prechecks, permissions (`api/services`, `api/lib`) | rows | checks before scheduling | database | check and insertion are separate statements | one open task per workspace |
| Database layer (`*/db/index.js`) | pool of connections | statements, transactions | all | a client used after its release | a transaction is one handler's |
| Event streams, host resources, image builds, kubectl access, satelite agent, CLI, install scripts, charts | little or none | — | — | — | see "Not modelled" |

`PROJECT.json` lists the same parts with their sources and status, and under
`hazards` the places where this code can go wrong in ways a test would hardly
reach.

## Modules

```
TaskLifecycle <── TaskQueue ──── MCTaskQueue          Rpc <── RequestResponse ── MCRequestResponse
   (abstract)        └── TaskQueueProofs            (abstract)     └── RequestResponseProofs
NginxProxy ──── MCNginxProxy                   IpLease ────── MCIpLease
    └── NginxProxyProofs                           └── IpLeaseProofs
LocalVolume ─── MCLocalVolume                  WorkspaceLifecycle ── MCWorkspaceLifecycle
    └── LocalVolumeProofs                          └── WorkspaceLifecycleProofs
AppVersions ─── MCAppVersions                  ServiceRouting ── MCServiceRouting
    └── AppVersionsProofs                          └── ServiceRoutingProofs
GlusterVolume <── ClusterScale ── MCClusterScale   ClusterGroups ── MCClusterGroups
                      └── NginxProxyProofs             └── TaskQueueProofs
```

Two modules of proofs are about two components each: `NginxProxyProofs` extends
`NginxProxy` and `ClusterScale`, whose scalings edit an upstream of that proxy, and
`TaskQueueProofs` extends `TaskQueue` and `ClusterGroups`, whose tasks are rows of that
queue. For that `ClusterScale` and `ClusterGroups` have the names of their component in
those of their specification (`ScaleSpec`, `ScaleTypeOK`, `GroupsSpec`, `GroupsTypeOK`).

Every module has one action per handler step: a step ends where the code awaits
a message, a statement or a command whose outcome or delay matters. Faults are
actions too (lost message, refused reload, failed statement, crash), each counted
against a named bound. Some actions are followed or preceded by an operator whose comment
starts with *Mutant of*: the same step with a plausible mistake, used to confirm
that a property can fail.

Most modules keep history variables: `disturbed`, `skewed`, `torn`, `strayed`,
`outdated` (Booleans or sets of volumes and services), `leaked`, `blank`, `wiped`,
`shared`, `hasty` and `mixed`. They record events after which the code does not keep
a property, and only those; the comment before the properties names the events. They
are the limits of the code we know of ("Known deviations"); everything else is
covered by the property. Where a later task repairs the damage, the variable is
reset.

### TaskQueue, TaskLifecycle

`status` is the column of every row, `notified` the announcements under way,
`bussyTaskIds` the array of that name, and for each call `r` of
`processPendingTasks` `todo[r]` is the list it got from the database, `cur[r]` and
`stage[r]` the row and the place in its handler. `OnTimer` and `OnTaskMessage` are
the two ways a call starts; `SkipBussy`/`Claim` the test at
`tc/tasks/index.js:84`; `MarkInProgress`, `MarkDone`, `MarkError`, `Defer` the
protocol most handlers follow; `Release` the `finally` block. Handlers of
different task types share this protocol, so their own work is one step here and
is modelled in the other modules. Three kinds of rows leave it: `Updates`, whose handler
writes `DONE` over whatever the row says when there is nothing to update
(`NothingToUpdate`, `tc/tasks/tasks.runtime.js:265`); `Volumes`, of a type the
handler does not know, which go to `ERROR` at once (`Unsupported`); and `Undoing`, whose
catch block asks a host before it writes `ERROR` and may be refused (`UndoFails`,
`tc/tasks/tasks.services.js:175`). `TaskLifecycle` is the promise: serialised,
at-least-once execution. It is not exactly-once: a list read by the timer before
another call finished a row executes that row again.

### Rpc, RequestResponse

A request is a promise with an entry in `pendingResponses`, a timer and messages
on a network that loses and reorders. `ClearsTimer` are the requests of the API
and host nodes (the timer is cleared by the answer), `AddressFirst` those of host
nodes, which look up their address before they publish, `Collect` those of
`collectRequestResponse`, which resolve with what arrived in the window. `Rpc` is
the promise to callers: settled at most once, resolved only by hosts that did the
work; a rejection says nothing about the work.

### NginxProxy

A configuration file's content is the set of calls whose edit it holds, so one can
say which edits survive. `http`, `tcp` and `valide` are `default.conf`, `tcp.conf`
and `tcp.valide`; `live` is what nginx loaded last; `mem[c]` the contents a call
prepared, `backup[c]` the file it puts back. `Acquire` is the polling of `bussy`,
`PrepareHttp`/`PrepareTcp` the reading, `SaveHttp`/`SaveTcp` the writing with
reload, `UndoHttp` the restore in the catch block and `Finish` the `finally`. The code
restores a backup that is true as a string, so the empty text is not put back: `empty` says
that `default.conf` is the empty text, as it is installed; a call that found it so, or an
update that found no upstream, has `NoFile` as its backup.

### IpLease

`available` and `ready` are the pool and the progress of `init()`; `msgs` the
lease requests, answers and returns; `phase[n]` how far a host is with VM `n`, from
asking for an address to its row or its rollback; `delNode`/`delStage` the deletion
tasks that collect addresses and return them; a returned address is always pinged before
it goes back to the pool, and `DHCP_USE_PING` (`UsePing`) makes `init()` ping the whole
pool as well. `Only` is the filter of the pool in `init()`: it says which
element of the old list each place of the new one holds, instead of going through the
list, so that it can be proved about.

### LocalVolume

`slot[n][p]` is the disk on SATA port `p` of node `n`, `fstab[n][v]` the port volume
`v` is mounted from (the code derives a device letter from the port), `portIndex`
the column of that name: one value for all nodes although every host chooses the
port of its VM. A task goes through `attach`, `mount` and the insertion of the
binding, or through `unmount`, `detach` and the deletion of the row, with the
rollback loops of the code including the failures these swallow. A host answers an
unmount whose `umount` failed like any other (`UnmountIgnored`). A scale-down detaches the
disks of a worker before it asks for its removal, which may be refused
(`RemoveWorkerFails`); so does the catch block of a scale-up (`UndoGrow`,
`UndoGrowFails`).

### WorkspaceLifecycle

Nodes are pairs of a workspace and `master` or `worker`. `create`, `grow`,
`delStage` and `orgTask` are the open tasks, `host[n]` the deployment a host works
on: it goes on when the requester has timed out, and may boot a VM or insert a row
afterwards. A deletion carries the nodes listed when it was scheduled.
`ScheduleOrgDelete` and `PlanDelete` are the API's loop over workspaces, `CheckOrg`
the test that keeps the organisation's task `PENDING`. A host that fails to deploy a VM
takes it back and swallows the failure to do so (`LeavesVm`); a failing statement settles
the organisation's task in `ERROR`, and a second one leaves it `IN_PROGRESS` (`OrgFails`).

### AppVersions

One application with one exposed HTTP port. `rows[t]` is the weight of the version
with tag `t`, `release` the helm releases, `rule` the split in the VirtualServer,
`seen` the listing the last request was made from. A task passes the points where
its handler can fail (`deploy`, `ingress`, `balancer`, `uninstall`) and those of its
catch block (`undo`, `restore`). A removal's transaction is open while the host
uninstalls; the host reads the rows as committed. A replacement deletes the old row on
another connection, before its own transaction commits: `ReplaceNotCommitted` is either
statement failing. The checks of the CLI on weights are part of `Ask`.

### ServiceRouting

Services, their routes and the nginx all workspaces share. `service` and `route` are
the rows, `release` the helm releases, `claims` the persistent volumes and claims,
`rules` and `listeners` what the ingress of a cluster holds, `presets` the services the
pods of a namespace are told about, `proxy` the server blocks of nginx. `task[w]` is the
task of workspace `w` and the place in its handler; every request is an action that
succeeds, one that is refused, and one that is carried out but not answered. The catch
blocks are `undo`, `restore`, `unclaim`, `again` and `RollBack`; `stuck` is a handler that
threw inside its catch block and left the row `IN_PROGRESS`. `Generated` is the
regeneration of a namespace's blocks, which clears by prefix first and leaves both files
alone for a kind of port the namespace no longer has; `Loadable` is nginx's refusal of
two blocks on one port. `empty` says that `default.conf` is still the empty text, which the
catch block of a generation does not put back: the blocks of the first one that fails stay
and its services are in `torn`. `Ask` has what the commands of the CLI let their user choose.

### GlusterVolume, ClusterScale

`GlusterVolume` has the replicated volumes of a workspace: `gluster` the volumes of the
gluster network, `row` and `bound` the tables, `allow` the authorised addresses,
`mounted` the mounts. `job` is a mounting or unmounting over several nodes with the two
rollbacks of the code; a binding or unbinding runs one for all nodes, `ClusterScale` one
for a worker. An unmount that was answered may have left the volume mounted, because the
host does not look at the result of `umount` (`torn`). `ClusterScale` adds the scaling: `nodes` (rows), `vms`, `members` (what
kubernetes knows), `away` (workers on another host than their row names), `tainted`, and
`own`, the list of servers of the workspace's upstream. `Updated` is the code's editing of
that list while it runs over it; `ItemsAt`, the list without the removed servers, says which
server each place of the new list holds, so that it can be proved about. `scale` is the task: `up` deploys one worker after
another with their volumes, taints and publishes; `down` detaches and destroys; `undo` is
the catch block of `up`, which takes workers back one at a time and swallows errors.
`OtherScales` is the scaling of another workspace, which replaces the servers of this
one's upstream; `Republish` stands for the tasks that generate it anew. A worker whose
deployment fails may have joined the cluster before (`Joins`), and nobody looks at the
exit code of kubectl when a node is tainted, untainted or deleted: each of these may be
answered without having happened (`strayed`).

### ClusterGroups

The rows that bear one workspace name, one after another, and the keycloak groups of that
name. `task` has the four kinds of task (create, groups, delete, cleanup) of each row with
the step they are in, `base`, `groups` and `members` are keycloak's, `request` the API
requests that grant groups or create a namespace, `namespaces` the role bindings they
wrote: the host binds every group but the administrators'. `CreateNamespaceFails` takes a
namespace back, `NamespaceLeftBehind` is the host failing at that too, with the bindings
made so far. A user whom keycloak does not find exactly once is granted nothing and nobody
is told (`Overlooked`). `wanted` is what the last answered request asked for, a history
variable.

## Runs

| Run | Instance | Question |
|---|---|---|
| `task_queue` | 3 rows: one whose catch block asks a host, one deferrable or unsupported, one update; 2 calls, 1 crash, 1 failed statement | Is execution serialised and `TaskLifecycle` implemented; who is left `IN_PROGRESS`; are pending rows executed? |
| `request_response` | one request of each kind, 2 hosts, 1 crash | Is `Rpc` implemented; do timers alone settle every promise? |
| `nginx_proxy` | one call of each operation, 1 rejected and 1 hanging preparation, 2 refused reloads, 1 crash | Are edits serialised, kept or undone; does nginx load them; do calls end? |
| `ip_lease` | 3 deployments, pool of 3 with one reserved, a deletion task, a restart | Is an address ever given out twice? |
| `local_volume` | 3 volumes, 2 ports, a node and a worker, 2 faults | Do rollbacks leave volumes usable everywhere or nowhere? |
| `workspace_lifecycle` | 1 workspace with master and worker, 2 deletions, 2 faults | Do VMs and rows come and go together; does the organisation go last? |
| `app_versions` | 3 tags, weights 0/30/70/100, the application created twice, 5 tasks, 2 faults | Do weights, rows, releases and ingress agree? |
| `service_routing` | a database and two web sites in two workspaces, one namespace's and one service's name a prefix of the other's, 2 ports, 1 domain, 4 tasks, 1 fault | Do proxy, ingress, presets, releases and claims follow the rows, after failed tasks too? |
| `cluster_scale` | a master and up to 3 workers on 2 hosts, 1 gluster volume, another workspace's scaling, 4 tasks, 2 faults | Do rows, VMs, cluster, mounts and upstream name the same nodes? |
| `cluster_groups` | 2 workspaces of one name, 2 users, 2 groups, 2 requests, 1 deletion, 2 events | Do groups, memberships and role bindings belong to the present workspace? |
| `nginx_proxy_stuck` | 2 calls, 1 rejected preparation | *violated:* waiting calls go on when nobody works |
| `master_takes_over` | as `cluster_scale`, no fault | *violated:* a cluster that lost its workers runs on its master |

### What the runs show

**Task queue.** No interleaving of timer and message calls, lost announcement or
crash makes two calls execute a row at once (`NoConcurrentExecution`). Rows stay
`IN_PROGRESS` behind only after a crash or a failed statement (`NoOrphanWithoutFault`),
those of `Undoing` excepted:
the maintenance job that should settle them is empty. Only an update is ever `DONE`
without having been `IN_PROGRESS` (`ImplementsLifecycle`). A settled row that no list holds
is never touched again (`SettledIsFinal`); `PendingIsExecuted` is the liveness side.

**Requests.** The task controller never clears its timer when an answer arrives; the
refinement of `Rpc` holds because it is the entry's removal, not the timer, that keeps
a promise from settling twice.

**nginx.** `NoLostEdit` and `FailedLeavesNothing` hold although failures of one
call revert files other calls have edited before: the backups are taken under the
lock. The one exception is `delete`, which saves `tcp.conf` without a reload and
`tcp.valide`, so a later refused reload reverts past it; `NoLostEdit` does not
promise its edit of `tcp.conf`. `FailedLeavesNothing` excepts calls that had no text to put
back in `default.conf`: the first generate, when its `tcp.conf` is refused, leaves its
edit. `CallsEnd` excludes the waiters of a failed preparation: that is the run
`nginx_proxy_stuck`.

**Leases.** Outside four events (an address in use served, or a node deprovisioned,
while `init()` still waits for the database; a restart while an address is in no
row; a deletion task that fails) addresses are unique and free ones are free.

**Volumes.** Bind, unbind and growth leave every volume usable on all nodes or on
none, whichever request is refused. The exceptions are lost answers, hosts that fail to
unmount or detach (and say so or not), a worker whose removal fails after its disks were
detached, and growth over a gap in the ports. That a removed volume is on no VM
(the second half of `UnboundIsDetached`) has none.

**Workspaces.** A VM is in `k8s_nodes` or being deployed and a deletion that is `DONE`
leaves no VM (`NoOrphanVm`), unless a deployment's request timed out, a deletion was
scheduled over an open task, a workspace was created while its organisation went, or a
host could not take back the VM of a deployment that failed. The organisation's row goes
when nothing but a failed deletion of a workspace, or a failed statement of its own task,
is in the way (`OrgIsDeleted`).

**Applications.** `WeightsAddUp` fails only after a deployment that failed (its share is
lost), a replacement whose commit failed or a split from an old listing,
`RowsMatchReleases` only after lost answers, a replacement that failed in its commit, after
it or in its undoing, or a half-done deletion.
`RuleFollowsRows` needs no exception other than deleted applications, and `NoOutage`
says that no version that gets traffic is uninstalled except by the task that names it.

**Services and routes.** After every task, failed ones included, nginx serves each
service at the port and domain of its row and no two of one kind at the same port
(`ProxyFollowsRoutes`), although ports are drawn before they are stored: the second of
two equal draws is refused by nginx and rolled back. The ingress, its listeners and the
presets of the pods follow the same rows (`ClusterFollowsRoutes`), helm releases and
claims the rows of services (`NothingLeftBehind`). The exceptions are the undos that
cannot succeed (below), the first generation of all when it fails (it is not undone),
requests that were not answered, and namespaces and services whose blocks another one's clearing took because its name is a prefix.

**Scaling.** A scale-up that fails at any worker, or a volume that fails to mount on one,
leaves rows, VMs and cluster in agreement and the master tainted exactly while there are
workers (`ClusterFollowsRows`); bound volumes stay mounted and authorised on every node
(`BindingsHold`). The exceptions are the steps of a
removal that fail, workers whose row names another host than theirs, workers that had
joined before their deployment failed, and commands of kubectl and `umount` that failed
without anybody noticing.
`UpstreamFollowsRows` holds from each orderly update of the workspace's own upstream to
the next update of anybody's.

**Keycloak.** Groups, role bindings and memberships are those of the workspace that bears
the name now (`GroupsFollowWorkspaces`, `MembershipsFollowRequests`), although grants run
while the groups are being created; except for workspaces of one name that overlap, users with two open
requests or whom keycloak does not find exactly once, and namespaces whose creation failed
and could not be taken back.

### Known deviations

Two runs show a disagreement between the code and one of its comments, which `findings`
in `PROJECT.json` quotes. In `nginx_proxy_stuck` two nginx operations prepare files
outside their `try` block and leave `bussy` set. In `master_takes_over` the row of a worker
names the master's host (`hn/engines/virtualbox/index.js:550`) whatever host it was
deployed on; its deprovisioning is sent to the wrong host, fails, and the master is
never untainted.

The models reproduce the following as the code has it, and the exceptions of the
properties name them:

- the rollback of a deployment reads `result.leasedIp`, the engine returns `ipLeased`
  (`hn/tasks/index.js:213`): the address is lost until a restart;
- a scale-up mounts local volumes from a row read before they are attached
  (`tc/tasks/tasks.runtime.js:804`);
- `scheduleWorkspaceDelete` does not look for open tasks
  (`api/controllers/tasks/index.js:609`), and a workspace without nodes is never deleted
  (`tc/tasks/index.js:319`);
- removing an application leaves its VirtualServer, because the host reads rows whose
  deletion is not committed (`tc/tasks/tasks.apps.js:435`, `hn/tasks/task.apps.js:451`);
  removing a service leaves it because a column is not selected
  (`hn/tasks/task.ingress.js:666`);
- virtual ports in use are compared as rows with a number (`tc/tasks/tasks.nginx.js:46`),
  so that a used port can be drawn;
- the undo of a failed binding of a domain stores no domain (`tc/tasks/tasks.runtime.js:377`);
- a failing commit leads to a rollback on a client that was released; it throws in the
  catch block and the row stays `IN_PROGRESS` (`tc/db/index.js:51`);
- blocks of a namespace or service are found by a name that may occur in a longer one
  (`tc/nginx/default.js:162`, `tc/nginx/tcp.js:139`);
- `updateUpstreamServersForCluster` removes servers from a list while an index runs over
  it and rewrites the upstreams of every workspace (`tc/nginx/index.js:57`);
- the undo of a gluster unmount throws a `ReferenceError` (`tc/tasks/tasks.gluster.js:248`);
- the catch blocks of the nginx operations test the backup for truth, which the empty text
  `default.conf` begins with is not: it is not put back (`tc/nginx/index.js:43`, `136`,
  `307`, `359`);
- the catch block of a service's removal asks a host before it writes `ERROR`; a refusal
  leaves the row `IN_PROGRESS` (`tc/tasks/tasks.services.js:175`);
- an update with nothing to do writes `DONE` over a row that is not `IN_PROGRESS`
  (`tc/tasks/tasks.runtime.js:265`);
- an organisation's task settles in `ERROR` when a statement fails, and is not tried again
  (`tc/tasks/index.js:259`);
- the result of `umount` is not looked at (`hn/tasks/task.volume.js:300`);
- a scale-down detaches and deletes disks of bound volumes before it asks for the removal
  of the worker, which may be refused (`tc/tasks/tasks.runtime.js:663`);
- a host swallows the failure to remove the VM of a deployment that failed
  (`hn/tasks/index.js:263`), and leaves the node in kubernetes when it had joined
  (`hn/engines/virtualbox/index.js:555`);
- exit codes of kubectl are not looked at when nodes are tainted, untainted and deleted
  (`hn/tasks/task.runtime.js:546`, `hn/os/index.js:417`);
- a namespace whose role bindings fail is deleted again, and the failure of that swallowed
  (`hn/tasks/task.runtime.js:75`);
- a grant to a user keycloak does not find exactly once is skipped in silence
  (`tc/keycloak/index.js:152`);
- a replacement deletes the old version's row outside its transaction
  (`tc/tasks/tasks.apps.js:1007`);
- workspace names are checked before rows are inserted
  (`api/services/workspaces/workspaces.class.js:21`), and memberships are granted to
  whichever groups have the name (`tc/keycloak/index.js:339`).

### Bounds

Every bound is a constant that appears in a guard, never in a state constraint, so
liveness is checked on complete behaviours.

- *Two calls, three rows:* overlap needs two calls with a common row; the third row
  lets a list be non-trivial while another is executed. The proofs cover any number.
- *One request of each kind, two hosts:* requests do not share state except the
  caller's crash; two hosts are what `collect` needs to miss one.
- *Each nginx operation once:* each can be the first, the waiting or the failing
  one, and two reloads can be refused in one behaviour (the reload and its undo).
- *Three addresses, three deployments:* with one address reserved the pool runs dry
  and an address is handed on after a return.
- *Two ports, three volumes:* ports run out, and a lower port is freed, which is the gap
  a growing cluster does not reproduce. The code has nineteen ports. Two faults are a failure
  and a failure while it is undone.
- *One workspace, two deletions:* workspaces of an organisation meet only in its
  deletion, which looks at all of them; two deletions are what one stale payload
  needs. One worker is a limit of this module; `ClusterScale`
  has three.
- *Three tags, five tasks, two faults:* a canary, a split, a replacement and a
  removal in one behaviour, with a failing request and a failing rollback. Removing
  one of three versions leaves two, which divide 100 evenly; the remainder given to
  the last of three remaining versions would need a fourth tag.
- *Three services, two namespaces, two ports:* one stream and one HTTP service meet in a
  namespace, two of a kind draw the same port, and both kinds of prefix occur. Four tasks
  provision two services, publish one and remove it; one fault makes one request fail or
  go unanswered, and the undos it leads to can fail without another.
- *Three workers, two hosts, one volume:* a skipped server needs two removed workers next
  to each other, an orderly removal a third; two faults are a failure and a failure while
  it is undone. `MaxScale` is the number of workers a task asks for.
- *Two workspaces of one name, one deletion, two events:* a predecessor and a successor,
  and every pair of failures of keycloak or of the task that uses it.
- *Symmetry* is used only in runs without liveness, over sets of interchangeable
  model values.

### Fairness

- `TaskQueue`: the timer keeps firing while rows are pending, and a call that is
  executing goes on, because requests have timeouts and statements return or fail.
  Nothing is assumed of clients, announcements or crashes.
- `RequestResponse`: an armed timer fires. No message needs to arrive.
- `NginxProxy`: a waiting call polls again and an awaited command returns; a hanging
  preparation is an outcome of its own.
- `WorkspaceLifecycle`: the controller takes up pending tasks, a host ends a
  deployment and an API request is carried through. A creation task is settled; that
  some host has enough memory for it is part of that assumption.

## Proofs

Every invariant and action property a passing run checks, for all ten components, is
also a theorem. Assumptions are the named `ASSUME`s of the modules: identifiers of rows
are natural numbers, `NoTask` is no row, the rows with a course of their own (deferrable,
updates, volumes, undoing) are rows; every nginx call has
one of the four operations; collect requests are not requests of the API or of a host;
the pool of addresses lists none twice; weights are at most `Total`; services belong to
namespaces and these to workspaces, and names that begin with another one are those of
namespaces or of services with an HTTP port; the servers of another workspace are others,
at least one and finitely many; `ClusterAdmin` is one of the groups; bounds are natural
numbers. `Given`, in two of the modules, repeats such assumptions as one fact. All theorems
hold for every value of the constants that satisfies them: any number of rows, calls, nodes,
volumes, ports, addresses, versions, services, workspaces, users, tasks and faults.

Each module has an inductive invariant (`IInv` in most), which TLC checked on the
instance of the component's run, or a smaller one, before it was proved. Its lemmas say
what the operators of the model do, then that every action keeps each part of the
invariant, with one step per action. The history variables are in the theorems as they
are in the properties: what is proved is that nothing but the named events breaks them.

**TaskQueueProofs.** `IInv` ties `cur`, `stage` and `bussyTaskIds` together:
a row is in `bussyTaskIds` exactly when some call has it as `cur`, no two calls
have the same one, a call is inside a handler exactly when it has a row, the row of a working
handler is `IN_PROGRESS`, and lists and announcements name rows that exist.
`NoConcurrentExecution` alone is not inductive: `Claim` is safe only because the id list is
exact. From `IInv` follow
`MutualExclusion`, `BussyExact`, `WorkingRows`, the action property `SettledRows` and
`Refinement`, in which every step maps to a step of `TaskLifecycle` or a stutter.
`NoOrphans` needs `NoneLeftBehind`: without a fault an `IN_PROGRESS` row that is not one of
`Undoing` has a working handler, and a row that was just claimed is not `IN_PROGRESS`, because then it would have
had a handler and been in `bussyTaskIds`.

**NginxProxyProofs.** `LockInv` (at most one call in the critical section, `bussy`
while one is, and `bussy` explained by a call at work or a failed preparation) is
inductive and gives `CallsExclude` and `BussyIsExplained`. `EditInv` adds that what the
working call has read is still what the files hold, that finished edits stay and that
backups hold them: without that an undo could drop another call's edit. `HalfInv`
adds that only finished and abandoned calls have left edits, and failed ones that had
nothing to put back, which gives `FailuresAreUndone`. `SuccessReachesNginx` rests on `EditInv`: nginx loads both files,
which hold every promised edit at every reload, those of undone calls included.

**RequestResponseProofs.** `CallerInv` says that an entry in `pendingResponses` is an
open promise, that an open promise was never settled and a settled one once, and that
an unasked one has no trace. `RefInv` adds where answers come from: one on the wire
or among the payloads is of a host that finished the work, and work is done only for
requests that were asked. `RequestsImplementRpc` is the refinement of `Rpc`.

**IpLeaseProofs.** `UniqueIps` speaks of nodes and the pool, but an address is on its way
between them most of the time. `Claim` names everyone who may have it: the node, the
answer of a request, the message that gives it back, the deletion task, the ping that
probes it. `OneClaim` (no two of them have the same address), `OfferedIsFree` (none has
one of the pool) and the injectivity of the pool are inductive together, as long as
nothing was disturbed: a step passes a claim on, drops it, or makes one on an address of
the pool or on one whose last claim ends. `OnlyKeeps` says that the filter of `init()`
repeats no address; it counts the positions before two places instead of going through
the list. From it follows `AddressesUnique`.

**LocalVolumeProofs.** One `port_index` stands for a port every host chooses by itself.
`PInv` says why that works on nodes nothing disturbed: their disks are the bound volumes
and those of the task at work, each on its row's port, so that all nodes have the same
free ports (`Placement`, `RowPorts`) and every host takes the same one (`BindShape`). A new
worker is given the bound volumes in the order of their ports, and there is no gap below
these, so that its next free port is that of the next volume (`GrowShape`). `BoundUsable` and
`UnboundDetached` follow; the half of the latter about volumes without a row needs no
condition.

**WorkspaceLifecycleProofs.** `Steady` holds always: a node is deployed once, a worker
after its master, only a deployment that got that far has a VM, rows are of registered
nodes in a present workspace. `UInv` holds until something disturbed it: a host deploys
only what an open task waits for, a VM has its row or its deployment at work, a workspace
being deleted has no open task and no VM the deletion does not list, a deletion that is
done left no VM, an organisation that passed its check has no workspace. The property alone
says nothing of the deletions under way, from which its last part comes. It gives `NoOrphan`
and the action property `OrgLast`.

**AppVersionsProofs.** Every task brings rows, releases and VirtualServer apart and
together again; the invariant says how far apart they are at each step. `Released`: they
name the same versions, except for the one being installed, the one being replaced, also
while that is undone (`Undoing`), and those of an application being deleted. `AppRows`: what the task at work may rely on in the
rows. `Told`: before the load balancer and before the old version goes, the VirtualServer
says what the rows say. `RowsMatch`, `RuleFollows` and the action property
`ReplacedAfterTakeover` follow. `TypeCorrect` includes that the weights written when a
version is removed are between 0 and `Total` (`Average`).

`SharesAddUp` needs little of the invariant (`TotalInv`: the rows add up to `Total` unless
`skewed`, and so does the split a task carries), but a sum: `SumFunction` is a fold over the
versions in an order nobody knows. `Least` takes the least number principle from the library
(`WFMin`), and `AllNumbers` makes it induction over a set of numbers, which is then defined
for each use, because the library's induction theorems take an operator. With it: the
recursion of the fold has a solution on every finite domain (`AddedUpTo`), the order does not
matter (`AnyOrder`), there is one sum (`OneSum`, `SumIs`). `SumWithout` takes an item out of
a sum and `SumEqual` adds equal ones up; a replacement (`ShareTaken`) and the division after
a removal (`EqualWhole`) follow from these two.

**ServiceRoutingProofs.** A task makes, one after another, the volume, the claim, the
release, the rows, the preset, the rule of the ingress and the server block of one service.
The invariant says for each service which of these there are, from the task at work for it
(`TaskOf`): `Rows`, `Storage`, `Rules` and `Blocks`; `Hearing` has the listeners of a
workspace, `Told` the presets of a namespace, `Fresh` that an empty `default.conf` has no block, and
`Served` that no two services of a kind have a block on one port. A backup is an earlier picture of the ingress that an undo puts back, perhaps
after steps of tasks of other workspaces; `OwnBackup` and `Hearing` say why that harms no other service. A
regeneration of a namespace's blocks touches services of other tasks, and what it leaves of
each is `HttpGenerated` and `TcpGenerated` with `LostBlocks`. `StorageFollowsRows`,
`ClusterFollows` and `ProxyFollows` are what is left of it between tasks.

**ClusterGroups, in TaskQueueProofs.** Keycloak finds groups by a name that several
rows bear one after another. `Alone`: while a workspace that shared its name with no other is
present, nobody else has an open task or a request on memberships, so that the name means
this workspace. `GroupsMade`, `NamesAll` and `CleanedUp` follow its groups from their creation
to their clean-up. Requests may be let through before the groups are made: `Unasked` and
`Unheld` say that these are requests of users the property excludes (`mixed`). `OneEach`
(such a user apart, at most one open request each) makes the steps of a grant one sequence,
and `Granting` says what it has granted so far. `GroupsFollow` and `MembershipsFollow` follow.

**ClusterScale with GlusterVolume, in NginxProxyProofs.** `Binding`, `Unbinding` and
`Mounting` say on which nodes the volume of a job is mounted and authorised at each step of
its mounting, unmounting and rollbacks, `VolumesMounted` the same of all other volumes, but
on the nodes a scaling still owes (`Owed`). `Follows` has rows, VMs, members and taint at each
step of scaling up, undoing and scaling down; `Published` the upstream. These give `Holding`,
`RowsFollowed` and `UpstreamFollowed`. The last rests on the list the code edits while it
runs over it: `ItemsKept` says what `ItemsAt` has, `SkippedIs` which servers the pass
removes (each hides the one after it), and `UpdatedOrderly` that after an orderly update the
servers are those asked for, in lists of any length: a hidden one was to stay, or all were to
go and one was left alone.

Only model-checked:

- every liveness property (`PendingIsExecuted`, `CallsEnd`, `RequestsSettle`,
  `OrgIsDeleted`): liveness under fairness and `ENABLED` are outside what the installed
  provers can do;
- the two violations (`nginx_proxy_stuck`, `master_takes_over`), which are counterexamples
  TLC finds.

The modules with theorems declare and reach no recursive operator.

## Abstractions

- Requests to hosts are one step with up to four outcomes (done, refused, done without an
  answer, not done without an answer) in every module after `RequestResponse`, which
  establishes that a request behaves so.
- The API's check for open tasks and its insertion of a task are one step, except in
  `ClusterGroups`, which separates what a request checks from what it does. `LocalVolume`,
  `AppVersions`, `ServiceRouting` and `ClusterScale` therefore have one task of a workspace
  at a time; tasks of different workspaces interleave in `ServiceRouting` and
  `ClusterScale`.
- VMs are on the host their row names, except in `ClusterScale`.
- `ServiceRouting` reads the rows in the step that writes the proxy; the wait in between
  and the lock are those of `NginxProxy`. A service has one ClusterIP port, and a subdomain
  counts as a domain.
- Only the multipaas mode is modelled; in unipaas mode hosts are the nodes and there
  are no VMs or virtual disks.
- Device names are ports, a VM is on or gone (a VM left powered off by a failed
  detachment is not distinguished), a file system has no content.
- `AppVersions` identifies versions by tag and leaves out replicas, volume claims, TCP
  ports and applications that are not exposed. Its `rule` is the VirtualServer of the present
  application, whose name has the virtual port drawn for it; one that an earlier creation
  left behind is another object under another name and is not in the model.

## Not modelled

Event streams (nothing depends on their delivery), the choice of a host by free
memory or disk (a free choice in the models), docker builds, ssh and kubectl commands
(a step that succeeds or fails), the satelite agent (stateless), CLI forms around HTTP
calls, installation scripts, vendored helm charts, permission hooks of the API (they
read), certificates, and the bricks of gluster. Parts with logic of their own
that are not modelled yet: the pool of database connections (only its effect on a
failing commit is), claims on volumes users ask for, the volumes dedicated to a service,
the scaling of applications, and users and roles of organisations.

## Plan

Done, in this order because each rests on the ones before: the task queue (everything
runs in it), requests (everything asks through them), nginx and leases (shared by all
tenants), volumes, workspaces, applications, services with their routes, domains,
ingress and proxy, gluster volumes with the scaling of clusters, keycloak groups.

Left to model:

1. `ServiceRouting` composed with the lock of `NginxProxy`: a configuration is made from
   rows read before the call waits (`tc/tasks/tasks.nginx.js:109`), so an older snapshot can
   be written last.
2. The check for open tasks and the insertion of a task as separate steps, for the tasks
   other than those of `ClusterGroups`.
3. Volumes dedicated to a service and claims on volumes, composed with `LocalVolume`.
4. Users and roles of organisations.

Left to prove: what those modules will add. Of the present ones everything but liveness is
proved.
