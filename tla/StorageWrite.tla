---------------------------- MODULE StorageWrite ----------------------------
(* Writes to a VIOS's storage (client/client_storage.py and                  *)
(* operations/storage/resources.py).  The HMC has no call for one disk, one  *)
(* medium or one mapping: a caller reads a whole volume group, or the whole  *)
(* set of vSCSI mappings, edits the document and posts all of it back under  *)
(* the ETag of its GET.  An ISO reaches the media repository through a web   *)
(* File that the HMC imports after the bytes have arrived.                   *)
(*                                                                           *)
(* Callers run one call each at a time; anybody else with an HMC session may *)
(* change the group or the mappings between two requests.                    *)
EXTENDS Naturals, FiniteSets

CONSTANTS
  Callers,   \* callers of the operations
  Names,     \* names a disk or a medium may have
  Sizes,     \* sizes a repository may have, in GiB
  Targets,   \* target devices of the VIOS; each stands for a mapping identity
  Lpars,     \* client partitions
  Owned,     \* those whose ownership stamp lets a caller change them
  Others,    \* bound: changes made by anybody else
  MaxCalls   \* bound: calls in all

StorageAssumption ==
  /\ Owned \subseteq Lpars /\ Sizes \subseteq Nat \ {0} /\ Others \in Nat /\ MaxCalls \in Nat
  /\ Names # {} /\ Sizes # {} /\ Targets # {} /\ Lpars # {} /\ "none" \notin Callers

VARIABLES
  (* the HMC *)
  group,    \* the volume group: its disks, its repository (0: none) and the media in it
  maps,     \* the vSCSI mappings of the VIOS
  files,    \* callers whose web File the HMC holds
  intake,   \* callers whose ISO the HMC has taken and not imported yet
  (* the callers *)
  call, pc, outcome,
  draft,    \* the edited group a caller is about to post
  rewired,  \* the edited set of mappings a caller is about to post
  stale,    \* callers whose ETag no longer matches
  (* history *)
  free,     \* callers whose named storage was unmapped at some time since they began
  since,    \* media added under a caller's name since it last looked for one
  leaked,   \* callers that could not know, or could not release, their web File
  others, calls

hmc     == <<group, maps, files, intake>>
history == <<free, since, leaked>>
edits   == <<draft, rewired>>
vars    == <<hmc, call, pc, outcome, edits, stale, history, others, calls>>

-----------------------------------------------------------------------------
(* Calls.                                                                    *)

GroupWrites == {"create_virtual_disk", "delete_virtual_disk", "create_media_repository",
                "delete_media_repository", "create_optical_media", "delete_optical_media"}
Removals    == {"delete_virtual_disk", "delete_optical_media"}
Detaches    == {"detach_storage_mapping", "unmount_optical_media"}
MapWrites   == {"map_storage", "mount_optical_media"} \cup Detaches

Call == [op : GroupWrites \cup MapWrites \cup {"upload_iso", "none"},
         name : Names, size : Sizes, target : Targets, lpar : Lpars]

NoCall == CHOOSE k \in Call : k.op = "none"
Empty  == [disks |-> {}, repo |-> 0, media |-> {}]

\* What a caller asks for; a call has no use for the fields it does not name.
Fields(op) ==
  CASE op \in {"map_storage", "mount_optical_media"} -> {"name", "target", "lpar"}
    [] op = "detach_storage_mapping"  -> {"target"}
    [] op = "unmount_optical_media"   -> {"name", "lpar"}
    [] op = "create_media_repository" -> {"size"}
    [] op = "delete_media_repository" -> {}
    [] OTHER -> {"name"}

Request ==
  {k \in Call : k.op # "none" /\ \A f \in {"name", "size", "target", "lpar"} \ Fields(k.op) : k[f] = NoCall[f]}

\* A medium is known by its name and by who made it, a mapping by its target.
Medium  == Names \X (Callers \cup {"none"})
VscsiMapping == [target : Targets, lpar : Lpars, kind : {"disk", "medium"}, name : Names]

Named(media, n) == {x \in media : x[1] = n}
Storage(k) == IF k.op \in {"delete_virtual_disk", "map_storage"} THEN "disk" ELSE "medium"
Mapped(k, m) == \E x \in m : x.kind = Storage(k) /\ x.name = k.name

\* The mapping a create appends: one target device, one client partition.
New(k) == [target |-> k.target, lpar |-> k.lpar, kind |-> Storage(k), name |-> k.name]

\* The edit of each operation, as the set of groups it may post: empty when it
\* refuses.  A create refuses a name or a repository that is there, a removal what
\* is not there and, for the repository, media that are.
DiskCreated(k, g) == {[g EXCEPT !.disks = @ \cup {n}] : n \in {k.name} \ g.disks}
DiskDeleted(k, g) == {[g EXCEPT !.disks = @ \ {n}] : n \in {k.name} \cap g.disks}
RepositoryCreated(k, g) == {[g EXCEPT !.repo = k.size] : s \in {0} \cap {g.repo}}
RepositoryDeleted(g) == {[g EXCEPT !.repo = 0] : s \in IF g.media = {} THEN {g.repo} \ {0} ELSE {}}
MediumCreated(c, k, g) == {[g EXCEPT !.media = @ \cup {<<k.name, c>>}] : s \in {g.repo} \ {0}}
MediumDeleted(k, g) == {[g EXCEPT !.media = @ \ {x}] : x \in Named(g.media, k.name)}

Edits(c, k, g) ==
  CASE k.op = "create_virtual_disk"     -> DiskCreated(k, g)
    [] k.op = "delete_virtual_disk"     -> DiskDeleted(k, g)
    [] k.op = "create_media_repository" -> RepositoryCreated(k, g)
    [] k.op = "delete_media_repository" -> RepositoryDeleted(g)
    [] k.op = "create_optical_media"    -> MediumCreated(c, k, g)
    [] k.op = "delete_optical_media"    -> MediumDeleted(k, g)

\* What is asked for is so already: the call returns without a write.
Idle(k, g) ==
  \/ k.op = "create_media_repository" /\ g.repo = k.size
  \/ k.op = "delete_media_repository" /\ g.repo = 0
  \/ k.op = "delete_optical_media" /\ Named(g.media, k.name) = {}

\* _detach_one takes a mapping only if it is still the authorized partition's;
\* _refuse_mapped_optical_target keeps a target device with a medium from a second
\* one; _append_mapping adds to the mappings that were read.
Detached(k, m) == {m \ {x} : x \in {y \in m : y.target = k.target /\ y.lpar = k.lpar}}
TargetInUse(k, m) == \E x \in m : x.kind = "medium" /\ x.target = k.target
Appended(k, m) == {m \cup {New(k)}}

\* The mappings a call posts after reading m.
Rewires(k, m) ==
  IF k.op \in Detaches THEN Detached(k, m)
  ELSE IF k.op = "mount_optical_media" /\ TargetInUse(k, m) THEN {} ELSE Appended(k, m)

-----------------------------------------------------------------------------
(* Changes at the HMC.  Every one gives its resource a new ETag.             *)

Holds(c, ops) == pc[c] = "post" /\ call[c].op \in ops

GroupBecomes(g) ==
  /\ group' = g
  /\ stale' = stale \cup {c \in Callers : Holds(c, GroupWrites)}
  /\ since' = [c \in Callers |->
                 IF pc[c] \in {"file", "stream", "poll"}
                 THEN since[c] \cup Named(g.media \ group.media, call[c].name) ELSE since[c]]
  /\ UNCHANGED <<maps, free>>

MapsBecome(m) ==
  /\ maps' = m
  /\ stale' = stale \cup {c \in Callers : Holds(c, MapWrites)}
  /\ free' = free \cup {c \in Callers : call[c].op \in Removals /\ ~Mapped(call[c], m)}
  /\ UNCHANGED <<group, since>>

\* Anybody else changes one thing.
OtherChanges ==
  /\ others < Others /\ others' = others + 1
  /\ \/ \E n \in Names : GroupBecomes([group EXCEPT !.disks = IF n \in @ THEN @ \ {n} ELSE @ \cup {n}])
     \/ \E s \in Sizes : group.repo = 0 /\ GroupBecomes([group EXCEPT !.repo = s])
     \/ group.repo # 0 /\ GroupBecomes([group EXCEPT !.repo = 0, !.media = {}])
     \/ \E n \in Names : group.repo # 0 /\ GroupBecomes([group EXCEPT !.media = @ \cup {<<n, "none">>}])
     \/ \E x \in group.media : GroupBecomes([group EXCEPT !.media = @ \ {x}])
     \/ \E x \in maps : MapsBecome(maps \ {x})
     \/ \E x \in VscsiMapping : (\A y \in maps : y.target # x.target) /\ MapsBecome(maps \cup {x})
  /\ UNCHANGED <<files, intake, call, pc, outcome, edits, leaked, calls>>

-----------------------------------------------------------------------------
(* One call.                                                                 *)

\* A finished call keeps nothing of what it read.
Ends(c, how) == pc' = [pc EXCEPT ![c] = "idle"] /\ outcome' = [outcome EXCEPT ![c] = how]
Forgets(c) ==
  /\ draft' = [draft EXCEPT ![c] = Empty] /\ rewired' = [rewired EXCEPT ![c] = {}]
  /\ call' = [call EXCEPT ![c] = NoCall]
Goes(c, next) == pc' = [pc EXCEPT ![c] = next] /\ UNCHANGED outcome
Reads == UNCHANGED <<hmc, stale, history, others, calls>>

First(k) ==
  CASE k.op \in Detaches \cup Removals \cup {"delete_media_repository"} -> "check"
    [] k.op = "upload_iso" -> "look"
    [] OTHER -> "get"

\* The operation resolves its VIOS and group and, but for a detach, which learns
\* its partition from the mapping, authorizes the partition it is given.
Begin(c, k) ==
  /\ pc[c] = "idle" /\ calls < MaxCalls /\ calls' = calls + 1
  /\ (k.op \in MapWrites \ {"detach_storage_mapping"} => k.lpar \in Owned)
  /\ c \notin files \cup intake   \* one whose ISO or File is still there makes no other call
  /\ call' = [call EXCEPT ![c] = k]
  /\ Goes(c, First(k))
  /\ free' = (IF k.op \in Removals /\ ~Mapped(k, maps) THEN free \cup {c} ELSE free \ {c})
  /\ since' = [since EXCEPT ![c] = {}]
  /\ UNCHANGED <<hmc, edits, stale, leaked, others>>

\* The listing an operation reads before the client's own GET.  It may fail, and
\* then nothing is written.
Listed(c, op, ok) ==
  /\ pc[c] = "check" /\ call[c].op = op
  /\ (ok /\ Goes(c, "get")) \/ Ends(c, "refused")
  /\ UNCHANGED <<call, edits>> /\ Reads

\* Mutant: the disk's mappings are not looked at.
CheckDiskUnmapped(c) == Listed(c, "delete_virtual_disk", TRUE)

\* A mapped disk or medium and a repository with media are not removed.
CheckDisk(c)       == Listed(c, "delete_virtual_disk", ~Mapped(call[c], maps))
CheckMedium(c)     == Listed(c, "delete_optical_media", ~Mapped(call[c], maps))
CheckRepository(c) == Listed(c, "delete_media_repository", group.media = {})

\* A detach and an unmount learn the identity of their mapping, or refuse.
Finds(c, op, found) ==
  /\ pc[c] = "check" /\ call[c].op = op
  /\ \/ \E x \in found :
          call' = [call EXCEPT ![c].target = x.target, ![c].lpar = x.lpar] /\ Goes(c, "get")
     \/ Ends(c, "refused") /\ UNCHANGED call
  /\ UNCHANGED edits /\ Reads

\* The partition of the mapping is the one that is authorized.
FindMapping(c) ==
  Finds(c, "detach_storage_mapping", {x \in maps : x.target = call[c].target /\ x.lpar \in Owned})

\* The one mapping of the medium on the partition; two are ambiguous.
FindMedium(c) ==
  LET found == {x \in maps : x.kind = "medium" /\ x.name = call[c].name /\ x.lpar = call[c].lpar}
  IN Finds(c, "unmount_optical_media", {x \in found : found = {x}})

Refuses(c) == Ends(c, "refused") /\ UNCHANGED <<edits, stale>>

\* _get_vg_raw_xml, the edit and _required_etag: the call refuses before any write
\* when the read fails, carries no ETag or does not allow the edit.
GetGroup(c) ==
  /\ pc[c] = "get" /\ call[c].op \in GroupWrites
  /\ \/ \E g \in Edits(c, call[c], group) :
          draft' = [draft EXCEPT ![c] = g] /\ stale' = stale \ {c} /\ Goes(c, "post") /\ UNCHANGED rewired
     \/ Idle(call[c], group) /\ Ends(c, "unchanged") /\ UNCHANGED <<edits, stale>>
     \/ Refuses(c)
  /\ UNCHANGED <<hmc, call, history, others, calls>>

\* The GET of _rmw_vios_mapping and its mutate callback, with the same refusals.
GetMappings(c) ==
  /\ pc[c] = "get" /\ call[c].op \in MapWrites
  /\ \/ \E m \in Rewires(call[c], maps) :
          rewired' = [rewired EXCEPT ![c] = m] /\ stale' = stale \ {c} /\ Goes(c, "post") /\ UNCHANGED draft
     \/ Refuses(c)
  /\ UNCHANGED <<hmc, call, history, others, calls>>

\* After a 5xx, _reconcile_storage_mutation reads back and says that the write may
\* have taken effect; a lost answer tells nothing either.
Unknown == {"unverified", "lost"}

NotTaken(c) ==
  /\ UNCHANGED <<group, maps, stale, free, since>>
  /\ \E how \in {"refused"} \cup Unknown : Ends(c, how)

Posts(c, ops) ==
  /\ Holds(c, ops) /\ Forgets(c)
  /\ UNCHANGED <<files, intake, leaked, others, calls>>

\* Mutant: the group is posted without If-Match.
PostGroupAnyway(c) ==
  /\ Posts(c, GroupWrites)
  /\ \/ GroupBecomes(draft[c]) /\ \E how \in {"done"} \cup Unknown : Ends(c, how)
     \/ NotTaken(c)

\* _post_vg_xml: the HMC takes the document only under the ETag it still has, else
\* it answers 412.
PostGroup(c) ==
  /\ Posts(c, GroupWrites)
  /\ \/ c \notin stale /\ GroupBecomes(draft[c]) /\ \E how \in {"done"} \cup Unknown : Ends(c, how)
     \/ NotTaken(c)

\* The POST of _rmw_vios_mapping, likewise.  The HMC takes no second mapping of a
\* target device.
PostMappings(c) ==
  /\ Posts(c, MapWrites)
  /\ \/ /\ c \notin stale /\ \A x, y \in rewired[c] : x.target = y.target => x = y
        /\ MapsBecome(rewired[c]) /\ \E how \in {"done"} \cup Unknown : Ends(c, how)
     \/ NotTaken(c)

-----------------------------------------------------------------------------
(* upload_iso.                                                               *)

Quiet == UNCHANGED <<group, maps, call, edits, stale, free, others, calls>>

\* get_media_repository and _refuse_existing_media, before the download.
Look(c) ==
  /\ pc[c] = "look"
  /\ \/ group.repo # 0 /\ Named(group.media, call[c].name) = {} /\ Goes(c, "download")
     \/ Ends(c, "refused")
  /\ UNCHANGED <<files, intake, since, leaked>> /\ Quiet

\* _download_iso_from_url: the time the transfer takes, and its failures.
Download(c) ==
  /\ pc[c] = "download"
  /\ Goes(c, "recheck") \/ Ends(c, "failed")
  /\ UNCHANGED <<files, intake, since, leaked>> /\ Quiet

\* _refuse_existing_media again: the media are told apart by their name alone.
Recheck(c) ==
  /\ pc[c] = "recheck"
  /\ \/ Named(group.media, call[c].name) = {} /\ Goes(c, "file")
     \/ Ends(c, "refused")
  /\ since' = [since EXCEPT ![c] = {}]
  /\ UNCHANGED <<files, intake, leaked>> /\ Quiet

\* _web_file_create.  Without a readable answer the File's UUID is not known, and
\* a File that was made is never released.
CreateFile(c) ==
  /\ pc[c] = "file"
  /\ \/ files' = files \cup {c} /\ Goes(c, "stream") /\ UNCHANGED leaked
     \/ files' = files \cup {c} /\ Ends(c, "failed") /\ leaked' = leaked \cup {c}
     \/ Ends(c, "failed") /\ UNCHANGED <<files, leaked>>
  /\ UNCHANGED <<intake, since>> /\ Quiet

\* _web_file_upload: on a 5xx or a read timeout the HMC may have all the bytes.
\* Every failure goes to the finally clause that releases the File.
Stream(c) ==
  /\ pc[c] = "stream"
  /\ \E took \in BOOLEAN :
       /\ intake' = IF took THEN intake \cup {c} ELSE intake
       /\ \/ took /\ Goes(c, "poll")
          \/ pc' = [pc EXCEPT ![c] = "release"] /\ outcome' = [outcome EXCEPT ![c] = "failed"]
  /\ UNCHANGED <<files, since, leaked>> /\ Quiet

\* The HMC imports the ISO, or drops it; it may refuse a name it has.
Import(c) ==
  /\ c \in intake /\ intake' = intake \ {c}
  /\ \/ group.repo # 0 /\ GroupBecomes([group EXCEPT !.media = @ \cup {<<call[c].name, c>>}])
     \/ UNCHANGED <<group, maps, stale, free, since>>
  /\ UNCHANGED <<files, call, pc, outcome, edits, leaked, others, calls>>

\* _wait_for_media: a poll lists the name, or fails, or was the last one.
Poll(c) ==
  /\ pc[c] = "poll"
  /\ pc' = [pc EXCEPT ![c] = "release"]
  /\ \/ Named(group.media, call[c].name) # {} /\ outcome' = [outcome EXCEPT ![c] = "uploaded"]
     \/ outcome' = [outcome EXCEPT ![c] = "failed"]
  /\ UNCHANGED <<files, intake, since, leaked>> /\ Quiet

\* _web_file_delete, on every way out: a File that is gone counts as released; a
\* failure is raised only if nothing else is.
Release(c) ==
  /\ pc[c] = "release" /\ pc' = [pc EXCEPT ![c] = "idle"]
  /\ \/ files' = files \ {c} /\ UNCHANGED <<outcome, leaked>>
     \/ /\ leaked' = leaked \cup {c} /\ UNCHANGED files
        /\ outcome' = IF outcome[c] = "uploaded" THEN [outcome EXCEPT ![c] = "unreleased"] ELSE outcome
  /\ UNCHANGED <<intake, since>> /\ Quiet

-----------------------------------------------------------------------------
Init ==
  /\ group = Empty /\ maps = {}
  /\ files = {} /\ intake = {}
  /\ call = [c \in Callers |-> NoCall]
  /\ pc = [c \in Callers |-> "idle"] /\ outcome = [c \in Callers |-> "none"]
  /\ draft = [c \in Callers |-> Empty] /\ rewired = [c \in Callers |-> {}] /\ stale = {}
  /\ free = {} /\ since = [c \in Callers |-> {}] /\ leaked = {}
  /\ others = 0 /\ calls = 0

\* One step of a caller's call.
Step(c) ==
  \/ CheckDisk(c) \/ CheckMedium(c) \/ CheckRepository(c) \/ FindMapping(c) \/ FindMedium(c)
  \/ GetGroup(c) \/ GetMappings(c) \/ PostGroup(c) \/ PostMappings(c)
  \/ Look(c) \/ Download(c) \/ Recheck(c) \/ CreateFile(c) \/ Stream(c) \/ Poll(c) \/ Release(c)

Next ==
  \/ OtherChanges
  \/ \E c \in Callers : Step(c) \/ Import(c) \/ \E k \in Request : Begin(c, k)

Spec == Init /\ [][Next]_vars

-----------------------------------------------------------------------------
(* Properties.                                                               *)

StorageTypeOK ==
  /\ group \in [disks : SUBSET Names, repo : Sizes \cup {0}, media : SUBSET Medium]
  /\ maps \in SUBSET VscsiMapping
  /\ files \subseteq Callers /\ intake \subseteq Callers
  /\ call \in [Callers -> Call] /\ rewired \in [Callers -> SUBSET VscsiMapping]
  /\ draft \in [Callers -> [disks : SUBSET Names, repo : Sizes \cup {0}, media : SUBSET Medium]]
  /\ pc \in [Callers -> {"idle", "check", "get", "post", "look", "download", "recheck", "file",
                         "stream", "poll", "release"}]
  /\ outcome \in [Callers -> {"none", "refused", "unchanged", "done", "unverified", "lost",
                              "failed", "uploaded", "unreleased"}]
  /\ stale \subseteq Callers /\ free \subseteq Callers /\ leaked \subseteq Callers
  /\ since \in [Callers -> SUBSET Medium]

\* Everything the VIOS holds, as one set of things.
Contents(g, m) ==
  {<<"disk", n>> : n \in g.disks} \cup {<<"repository", s>> : s \in {g.repo} \ {0}}
    \cup {<<"medium", x>> : x \in g.media} \cup {<<"mapping", x>> : x \in m}

\* Although every write posts a whole document, a step of a caller or of the HMC
\* for it changes at most one thing: nothing made since the caller read is lost,
\* and a repository takes no medium with it.  A mapping that is added or removed
\* is that of a partition the caller may change, also when its identity has
\* meanwhile been given to another partition.
Confined ==
  \/ others' # others
  \/ /\ Cardinality((Contents(group, maps) \ Contents(group', maps'))
                      \cup (Contents(group', maps') \ Contents(group, maps))) <= 1
     /\ \A x \in (maps \ maps') \cup (maps' \ maps) : x.lpar \in Owned
WritesConfined == [][Confined]_vars

\* A disk or a medium that was mapped all the time since the call began is not
\* removed: the check and the write are two requests, but one of the states in
\* between showed it unmapped.
InUseKept ==
  \A c \in Callers :
    pc[c] = "post" /\ call[c].op \in Removals => c \in free

\* An upload is reported only if a medium of its name was added after the last
\* look found none.
UploadSeen ==
  \A c \in Callers :
    outcome[c] = "uploaded" /\ pc[c] = "release" => since[c] # {}

\* A finished call leaves its web File at the HMC only when it never learned the
\* File's UUID or when the release itself failed.
FilesReleased == \A c \in Callers : pc[c] = "idle" /\ c \in files => c \in leaked

CallsHonest == InUseKept /\ UploadSeen /\ FilesReleased
=============================================================================
