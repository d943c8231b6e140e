------------------------------- MODULE MCArms -------------------------------
(* The arms of the live tests that each make or change something and bring the *)
(* system back, with their recovery checks; the arms that only read; the capture *)
(* of an HMC's vocabulary; the runner that writes what the arms did, the release  *)
(* window that runs them, and the promotion of what they observed with its       *)
(* evidence.  They share no state here (the window and the runner have their own *)
(* abstraction of an arm): they stand side by side, each behaviour runs one of   *)
(* them, and the variables of the others are "off".                              *)
EXTENDS Naturals

VARIABLES
  which,   \* the part that runs
  (* LivePower *)
  armPart, vios, armFlying, armPc, usable, tried, latch, halted, detached, armTodo, removed,
  armRows, armBase, again, armJudged, armVerdict, armLooks, armLate, armFaults, armTouches,
  stops,
  (* LiveNetwork *)
  there, label, side, netFlying, served, used, first, netPc, netBase, netTodo, netRestored,
  netJudged, netRows, differs, netVerdict, netLooks, netLate, netHarm, netFaults, netTouches,
  (* LiveLparConfig *)
  confScratch, confSlots, pools, confChanged, confFlying, probe, confPc, confCut, attempted,
  confKnown, created, confName, confHeld, confRestored, deleted, confRows, confPassed,
  confVerdict, confLate, confHarm, stale, confFaults, confTouches,
  (* LiveBareCec *)
  bareBox, bareFlying, dump, barePc, bareCut, bareMade, ready, applied, bareListed,
  assigned, bareRows, bareClean, bareLate, bareMoved, bareHarm, bareFaults, bareTouches,
  (* LiveStorage *)
  diskDisk, maps, spare, diskFlying, diskDrift, diskPc, round, diskCut, tracked,
  diskRefused, diskRestored, diskRows, diskClean, diskChecked, diskLate, diskSeen, diskHarm,
  diskFaults, diskTouches,
  (* LiveDetachProbe *)
  bayBox, volume, mapping, bayFlying, bayDrift, bayPc, bayAccepted, bayRows, bayVerdict,
  bayMoved, bayHarm, bayFaults, bayTouches,
  (* LiveUsers *)
  profile, userScratch, userOthers, userFlying, userPc, userCut, userNamed, userKnown,
  answers, userShown, userVerdict, userChecked, userLate, did, userFaults, userTouches,
  (* LiveProfiles *)
  setting, synced, active, profFlying, baseline, item, profPc, original, profAccepted,
  profRefused, profShown, profVerdict, told, profLate, profCut, profFaults, profTouches,
  (* LiveViosBackup *)
  vbkMapped, vbkOthers, vbkCatalog, vbkFlying, vbkPc, vbkNamed, vbkAccepted, vbkListed,
  ended, settled, atBase, vbkRows, vbkClean, vbkVerdict, vbkChecked, vbkCut, vbkMoved,
  vbkHarm, vbkFaults, vbkTouches,
  (* ReleaseWindow *)
  residue, winDrift, winHead, child, winHeld, code, snaps, docs, promoted, phase, winPc,
  stage, cancelled, safe, raised, orphaned, winPassed, winExit, ran, returned, reaped,
  winFaults, winTouches,
  (* Promotion *)
  tree, index, commits, branch, branches, try, proPc, proName, proHead, proChanged, proExit,
  proLate, switched, proFaults, proTouches,
  (* ReleaseEvidence *)
  claimed, produced, evdStored, evdCatalog, evdPc,
  (* LivePcm *)
  prefs, capable, pcmFlying, pcmPc, snapshot, turn, pcmAccepted, current, fits, pcmVerdict,
  pcmCut, pcmLate, pcmFaults, pcmTouches,
  (* LiveVolumeGroup *)
  group, pv, wide, volumes, vgrDrift, vgrFlying, vgrPc, runs, vgrNamed, saved, alike,
  vgrVerdict, vgrRow, vgrChecked, vgrCut, vgrLate, vgrMoved, vgrHarm, vgrFaults, vgrTouches,
  (* LiveRound2 *)
  rd2Scratch, fixture, rd2Disk, rd2Mapped, rd2Others, rd2Flying, rd2Pc, shot, rd2Base, read,
  failed, partial, rd2Checked, rd2Known, stopped, rd2Late, rd2Harm, rd2Faults, rd2Touches,
  (* LiveRunner *)
  things, rnrFlying, limited, commit, dirty, rnrCatalog, doc, obs, rnrPc, path, subset,
  rnrKnown, arts, witness, rnrSeen, rnrMade, rnrRow, loaded, lost, rnrMoved, rnrHarm,
  rnrFaults, rnrTouches,
  (* LiveInventory *)
  arm, world, want, invPc, feed, state, invRow, lp3, invKnown, invSlots, unowned, invRows,
  ports, noted, invPassed, views, picked, invFaults, invTouches,
  (* LiveCapture *)
  cptPart, cptPc, outcome, home, system, lpar, byName, sysKnown, sysNamed, target, seams,
  enabled, open, flight, cptMade, recs, log, wrote, strayed, raw, private, corpus,
  cptStored, vocabulary, cptFaults, cptTouches

armVars ==
  <<armPart, vios, armFlying, armPc, usable, tried, latch, halted, detached, armTodo,
    removed, armRows, armBase, again, armJudged, armVerdict, armLooks, armLate, armFaults,
    armTouches, stops>>
netVars ==
  <<there, label, side, netFlying, served, used, first, netPc, netBase, netTodo,
    netRestored, netJudged, netRows, differs, netVerdict, netLooks, netLate, netHarm,
    netFaults, netTouches>>
confVars ==
  <<confScratch, confSlots, pools, confChanged, confFlying, probe, confPc, confCut,
    attempted, confKnown, created, confName, confHeld, confRestored, deleted, confRows,
    confPassed, confVerdict, confLate, confHarm, stale, confFaults, confTouches>>
bareVars ==
  <<bareBox, bareFlying, dump, barePc, bareCut, bareMade, ready, applied, bareListed,
    assigned, bareRows, bareClean, bareLate, bareMoved, bareHarm, bareFaults, bareTouches>>
diskVars ==
  <<diskDisk, maps, spare, diskFlying, diskDrift, diskPc, round, diskCut, tracked,
    diskRefused, diskRestored, diskRows, diskClean, diskChecked, diskLate, diskSeen,
    diskHarm, diskFaults, diskTouches>>
bayVars ==
  <<bayBox, volume, mapping, bayFlying, bayDrift, bayPc, bayAccepted, bayRows, bayVerdict,
    bayMoved, bayHarm, bayFaults, bayTouches>>
userVars ==
  <<profile, userScratch, userOthers, userFlying, userPc, userCut, userNamed, userKnown,
    answers, userShown, userVerdict, userChecked, userLate, did, userFaults, userTouches>>
profVars ==
  <<setting, synced, active, profFlying, baseline, item, profPc, original, profAccepted,
    profRefused, profShown, profVerdict, told, profLate, profCut, profFaults, profTouches>>
vbkVars ==
  <<vbkMapped, vbkOthers, vbkCatalog, vbkFlying, vbkPc, vbkNamed, vbkAccepted, vbkListed,
    ended, settled, atBase, vbkRows, vbkClean, vbkVerdict, vbkChecked, vbkCut, vbkMoved,
    vbkHarm, vbkFaults, vbkTouches>>
winVars ==
  <<residue, winDrift, winHead, child, winHeld, code, snaps, docs, promoted, phase, winPc,
    stage, cancelled, safe, raised, orphaned, winPassed, winExit, ran, returned, reaped,
    winFaults, winTouches>>
proVars ==
  <<tree, index, commits, branch, branches, try, proPc, proName, proHead, proChanged,
    proExit, proLate, switched, proFaults, proTouches>>
evdVars ==
  <<claimed, produced, evdStored, evdCatalog, evdPc>>
pcmVars ==
  <<prefs, capable, pcmFlying, pcmPc, snapshot, turn, pcmAccepted, current, fits,
    pcmVerdict, pcmCut, pcmLate, pcmFaults, pcmTouches>>
vgrVars ==
  <<group, pv, wide, volumes, vgrDrift, vgrFlying, vgrPc, runs, vgrNamed, saved, alike,
    vgrVerdict, vgrRow, vgrChecked, vgrCut, vgrLate, vgrMoved, vgrHarm, vgrFaults,
    vgrTouches>>
rd2Vars ==
  <<rd2Scratch, fixture, rd2Disk, rd2Mapped, rd2Others, rd2Flying, rd2Pc, shot, rd2Base,
    read, failed, partial, rd2Checked, rd2Known, stopped, rd2Late, rd2Harm, rd2Faults,
    rd2Touches>>
rnrVars ==
  <<things, rnrFlying, limited, commit, dirty, rnrCatalog, doc, obs, rnrPc, path, subset,
    rnrKnown, arts, witness, rnrSeen, rnrMade, rnrRow, loaded, lost, rnrMoved, rnrHarm,
    rnrFaults, rnrTouches>>
invVars ==
  <<arm, world, want, invPc, feed, state, invRow, lp3, invKnown, invSlots, unowned, invRows,
    ports, noted, invPassed, views, picked, invFaults, invTouches>>
cptVars ==
  <<cptPart, cptPc, outcome, home, system, lpar, byName, sysKnown, sysNamed, target, seams,
    enabled, open, flight, cptMade, recs, log, wrote, strayed, raw, private, corpus,
    cptStored, vocabulary, cptFaults, cptTouches>>

Arm == INSTANCE LivePower WITH
  MaxFaults <- 2, MaxTouches <- 1, MaxStops <- 1, part <- armPart, flying <- armFlying,
  pc <- armPc, todo <- armTodo, rows <- armRows, base <- armBase, judged <- armJudged,
  verdict <- armVerdict, looks <- armLooks, late <- armLate, faults <- armFaults,
  touches <- armTouches
Net == INSTANCE LiveNetwork WITH
  MaxFaults <- 1, MaxTouches <- 1, flying <- netFlying, pc <- netPc, base <- netBase,
  todo <- netTodo, restored <- netRestored, judged <- netJudged, rows <- netRows,
  verdict <- netVerdict, looks <- netLooks, late <- netLate, harm <- netHarm,
  faults <- netFaults, touches <- netTouches
Conf == INSTANCE LiveLparConfig WITH
  MaxFaults <- 2, MaxTouches <- 1, scratch <- confScratch, slots <- confSlots,
  changed <- confChanged, flying <- confFlying, pc <- confPc, cut <- confCut,
  known <- confKnown, name <- confName, held <- confHeld, restored <- confRestored,
  rows <- confRows, passed <- confPassed, verdict <- confVerdict, late <- confLate,
  harm <- confHarm, faults <- confFaults, touches <- confTouches
Bare == INSTANCE LiveBareCec WITH
  MaxFaults <- 2, MaxTouches <- 1, box <- bareBox, flying <- bareFlying, pc <- barePc,
  cut <- bareCut, made <- bareMade, listed <- bareListed, rows <- bareRows,
  clean <- bareClean, late <- bareLate, moved <- bareMoved, harm <- bareHarm,
  faults <- bareFaults, touches <- bareTouches
Disk == INSTANCE LiveStorage WITH
  MaxFaults <- 2, MaxTouches <- 1, disk <- diskDisk, flying <- diskFlying,
  drift <- diskDrift, pc <- diskPc, cut <- diskCut, refused <- diskRefused,
  restored <- diskRestored, rows <- diskRows, clean <- diskClean, checked <- diskChecked,
  late <- diskLate, seen <- diskSeen, harm <- diskHarm, faults <- diskFaults,
  touches <- diskTouches
Bay == INSTANCE LiveDetachProbe WITH
  MaxFaults <- 2, MaxTouches <- 1, box <- bayBox, flying <- bayFlying, drift <- bayDrift,
  pc <- bayPc, accepted <- bayAccepted, rows <- bayRows, verdict <- bayVerdict,
  moved <- bayMoved, harm <- bayHarm, faults <- bayFaults, touches <- bayTouches
User == INSTANCE LiveUsers WITH
  MaxFaults <- 2, MaxTouches <- 1, scratch <- userScratch, others <- userOthers,
  flying <- userFlying, pc <- userPc, cut <- userCut, named <- userNamed,
  known <- userKnown, shown <- userShown, verdict <- userVerdict, checked <- userChecked,
  late <- userLate, faults <- userFaults, touches <- userTouches
Prof == INSTANCE LiveProfiles WITH
  MaxFaults <- 1, MaxTouches <- 1, flying <- profFlying, pc <- profPc,
  accepted <- profAccepted, refused <- profRefused, shown <- profShown,
  verdict <- profVerdict, late <- profLate, cut <- profCut, faults <- profFaults,
  touches <- profTouches
Vbk == INSTANCE LiveViosBackup WITH
  MaxFaults <- 2, MaxTouches <- 1, mapped <- vbkMapped, others <- vbkOthers,
  catalog <- vbkCatalog, flying <- vbkFlying, pc <- vbkPc, named <- vbkNamed,
  accepted <- vbkAccepted, listed <- vbkListed, rows <- vbkRows, clean <- vbkClean,
  verdict <- vbkVerdict, checked <- vbkChecked, cut <- vbkCut, moved <- vbkMoved,
  harm <- vbkHarm, faults <- vbkFaults, touches <- vbkTouches
Win == INSTANCE ReleaseWindow WITH
  NArms <- 2, MaxFaults <- 2, MaxTouches <- 3, drift <- winDrift, head <- winHead,
  held <- winHeld, pc <- winPc, passed <- winPassed, exit <- winExit, faults <- winFaults,
  touches <- winTouches
Pro == INSTANCE Promotion WITH
  MaxTries <- 2, MaxFaults <- 2, MaxTouches <- 2, pc <- proPc, name <- proName,
  head <- proHead, changed <- proChanged, exit <- proExit, late <- proLate,
  faults <- proFaults, touches <- proTouches
Evd == INSTANCE ReleaseEvidence WITH
  MaxTime <- 2, MaxRows <- 2, stored <- evdStored, catalog <- evdCatalog, pc <- evdPc
Pcm == INSTANCE LivePcm WITH
  MaxFaults <- 1, MaxTouches <- 1, flying <- pcmFlying, pc <- pcmPc,
  accepted <- pcmAccepted, verdict <- pcmVerdict, cut <- pcmCut, late <- pcmLate,
  faults <- pcmFaults, touches <- pcmTouches
Vgr == INSTANCE LiveVolumeGroup WITH
  MaxRuns <- 2, MaxFaults <- 2, MaxTouches <- 1, drift <- vgrDrift, flying <- vgrFlying,
  pc <- vgrPc, named <- vgrNamed, verdict <- vgrVerdict, row <- vgrRow,
  checked <- vgrChecked, cut <- vgrCut, late <- vgrLate, moved <- vgrMoved, harm <- vgrHarm,
  faults <- vgrFaults, touches <- vgrTouches
Rd2 == INSTANCE LiveRound2 WITH
  MaxFaults <- 2, MaxTouches <- 1, scratch <- rd2Scratch, disk <- rd2Disk,
  mapped <- rd2Mapped, others <- rd2Others, flying <- rd2Flying, pc <- rd2Pc,
  base <- rd2Base, checked <- rd2Checked, known <- rd2Known, late <- rd2Late,
  harm <- rd2Harm, faults <- rd2Faults, touches <- rd2Touches
Rnr == INSTANCE LiveRunner WITH
  MaxRuns <- 2, MaxFaults <- 1, MaxTouches <- 1, flying <- rnrFlying, catalog <- rnrCatalog,
  pc <- rnrPc, known <- rnrKnown, seen <- rnrSeen, made <- rnrMade, row <- rnrRow,
  moved <- rnrMoved, harm <- rnrHarm, faults <- rnrFaults, touches <- rnrTouches
Inv == INSTANCE LiveInventory WITH
  MaxFaults <- 1, MaxTouches <- 1, pc <- invPc, row <- invRow, known <- invKnown,
  slots <- invSlots, rows <- invRows, passed <- invPassed, faults <- invFaults,
  touches <- invTouches
Cpt == INSTANCE LiveCapture WITH
  MaxFaults <- 1, MaxTouches <- 1, part <- cptPart, pc <- cptPc, made <- cptMade,
  stored <- cptStored, faults <- cptFaults, touches <- cptTouches

ASSUME
  /\ Arm!PowerLiveAssumption /\ Net!NetworkLiveAssumption /\ Conf!ConfigLiveAssumption
  /\ Bare!BareLiveAssumption /\ Disk!StorageLiveAssumption /\ Bay!ProbeLiveAssumption
  /\ User!UsersLiveAssumption /\ Prof!ProfilesLiveAssumption /\ Vbk!ViosLiveAssumption
  /\ Win!WindowAssumption /\ Pro!PromotionAssumption /\ Evd!EvidenceAssumption
  /\ Pcm!PcmAssumption /\ Vgr!VgLiveAssumption /\ Rd2!Round2Assumption
  /\ Rnr!RunnerAssumption /\ Inv!InventoryAssumption /\ Cpt!CaptureAssumption

ArmsInit ==
  /\ which \in
       {"arm", "net", "conf", "bare", "disk", "bay", "user", "prof", "vbk", "win", "pro",
        "evd", "pcm", "vgr", "rd2", "rnr", "inv", "cpt"}
  /\ IF which = "arm" THEN Arm!Init ELSE
     /\ armPart = "off" /\ vios = "off" /\ armFlying = "off" /\ armPc = "off"
     /\ usable = "off" /\ tried = "off" /\ latch = "off" /\ halted = "off"
     /\ detached = "off" /\ armTodo = "off" /\ removed = "off" /\ armRows = "off"
     /\ armBase = "off" /\ again = "off" /\ armJudged = "off" /\ armVerdict = "off"
     /\ armLooks = "off" /\ armLate = "off" /\ armFaults = "off" /\ armTouches = "off"
     /\ stops = "off"
  /\ IF which = "net" THEN Net!Init ELSE
     /\ there = "off" /\ label = "off" /\ side = "off" /\ netFlying = "off"
     /\ served = "off" /\ used = "off" /\ first = "off" /\ netPc = "off"
     /\ netBase = "off" /\ netTodo = "off" /\ netRestored = "off" /\ netJudged = "off"
     /\ netRows = "off" /\ differs = "off" /\ netVerdict = "off" /\ netLooks = "off"
     /\ netLate = "off" /\ netHarm = "off" /\ netFaults = "off" /\ netTouches = "off"
  /\ IF which = "conf" THEN Conf!Init ELSE
     /\ confScratch = "off" /\ confSlots = "off" /\ pools = "off" /\ confChanged = "off"
     /\ confFlying = "off" /\ probe = "off" /\ confPc = "off" /\ confCut = "off"
     /\ attempted = "off" /\ confKnown = "off" /\ created = "off" /\ confName = "off"
     /\ confHeld = "off" /\ confRestored = "off" /\ deleted = "off" /\ confRows = "off"
     /\ confPassed = "off" /\ confVerdict = "off" /\ confLate = "off" /\ confHarm = "off"
     /\ stale = "off" /\ confFaults = "off" /\ confTouches = "off"
  /\ IF which = "bare" THEN Bare!Init ELSE
     /\ bareBox = "off" /\ bareFlying = "off" /\ dump = "off" /\ barePc = "off"
     /\ bareCut = "off" /\ bareMade = "off" /\ ready = "off" /\ applied = "off"
     /\ bareListed = "off" /\ assigned = "off" /\ bareRows = "off" /\ bareClean = "off"
     /\ bareLate = "off" /\ bareMoved = "off" /\ bareHarm = "off" /\ bareFaults = "off"
     /\ bareTouches = "off"
  /\ IF which = "disk" THEN Disk!Init ELSE
     /\ diskDisk = "off" /\ maps = "off" /\ spare = "off" /\ diskFlying = "off"
     /\ diskDrift = "off" /\ diskPc = "off" /\ round = "off" /\ diskCut = "off"
     /\ tracked = "off" /\ diskRefused = "off" /\ diskRestored = "off" /\ diskRows = "off"
     /\ diskClean = "off" /\ diskChecked = "off" /\ diskLate = "off" /\ diskSeen = "off"
     /\ diskHarm = "off" /\ diskFaults = "off" /\ diskTouches = "off"
  /\ IF which = "bay" THEN Bay!Init ELSE
     /\ bayBox = "off" /\ volume = "off" /\ mapping = "off" /\ bayFlying = "off"
     /\ bayDrift = "off" /\ bayPc = "off" /\ bayAccepted = "off" /\ bayRows = "off"
     /\ bayVerdict = "off" /\ bayMoved = "off" /\ bayHarm = "off" /\ bayFaults = "off"
     /\ bayTouches = "off"
  /\ IF which = "user" THEN User!Init ELSE
     /\ profile = "off" /\ userScratch = "off" /\ userOthers = "off" /\ userFlying = "off"
     /\ userPc = "off" /\ userCut = "off" /\ userNamed = "off" /\ userKnown = "off"
     /\ answers = "off" /\ userShown = "off" /\ userVerdict = "off" /\ userChecked = "off"
     /\ userLate = "off" /\ did = "off" /\ userFaults = "off" /\ userTouches = "off"
  /\ IF which = "prof" THEN Prof!Init ELSE
     /\ setting = "off" /\ synced = "off" /\ active = "off" /\ profFlying = "off"
     /\ baseline = "off" /\ item = "off" /\ profPc = "off" /\ original = "off"
     /\ profAccepted = "off" /\ profRefused = "off" /\ profShown = "off"
     /\ profVerdict = "off" /\ told = "off" /\ profLate = "off" /\ profCut = "off"
     /\ profFaults = "off" /\ profTouches = "off"
  /\ IF which = "vbk" THEN Vbk!Init ELSE
     /\ vbkMapped = "off" /\ vbkOthers = "off" /\ vbkCatalog = "off" /\ vbkFlying = "off"
     /\ vbkPc = "off" /\ vbkNamed = "off" /\ vbkAccepted = "off" /\ vbkListed = "off"
     /\ ended = "off" /\ settled = "off" /\ atBase = "off" /\ vbkRows = "off"
     /\ vbkClean = "off" /\ vbkVerdict = "off" /\ vbkChecked = "off" /\ vbkCut = "off"
     /\ vbkMoved = "off" /\ vbkHarm = "off" /\ vbkFaults = "off" /\ vbkTouches = "off"
  /\ IF which = "win" THEN Win!Init ELSE
     /\ residue = "off" /\ winDrift = "off" /\ winHead = "off" /\ child = "off"
     /\ winHeld = "off" /\ code = "off" /\ snaps = "off" /\ docs = "off"
     /\ promoted = "off" /\ phase = "off" /\ winPc = "off" /\ stage = "off"
     /\ cancelled = "off" /\ safe = "off" /\ raised = "off" /\ orphaned = "off"
     /\ winPassed = "off" /\ winExit = "off" /\ ran = "off" /\ returned = "off"
     /\ reaped = "off" /\ winFaults = "off" /\ winTouches = "off"
  /\ IF which = "pro" THEN Pro!Init ELSE
     /\ tree = "off" /\ index = "off" /\ commits = "off" /\ branch = "off"
     /\ branches = "off" /\ try = "off" /\ proPc = "off" /\ proName = "off"
     /\ proHead = "off" /\ proChanged = "off" /\ proExit = "off" /\ proLate = "off"
     /\ switched = "off" /\ proFaults = "off" /\ proTouches = "off"
  /\ IF which = "evd" THEN Evd!Init ELSE
     /\ claimed = "off" /\ produced = "off" /\ evdStored = "off" /\ evdCatalog = "off"
     /\ evdPc = "off"
  /\ IF which = "pcm" THEN Pcm!Init ELSE
     /\ prefs = "off" /\ capable = "off" /\ pcmFlying = "off" /\ pcmPc = "off"
     /\ snapshot = "off" /\ turn = "off" /\ pcmAccepted = "off" /\ current = "off"
     /\ fits = "off" /\ pcmVerdict = "off" /\ pcmCut = "off" /\ pcmLate = "off"
     /\ pcmFaults = "off" /\ pcmTouches = "off"
  /\ IF which = "vgr" THEN Vgr!Init ELSE
     /\ group = "off" /\ pv = "off" /\ wide = "off" /\ volumes = "off" /\ vgrDrift = "off"
     /\ vgrFlying = "off" /\ vgrPc = "off" /\ runs = "off" /\ vgrNamed = "off"
     /\ saved = "off" /\ alike = "off" /\ vgrVerdict = "off" /\ vgrRow = "off"
     /\ vgrChecked = "off" /\ vgrCut = "off" /\ vgrLate = "off" /\ vgrMoved = "off"
     /\ vgrHarm = "off" /\ vgrFaults = "off" /\ vgrTouches = "off"
  /\ IF which = "rd2" THEN Rd2!Init ELSE
     /\ rd2Scratch = "off" /\ fixture = "off" /\ rd2Disk = "off" /\ rd2Mapped = "off"
     /\ rd2Others = "off" /\ rd2Flying = "off" /\ rd2Pc = "off" /\ shot = "off"
     /\ rd2Base = "off" /\ read = "off" /\ failed = "off" /\ partial = "off"
     /\ rd2Checked = "off" /\ rd2Known = "off" /\ stopped = "off" /\ rd2Late = "off"
     /\ rd2Harm = "off" /\ rd2Faults = "off" /\ rd2Touches = "off"
  /\ IF which = "rnr" THEN Rnr!Init ELSE
     /\ things = "off" /\ rnrFlying = "off" /\ limited = "off" /\ commit = "off"
     /\ dirty = "off" /\ rnrCatalog = "off" /\ doc = "off" /\ obs = "off" /\ rnrPc = "off"
     /\ path = "off" /\ subset = "off" /\ rnrKnown = "off" /\ arts = "off"
     /\ witness = "off" /\ rnrSeen = "off" /\ rnrMade = "off" /\ rnrRow = "off"
     /\ loaded = "off" /\ lost = "off" /\ rnrMoved = "off" /\ rnrHarm = "off"
     /\ rnrFaults = "off" /\ rnrTouches = "off"
  /\ IF which = "inv" THEN Inv!Init ELSE
     /\ arm = "off" /\ world = "off" /\ want = "off" /\ invPc = "off" /\ feed = "off"
     /\ state = "off" /\ invRow = "off" /\ lp3 = "off" /\ invKnown = "off"
     /\ invSlots = "off" /\ unowned = "off" /\ invRows = "off" /\ ports = "off"
     /\ noted = "off" /\ invPassed = "off" /\ views = "off" /\ picked = "off"
     /\ invFaults = "off" /\ invTouches = "off"
  /\ IF which = "cpt" THEN Cpt!Init ELSE
     /\ cptPart = "off" /\ cptPc = "off" /\ outcome = "off" /\ home = "off"
     /\ system = "off" /\ lpar = "off" /\ byName = "off" /\ sysKnown = "off"
     /\ sysNamed = "off" /\ target = "off" /\ seams = "off" /\ enabled = "off"
     /\ open = "off" /\ flight = "off" /\ cptMade = "off" /\ recs = "off" /\ log = "off"
     /\ wrote = "off" /\ strayed = "off" /\ raw = "off" /\ private = "off"
     /\ corpus = "off" /\ cptStored = "off" /\ vocabulary = "off" /\ cptFaults = "off"
     /\ cptTouches = "off"

ArmsNext ==
  \/ which = "arm" /\ Arm!Next /\ UNCHANGED
       <<which, netVars, confVars, bareVars, diskVars, bayVars, userVars, profVars, vbkVars,
         winVars, proVars, evdVars, pcmVars, vgrVars, rd2Vars, rnrVars, invVars, cptVars>>
  \/ which = "net" /\ Net!Next /\ UNCHANGED
       <<which, armVars, confVars, bareVars, diskVars, bayVars, userVars, profVars, vbkVars,
         winVars, proVars, evdVars, pcmVars, vgrVars, rd2Vars, rnrVars, invVars, cptVars>>
  \/ which = "conf" /\ Conf!Next /\ UNCHANGED
       <<which, armVars, netVars, bareVars, diskVars, bayVars, userVars, profVars, vbkVars,
         winVars, proVars, evdVars, pcmVars, vgrVars, rd2Vars, rnrVars, invVars, cptVars>>
  \/ which = "bare" /\ Bare!Next /\ UNCHANGED
       <<which, armVars, netVars, confVars, diskVars, bayVars, userVars, profVars, vbkVars,
         winVars, proVars, evdVars, pcmVars, vgrVars, rd2Vars, rnrVars, invVars, cptVars>>
  \/ which = "disk" /\ Disk!Next /\ UNCHANGED
       <<which, armVars, netVars, confVars, bareVars, bayVars, userVars, profVars, vbkVars,
         winVars, proVars, evdVars, pcmVars, vgrVars, rd2Vars, rnrVars, invVars, cptVars>>
  \/ which = "bay" /\ Bay!Next /\ UNCHANGED
       <<which, armVars, netVars, confVars, bareVars, diskVars, userVars, profVars, vbkVars,
         winVars, proVars, evdVars, pcmVars, vgrVars, rd2Vars, rnrVars, invVars, cptVars>>
  \/ which = "user" /\ User!Next /\ UNCHANGED
       <<which, armVars, netVars, confVars, bareVars, diskVars, bayVars, profVars, vbkVars,
         winVars, proVars, evdVars, pcmVars, vgrVars, rd2Vars, rnrVars, invVars, cptVars>>
  \/ which = "prof" /\ Prof!Next /\ UNCHANGED
       <<which, armVars, netVars, confVars, bareVars, diskVars, bayVars, userVars, vbkVars,
         winVars, proVars, evdVars, pcmVars, vgrVars, rd2Vars, rnrVars, invVars, cptVars>>
  \/ which = "vbk" /\ Vbk!Next /\ UNCHANGED
       <<which, armVars, netVars, confVars, bareVars, diskVars, bayVars, userVars, profVars,
         winVars, proVars, evdVars, pcmVars, vgrVars, rd2Vars, rnrVars, invVars, cptVars>>
  \/ which = "win" /\ Win!Next /\ UNCHANGED
       <<which, armVars, netVars, confVars, bareVars, diskVars, bayVars, userVars, profVars,
         vbkVars, proVars, evdVars, pcmVars, vgrVars, rd2Vars, rnrVars, invVars, cptVars>>
  \/ which = "pro" /\ Pro!Next /\ UNCHANGED
       <<which, armVars, netVars, confVars, bareVars, diskVars, bayVars, userVars, profVars,
         vbkVars, winVars, evdVars, pcmVars, vgrVars, rd2Vars, rnrVars, invVars, cptVars>>
  \/ which = "evd" /\ Evd!Next /\ UNCHANGED
       <<which, armVars, netVars, confVars, bareVars, diskVars, bayVars, userVars, profVars,
         vbkVars, winVars, proVars, pcmVars, vgrVars, rd2Vars, rnrVars, invVars, cptVars>>
  \/ which = "pcm" /\ Pcm!Next /\ UNCHANGED
       <<which, armVars, netVars, confVars, bareVars, diskVars, bayVars, userVars, profVars,
         vbkVars, winVars, proVars, evdVars, vgrVars, rd2Vars, rnrVars, invVars, cptVars>>
  \/ which = "vgr" /\ Vgr!Next /\ UNCHANGED
       <<which, armVars, netVars, confVars, bareVars, diskVars, bayVars, userVars, profVars,
         vbkVars, winVars, proVars, evdVars, pcmVars, rd2Vars, rnrVars, invVars, cptVars>>
  \/ which = "rd2" /\ Rd2!Next /\ UNCHANGED
       <<which, armVars, netVars, confVars, bareVars, diskVars, bayVars, userVars, profVars,
         vbkVars, winVars, proVars, evdVars, pcmVars, vgrVars, rnrVars, invVars, cptVars>>
  \/ which = "rnr" /\ Rnr!Next /\ UNCHANGED
       <<which, armVars, netVars, confVars, bareVars, diskVars, bayVars, userVars, profVars,
         vbkVars, winVars, proVars, evdVars, pcmVars, vgrVars, rd2Vars, invVars, cptVars>>
  \/ which = "inv" /\ Inv!Next /\ UNCHANGED
       <<which, armVars, netVars, confVars, bareVars, diskVars, bayVars, userVars, profVars,
         vbkVars, winVars, proVars, evdVars, pcmVars, vgrVars, rd2Vars, rnrVars, cptVars>>
  \/ which = "cpt" /\ Cpt!Next /\ UNCHANGED
       <<which, armVars, netVars, confVars, bareVars, diskVars, bayVars, userVars, profVars,
         vbkVars, winVars, proVars, evdVars, pcmVars, vgrVars, rd2Vars, rnrVars, invVars>>

allVars ==
  <<which, armVars, netVars, confVars, bareVars, diskVars, bayVars, userVars, profVars,
    vbkVars, winVars, proVars, evdVars, pcmVars, vgrVars, rd2Vars, rnrVars, invVars,
    cptVars>>

ArmsSpec == ArmsInit /\ [][ArmsNext]_allVars

(* The properties of the parts, where they are stated.                         *)

\* Every variable of the part that runs has its type.
TypesOK ==
  /\ (which = "arm" => Arm!PowerLiveTypeOK)
  /\ (which = "net" => Net!NetworkLiveTypeOK)
  /\ (which = "conf" => Conf!ConfigLiveTypeOK)
  /\ (which = "bare" => Bare!BareLiveTypeOK)
  /\ (which = "disk" => Disk!StorageLiveTypeOK)
  /\ (which = "bay" => Bay!ProbeLiveTypeOK)
  /\ (which = "user" => User!UsersLiveTypeOK)
  /\ (which = "prof" => Prof!ProfilesLiveTypeOK)
  /\ (which = "vbk" => Vbk!ViosLiveTypeOK) /\ (which = "win" => Win!WindowTypeOK)
  /\ (which = "pro" => Pro!PromotionTypeOK) /\ (which = "evd" => Evd!EvidenceTypeOK)
  /\ (which = "pcm" => Pcm!PcmTypeOK) /\ (which = "vgr" => Vgr!VgLiveTypeOK)
  /\ (which = "rd2" => Rd2!Round2TypeOK) /\ (which = "rnr" => Rnr!RunnerTypeOK)
  /\ (which = "inv" => Inv!InventoryTypeOK) /\ (which = "cpt" => Cpt!CaptureTypeOK)

\* Observations called clean are: what the run made is gone, and a recovery check that
\* exits 0 finds nothing of it.  The observations of a runner, a window that passes and a
\* promotion that commits have the evidence they claim.  What an arm that only reads
\* calls passed is what the system shows while nobody changes it, and a sweep changes
\* nothing, nor does its corpus hold what must not be published.
CleanTrue ==
  /\ (which = "arm" => Arm!PowerClean) /\ (which = "net" => Net!NetworkClean)
  /\ (which = "conf" => Conf!ConfigClean) /\ (which = "bare" => Bare!BareClean)
  /\ (which = "disk" => Disk!StorageClean) /\ (which = "bay" => Bay!ProbeClean)
  /\ (which = "user" => User!UsersClean) /\ (which = "prof" => Prof!ProfilesClean)
  /\ (which = "vbk" => Vbk!ViosClean) /\ (which = "win" => Win!WindowPassTrue)
  /\ (which = "pro" => Pro!PromotionTrue) /\ (which = "evd" => Evd!EvidenceCurrent)
  /\ (which = "pcm" => Pcm!PcmClean) /\ (which = "vgr" => Vgr!VgClean)
  /\ (which = "rd2" => Rd2!Round2Clean) /\ (which = "rnr" => Rnr!RunnerClean)
  /\ (which = "inv" => Inv!InventoryTrue) /\ (which = "cpt" => Cpt!CaptureTrue)

\* What a run leaves behind, it tells of; lpar-power leaves no mapping that nobody can
\* detach; a window has the recovery check of every arm it started, and what a promotion
\* leaves is where it says.  An arm that only reads passes all it can, and a sweep has a
\* record of every call it made or says that it has not.
LeftTold ==
  /\ (which = "arm" => Arm!PowerLeftTold /\ Arm!MappingReachable)
  /\ (which = "net" => Net!NetworkLeftTold)
  /\ (which = "conf" => Conf!ConfigLeftTold)
  /\ (which = "bare" => Bare!BareLeftTold)
  /\ (which = "disk" => Disk!StorageLeftTold)
  /\ (which = "bay" => Bay!ProbeLeftTold) /\ (which = "user" => User!UsersLeftTold)
  /\ (which = "prof" => Prof!ProfilesLeftTold)
  /\ (which = "vbk" => Vbk!ViosLeftTold) /\ (which = "win" => Win!WindowRecovers)
  /\ (which = "pro" => Pro!PromotionLeftTold) /\ (which = "pcm" => Pcm!PcmLeftTold)
  /\ (which = "vgr" => Vgr!VgLeftTold) /\ (which = "rd2" => Rd2!Round2LeftTold)
  /\ (which = "rnr" => Rnr!RunnerLeftTold)
  /\ (which = "inv" => Inv!InventoryComplete) /\ (which = "cpt" => Cpt!CaptureTold)

\* A run removes only what was not there when it began, and of partitions and users only
\* those it has read to be its own; a promotion commits only its own artifacts,
\* and loses no evidence but what was observed again.
OnlyOwnRemoved ==
  /\ (which = "net" => Net!NetworkOwnRemoved)
  /\ (which = "conf" => Conf!ConfigOwnRemoved)
  /\ (which = "bare" => Bare!BareOwnRemoved)
  /\ (which = "disk" => Disk!StorageOwnRemoved)
  /\ (which = "bay" => Bay!ProbeOwnRemoved)
  /\ (which = "user" => User!UsersOwnRemoved)
  /\ (which = "vbk" => Vbk!ViosOwnRemoved) /\ (which = "pro" => Pro!PromotionOwn)
  /\ (which = "evd" => Evd!EvidenceKept) /\ (which = "vgr" => Vgr!VgOwnRemoved)
  /\ (which = "rd2" => Rd2!Round2OwnRemoved) /\ (which = "rnr" => Rnr!RunnerOwn)
=============================================================================
