----------------------------- MODULE MCHarness -----------------------------
(* Live test runs, side by side with the power operation they use most: the     *)
(* virtual-media, dedicated-slot and SR-IOV arms.  They share no state here;    *)
(* each behaviour runs one of them, and the variables of the others are "off"   *)
(* or, of the power operation, stay as they are.                                *)
EXTENDS PowerLpar, TLC

\* Every action of the power operation, and for stop both modes: the mode only matters to Allowed.
Requests == {<<"start", "graceful">>, <<"stop", "graceful">>, <<"stop", "immediate">>,
             <<"restart", "graceful">>}

Symmetry == Permutations(Op)

\* The subtasks a virtual-media run may be asked for, all of them or one.
Selections == {<<16, 17, 18, 19, 20, 21, 22>>, <<22>>, <<20>>, <<17>>, <<16>>}

VARIABLES
  which,   \* the component that runs
  (* LiveVmedia *)
  repo, media, importing, mounted, bare, booted, boot, run, chosen, tasks, livePc, arts,
  rows, doc, verdict, was, tardy, faults, stops,
  (* LivePcie *)
  part, creates, slotPc, fx, seen, again, named, judged, partial, results, exit, denied,
  late, stale, harm, slotFaults, slotTouches, slotStops,
  (* LiveSriov *)
  port, profile, assigning, portPc, pass, evidence, read, told, decided, mine, moved,
  stolen, portFaults, portTouches, portStops

liveVars ==
  <<repo, media, importing, mounted, bare, booted, boot, run, chosen, tasks, livePc, arts,
    rows, doc, verdict, was, tardy, faults, stops>>
slotsVars ==
  <<part, creates, slotPc, fx, seen, again, named, judged, partial, results, exit, denied,
    late, stale, harm, slotFaults, slotTouches, slotStops>>
portVars ==
  <<port, profile, assigning, portPc, pass, evidence, read, told, decided, mine, moved,
    stolen, portFaults, portTouches, portStops>>

Vmedia == INSTANCE LiveVmedia WITH
  Runs <- 2, Selections <- Selections, MaxFaults <- 1, MaxStops <- 1, running <- booted,
  pc <- livePc, late <- tardy
Slots == INSTANCE LivePcie WITH
  Pinned <- FALSE, MaxFaults <- 2, MaxTouches <- 1, MaxStops <- 1, pc <- slotPc,
  rows <- named, doc <- results, verdict <- exit, faults <- slotFaults,
  touches <- slotTouches, stops <- slotStops, flying <- creates
Port == INSTANCE LiveSriov WITH
  MaxFaults <- 2, MaxTouches <- 2, MaxStops <- 1, flying <- assigning, pc <- portPc,
  judged <- decided, faults <- portFaults, touches <- portTouches, stops <- portStops

ASSUME /\ Vmedia!LiveAssumption /\ Slots!PcieLiveAssumption /\ Port!SriovLiveAssumption

HarnessInit ==
  /\ Init
  /\ which \in {"power", "live", "slots", "port"}
  /\ which # "power" => /\ request = [o \in Op |-> <<"start", "graceful">>]
                        /\ power = "on" /\ rmc
  /\ IF which = "live" THEN Vmedia!Init
     ELSE /\ repo = "off" /\ media = "off" /\ importing = "off" /\ mounted = "off"
          /\ bare = "off" /\ booted = "off" /\ boot = "off" /\ run = "off"
          /\ chosen = "off" /\ tasks = "off" /\ livePc = "off" /\ arts = "off"
          /\ rows = "off" /\ doc = "off" /\ verdict = "off" /\ was = "off"
          /\ tardy = "off" /\ faults = "off" /\ stops = "off"
  /\ IF which = "slots" THEN Slots!Init
     ELSE /\ part = "off" /\ creates = "off" /\ slotPc = "off" /\ fx = "off"
          /\ seen = "off" /\ again = "off" /\ named = "off" /\ judged = "off"
          /\ partial = "off" /\ results = "off" /\ exit = "off" /\ denied = "off"
          /\ late = "off" /\ stale = "off" /\ harm = "off" /\ slotFaults = "off"
          /\ slotTouches = "off" /\ slotStops = "off"
  /\ IF which = "port" THEN Port!Init
     ELSE /\ port = "off" /\ profile = "off" /\ assigning = "off" /\ portPc = "off"
          /\ pass = "off" /\ evidence = "off" /\ read = "off" /\ told = "off"
          /\ decided = "off" /\ mine = "off" /\ moved = "off" /\ stolen = "off"
          /\ portFaults = "off" /\ portTouches = "off" /\ portStops = "off"

HarnessNext ==
  \/ which = "power" /\ Next /\ UNCHANGED <<which, liveVars, slotsVars, portVars>>
  \/ which = "live" /\ Vmedia!Next /\ UNCHANGED <<which, vars, slotsVars, portVars>>
  \/ which = "slots" /\ Slots!Next /\ UNCHANGED <<which, vars, liveVars, portVars>>
  \/ which = "port" /\ Port!Next /\ UNCHANGED <<which, vars, liveVars, slotsVars>>

HarnessSpec == HarnessInit /\ [][HarnessNext]_<<which, vars, liveVars, slotsVars, portVars>>

(* The properties of the components, where they are stated.                     *)

\* Every variable of the component that runs has its type.
TypesOK ==
  /\ TypeOK /\ (which = "live" => Vmedia!LiveTypeOK)
  /\ (which = "slots" => Slots!PcieLiveTypeOK) /\ (which = "port" => Port!SriovLiveTypeOK)

\* A recovery that finds nothing left is right, and so are observations called clean
\* (LiveVmedia).
CleanTrue == which = "live" => Vmedia!CleanTrue

\* A run removes only what it made (LiveVmedia), and of a partition only what it has seen to
\* be its own (LivePcie).
OnlyOwnRemoved ==
  [][(which = "live" => Vmedia!OwnRemoved) /\ (which = "slots" => Slots!DeletesOwn')]_<<repo, media, harm>>

\* What a run leaves behind, it tells of (LivePcie, LiveSriov).
LeftTold == (which = "slots" => Slots!LeftTold) /\ (which = "port" => Port!PortTold)
=============================================================================
