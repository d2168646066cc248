------------------------------ MODULE Startup ------------------------------
(***************************************************************************)
(* The start of the taker's app: run() creates or reads the seed, sets up  *)
(* the node from what an earlier process left on disk, sets the singletons *)
(* the API uses, starts LDK's background processor and, once ready, the    *)
(* tasks that keep the app up to date.  A step may fail, a task may panic  *)
(* and the process may be killed anywhere; what is on disk stays.          *)
(*                                                                         *)
(* The step that fetches the first offer and the task that fetches later   *)
(* ones belong to TakerApp, which composes this module with the maker.     *)
(***************************************************************************)
EXTENDS Integers

CONSTANTS
    Absent, Torn,   \* no seed file; one that is shorter than a seed
    Seeds,          \* seeds that may be generated
    Channels,       \* channels that may be opened
    MaxFaults       \* bound: failing steps, panics and kills

ASSUME StartupAssumption ==
    /\ {Absent, Torn} \cap Seeds = {} /\ Absent # Torn
    /\ MaxFaults \in Nat

Singletons == {"WALLET", "DB", "INVOICE_PAYER"}
Tasks == {"connection", "offer", "walletSync", "walletInfo", "channelState"}

VARIABLES
    seedFile,       \* disk: Absent, Torn or the seed
    owner,          \* disk: the seed whose keys the LDK data belongs to
    manager,        \* disk: whether LDK's channel manager was persisted
    monitors,       \* disk: the channel monitors
    phase,          \* where run() stands
    seed,           \* what Bip39Seed::initialize came up with, or Absent
    singletons,     \* those set so far
    processor,      \* whether LDK's background processor runs
    watched,        \* the channels the chain monitor watches
    tasks,          \* the tasks that run
    ready,          \* StartupChangeNotifier.isReady: whether pages are shown
    panicked,       \* history variable: a task of this process has panicked
    faults

disk == <<seedFile, owner, manager, monitors>>
node == <<seed, singletons, processor, watched>>
app == <<tasks, ready, panicked>>
startVars == <<disk, phase, node, app, faults>>

StartInit ==
    /\ seedFile = Absent /\ owner = Absent /\ manager = FALSE /\ monitors = {}
    /\ phase = "down"
    /\ seed = Absent /\ singletons = {} /\ processor = FALSE /\ watched = {}
    /\ tasks = {} /\ ready = FALSE /\ panicked = FALSE
    /\ faults = 0

Fault == faults < MaxFaults /\ faults' = faults + 1

\* run() goes on, or returns the error of a step that failed.
Continue(next) == phase' = next /\ UNCHANGED faults
Fails == phase' = "failed" /\ Fault

(***************************************************************************)
(* run()                                                                   *)
(***************************************************************************)
Launch ==
    /\ phase = "down"
    /\ phase' = "seed"
    /\ UNCHANGED <<disk, node, app, faults>>

\* Bip39Seed::initialize without a file: std::fs::write creates it ...
GenerateSeed ==
    /\ phase = "seed" /\ seedFile = Absent
    /\ \/ seed' \in Seeds /\ seedFile' = Torn /\ Continue("write")
       \/ Fails /\ UNCHANGED <<seed, seedFile>>
    /\ UNCHANGED <<owner, manager, monitors, singletons, processor, watched, app>>

\* Mutant: an error of the write is not looked at.
WriteSeedUnchecked ==
    /\ phase = "write"
    /\ \/ seedFile' = seed /\ Continue("node")
       \/ UNCHANGED seedFile /\ Fault /\ phase' = "node"
    /\ UNCHANGED <<owner, manager, monitors, node, app>>

\* ... and then writes it, unless that fails.
WriteSeed ==
    /\ phase = "write"
    /\ \/ seedFile' = seed /\ Continue("node")
       \/ UNCHANGED seedFile /\ Fails
    /\ UNCHANGED <<owner, manager, monitors, node, app>>

\* Mutant: bytes of any length are taken for a seed.
ReadSeedOfAnyLength ==
    /\ phase = "seed" /\ seedFile # Absent
    /\ phase' = "node" /\ seed' = seedFile
    /\ UNCHANGED <<disk, singletons, processor, watched, app, faults>>

\* Bip39Seed::initialize with a file. A torn one does not parse, at this or
\* any later start.
ReadSeed ==
    /\ phase = "seed" /\ seedFile # Absent
    /\ IF seedFile = Torn
       THEN phase' = "failed" /\ UNCHANGED seed
       ELSE phase' = "node" /\ seed' = seedFile
    /\ UNCHANGED <<disk, singletons, processor, watched, app, faults>>

\* Mutant: a fresh node takes no monitors along.
LoadedMonitorsOfManager == IF manager THEN monitors ELSE {}

\* The monitors setup reads: all on disk, and whether or not it finds a
\* manager to hand them to.
LoadedMonitors == monitors

\* Its last steps: the monitors are synced and handed to the chain monitor.
WatchMonitors == watched' = LoadedMonitors

\* Wallet::new after the seed, then init_wallet. Electrum may not answer.
SetUpNode ==
    /\ phase = "node"
    /\ \/ /\ WatchMonitors
          /\ singletons' = singletons \cup {"WALLET"}
          /\ Continue("database")
       \/ Fails /\ UNCHANGED <<watched, singletons>>
    /\ UNCHANGED <<disk, seed, processor, app>>

\* Mutant: an error is only logged.
InitDbUnchecked ==
    /\ phase = "database"
    /\ \/ singletons' = singletons \cup {"DB"} /\ Continue("ldk")
       \/ Fault /\ phase' = "ldk" /\ UNCHANGED singletons
    /\ UNCHANGED <<disk, seed, processor, watched, app>>

InitDb ==
    /\ phase = "database"
    /\ \/ singletons' = singletons \cup {"DB"} /\ Continue("ldk")
       \/ Fails /\ UNCHANGED singletons
    /\ UNCHANGED <<disk, seed, processor, watched, app>>

RunLdk ==
    /\ phase = "ldk"
    /\ singletons' = singletons \cup {"INVOICE_PAYER"}
    /\ processor' = TRUE
    /\ Continue("offer")
    /\ UNCHANGED <<disk, seed, watched, app>>

\* The first offer has been fetched, or not.
OfferFetched ==
    /\ phase = "offer"
    /\ Continue("info")
    /\ UNCHANGED <<disk, node, app>>

\* Balance and channel state, Event::Ready, and the tasks.
BecomeReady ==
    /\ phase = "info"
    /\ ready' = TRUE
    /\ tasks' = Tasks
    /\ Continue("up")
    /\ UNCHANGED <<disk, node, panicked>>

\* Mutant: the first task that ends, ends the app.
ConnectionReturnsLast ==
    /\ "connection" \in tasks
    /\ tasks' = {} /\ processor' = FALSE /\ Continue("failed")
    /\ UNCHANGED <<disk, seed, singletons, watched, ready, panicked>>

\* A peer that leaves during the handshake ends the connection task, and
\* try_join waits for the others.
ConnectionReturns ==
    /\ "connection" \in tasks
    /\ tasks' = tasks \ {"connection"}
    /\ UNCHANGED <<disk, phase, node, ready, panicked, faults>>

\* A panic of one task ends run(), which drops the processor and the runtime
\* with all the tasks. The pages stay.
TaskPanics ==
    /\ tasks # {}
    /\ Fails
    /\ tasks' = {} /\ processor' = FALSE /\ panicked' = TRUE
    /\ UNCHANGED <<disk, seed, singletons, watched, ready>>

(***************************************************************************)
(* LDK's persistence                                                       *)
(***************************************************************************)
\* The monitor of a new channel is persisted at once, the manager later.
OpenMonitor ==
    /\ phase = "up"
    /\ \E c \in Channels \ monitors :
         monitors' = monitors \cup {c} /\ watched' = watched \cup {c}
    /\ owner' = seed
    /\ UNCHANGED <<seedFile, manager, phase, seed, singletons, processor, app, faults>>

PersistManager ==
    /\ processor
    /\ manager' = TRUE /\ owner' = seed
    /\ UNCHANGED <<seedFile, monitors, phase, node, app, faults>>

\* The process is killed.
Kill ==
    /\ phase # "down"
    /\ Fault
    /\ phase' = "down"
    /\ seed' = Absent /\ singletons' = {} /\ processor' = FALSE /\ watched' = {}
    /\ tasks' = {} /\ ready' = FALSE /\ panicked' = FALSE
    /\ UNCHANGED disk

\* The steps of run() up to the first offer, and after it.
Starting == Launch \/ GenerateSeed \/ WriteSeed \/ ReadSeed \/ SetUpNode
            \/ InitDb \/ RunLdk \/ BecomeReady
Running == ConnectionReturns \/ OpenMonitor \/ PersistManager

\* Every variable has its type.
StartTypeOK ==
    /\ seedFile \in {Absent, Torn} \cup Seeds
    /\ owner \in {Absent} \cup Seeds /\ seed \in {Absent} \cup Seeds
    /\ manager \in BOOLEAN
    /\ monitors \subseteq Channels /\ watched \subseteq monitors
    /\ phase \in {"down", "seed", "write", "node", "database", "ldk", "offer",
                  "info", "up", "failed"}
    /\ singletons \subseteq Singletons /\ tasks \subseteq Tasks
    /\ processor \in BOOLEAN /\ ready \in BOOLEAN /\ panicked \in BOOLEAN
    /\ faults \in 0 .. MaxFaults
=============================================================================
