--------------------------- MODULE TakerAppProofs ---------------------------
(***************************************************************************)
(* The taker's app: proofs of the safety properties of TakerApp, for any   *)
(* number of failing steps, panics and kills, and any quotes.              *)
(***************************************************************************)
EXTENDS TakerApp, TLAPS

\* What a step of the composed system is to the app, and what to the prices.
StartNext == Starting \/ Running \/ OfferFetched \/ TaskPanics \/ Kill
QuoteNext == MakerNext \/ GetOffer \/ ReceiveOffer
             \/ AbortPoll \/ (ForgetOffer /\ UNCHANGED makerVars)

\* A step of the system is a step of the app or leaves the app alone.
LEMMA StartSteps == [Next]_vars => [StartNext]_startVars
  BY DEF Next, vars, StartNext, PollOffer, MakerAnswers, AppPanics, AppKilled

\* It is a step of the prices or leaves them alone.
LEMMA QuoteSteps == [Next]_vars => [QuoteNext]_quoteVars
<1> SUFFICES ASSUME [Next]_vars PROVE QuoteNext \/ UNCHANGED quoteVars
  OBVIOUS
<1>1. UNCHANGED vars => UNCHANGED quoteVars
  BY DEF vars
<1>2. PollOffer => ReceiveOffer
  BY DEF PollOffer
<1>3. MakerAnswers => GetOffer
  BY DEF MakerAnswers
<1>4. AppPanics => AbortPoll
  BY DEF AppPanics
<1>5. AppKilled => ForgetOffer /\ UNCHANGED makerVars
  BY DEF AppKilled
<1> QED
  BY <1>1, <1>2, <1>3, <1>4, <1>5, Zenon DEF Next, QuoteNext

-----------------------------------------------------------------------------
(* The app                                                                 *)

\* The faults are counted up to their bound.
LEMMA FaultCounts ==
  ASSUME faults \in 0 .. MaxFaults, Fault PROVE faults' \in 0 .. MaxFaults
  BY StartupAssumption DEF Fault, StartupAssumption

\* Nothing is on disk and nothing runs: all is well typed.
LEMMA StartTypeInit == StartInit => StartTypeOK
<1>1. 0 \in 0 .. MaxFaults
  BY StartupAssumption DEF StartupAssumption
<1> QED
  BY <1>1 DEF StartInit, StartTypeOK

\* Every step of run(), its tasks, LDK and the system keeps the types.
LEMMA StartTypeStep == StartTypeOK /\ [StartNext]_startVars => StartTypeOK'
<1> SUFFICES ASSUME StartTypeOK, [StartNext]_startVars PROVE StartTypeOK'
  OBVIOUS
<1> USE DEF StartTypeOK
<1>1. faults' \in 0 .. MaxFaults
  BY FaultCounts DEF StartNext, Starting, Running, Launch, GenerateSeed,
     WriteSeed, ReadSeed, SetUpNode, InitDb, RunLdk, OfferFetched, BecomeReady,
     ConnectionReturns, TaskPanics, OpenMonitor, PersistManager, Kill,
     Continue, Fails, startVars
<1>2. CASE Launch \/ OfferFetched
  BY <1>1, <1>2 DEF Launch, OfferFetched, Continue, disk, node, app
<1>3. CASE GenerateSeed
  BY <1>1, <1>3 DEF GenerateSeed, Continue, Fails, app
<1>4. CASE WriteSeed
  <2>1. seedFile' \in {Absent, Torn} \cup Seeds /\ phase' \in {"node", "failed"}
    BY <1>4 DEF WriteSeed, Continue, Fails
  <2> QED
    BY <1>1, <1>4, <2>1 DEF WriteSeed, node, app
<1>5. CASE ReadSeed
  BY <1>1, <1>5 DEF ReadSeed, disk, app
<1>6. CASE SetUpNode
  BY <1>1, <1>6 DEF SetUpNode, WatchMonitors, LoadedMonitors, Continue, Fails,
                    Singletons, disk, app
<1>7. CASE InitDb \/ RunLdk
  BY <1>1, <1>7 DEF InitDb, RunLdk, Continue, Fails, Singletons, disk, app
<1>8. CASE BecomeReady \/ ConnectionReturns \/ TaskPanics
  BY <1>1, <1>8 DEF BecomeReady, ConnectionReturns, TaskPanics, Continue,
                    Fails, Tasks, disk, node
<1>9. CASE OpenMonitor \/ PersistManager
  BY <1>1, <1>9 DEF OpenMonitor, PersistManager, node, app
<1>10. CASE Kill
  BY <1>1, <1>10 DEF Kill, disk
<1>11. CASE UNCHANGED startVars
  BY <1>11 DEF startVars, disk, node, app
<1> QED
  BY <1>2, <1>3, <1>4, <1>5, <1>6, <1>7, <1>8, <1>9, <1>10, <1>11
     DEF StartNext, Starting, Running

(***************************************************************************)
(* What run() has achieved when it stands at a phase.  The properties do   *)
(* not mention it: without SeedInHand a node could be set up with a seed   *)
(* that never reached the disk, and nothing would tie the owner of what    *)
(* LDK persists later to the seed file.                                    *)
(***************************************************************************)
AfterOffer == {"offer", "info", "up"}
AfterSetUp == {"database", "ldk"} \cup AfterOffer

TornUntilWritten == phase = "write" => seedFile = Torn /\ seed \in Seeds
SeedInHand ==
    phase \in {"node"} \cup AfterSetUp => seed \in Seeds /\ seed = seedFile
OwnerHasSeed == owner # Absent => owner \in Seeds /\ owner = seedFile
MonitorsWatched == phase \in AfterSetUp => watched = monitors
ProcessorRunning == processor => phase \in AfterOffer
SingletonsSet ==
    /\ phase \in AfterSetUp => "WALLET" \in singletons
    /\ phase \in {"ldk"} \cup AfterOffer => "DB" \in singletons
    /\ phase \in AfterOffer => "INVOICE_PAYER" \in singletons
    /\ ready => singletons = Singletons

IInv == StartTypeOK /\ TornUntilWritten /\ SeedInHand /\ OwnerHasSeed
        /\ MonitorsWatched /\ ProcessorRunning /\ SingletonsSet

\* At first nothing is on disk and no process runs.
LEMMA InvInit == StartInit => IInv
  BY StartTypeInit DEF StartInit, IInv, TornUntilWritten, SeedInHand,
     OwnerHasSeed, MonitorsWatched, ProcessorRunning, SingletonsSet,
     AfterSetUp, AfterOffer

\* The seed in the process and on disk, and the owner of the LDK data.
LEMMA SeedStep ==
  ASSUME IInv, [StartNext]_startVars
  PROVE  (TornUntilWritten /\ SeedInHand /\ OwnerHasSeed)'
<1> USE StartupAssumption DEF StartupAssumption, TornUntilWritten, SeedInHand,
        OwnerHasSeed, AfterSetUp, AfterOffer
<1>1. TornUntilWritten /\ SeedInHand /\ OwnerHasSeed /\ ProcessorRunning
  BY DEF IInv
<1>2. CASE GenerateSeed
  BY <1>1, <1>2 DEF GenerateSeed, Continue, Fails
<1>3. CASE WriteSeed
  BY <1>1, <1>3 DEF WriteSeed, Continue, Fails, node
<1>4. CASE ReadSeed
  BY <1>1, <1>4 DEF ReadSeed, disk, IInv, StartTypeOK
<1>5. CASE Launch \/ SetUpNode \/ InitDb \/ RunLdk \/ OfferFetched \/ BecomeReady
  BY <1>1, <1>5 DEF Launch, SetUpNode, InitDb, RunLdk, OfferFetched,
                    BecomeReady, Continue, Fails, disk, node
<1>6. CASE ConnectionReturns \/ TaskPanics
  BY <1>1, <1>6 DEF ConnectionReturns, TaskPanics, Fails, disk, node
<1>7. CASE OpenMonitor \/ PersistManager
  BY <1>1, <1>7 DEF OpenMonitor, PersistManager, ProcessorRunning, node
<1>8. CASE Kill
  BY <1>1, <1>8 DEF Kill, disk
<1>9. CASE UNCHANGED startVars
  BY <1>1, <1>9 DEF startVars, disk, node
<1> QED
  BY <1>2, <1>3, <1>4, <1>5, <1>6, <1>7, <1>8, <1>9 DEF StartNext, Starting, Running

\* The chain monitor, the processor and the singletons.
LEMMA NodeStep ==
  ASSUME IInv, [StartNext]_startVars
  PROVE  (MonitorsWatched /\ ProcessorRunning /\ SingletonsSet)'
<1> USE DEF MonitorsWatched, ProcessorRunning, SingletonsSet, AfterSetUp,
        AfterOffer
<1>1. /\ MonitorsWatched /\ ProcessorRunning /\ SingletonsSet
      /\ singletons \subseteq Singletons
  BY DEF IInv, StartTypeOK
<1>2. CASE Launch \/ GenerateSeed \/ WriteSeed \/ ReadSeed
  <2>1. /\ phase' \in {"seed", "write", "node", "failed"}
        /\ phase \notin AfterOffer
        /\ UNCHANGED <<singletons, processor, ready>>
    BY <1>2 DEF Launch, GenerateSeed, WriteSeed, ReadSeed, Continue, Fails,
                node, app
  <2> QED
    BY <1>1, <2>1
<1>3. CASE SetUpNode
  <2>1. ~processor /\ UNCHANGED <<monitors, processor, ready>>
    BY <1>1, <1>3 DEF SetUpNode, disk, app
  <2>2. \/ /\ phase' = "database" /\ watched' = monitors
           /\ singletons' = singletons \cup {"WALLET"}
        \/ phase' = "failed" /\ UNCHANGED singletons
    BY <1>3 DEF SetUpNode, WatchMonitors, LoadedMonitors, Continue, Fails
  <2> QED
    BY <1>1, <2>1, <2>2 DEF Singletons
<1>4. CASE InitDb
  <2>1. phase = "database" /\ UNCHANGED <<monitors, watched, processor, ready>>
    BY <1>4 DEF InitDb, disk, app
  <2>2. \/ phase' = "ldk" /\ singletons' = singletons \cup {"DB"}
        \/ phase' = "failed" /\ UNCHANGED singletons
    BY <1>4 DEF InitDb, Continue, Fails
  <2> QED
    BY <1>1, <2>1, <2>2 DEF Singletons
<1>5. CASE RunLdk
  <2>1. /\ phase = "ldk" /\ phase' = "offer"
        /\ singletons' = singletons \cup {"INVOICE_PAYER"}
        /\ UNCHANGED <<monitors, watched, ready>>
    BY <1>5 DEF RunLdk, Continue, disk, app
  <2> QED
    BY <1>1, <2>1 DEF Singletons
<1>6. CASE OfferFetched \/ BecomeReady
  BY <1>1, <1>6 DEF OfferFetched, BecomeReady, Continue, Singletons, disk,
                    node, app
<1>7. CASE ConnectionReturns \/ TaskPanics
  BY <1>1, <1>7 DEF ConnectionReturns, TaskPanics, Fails, disk, node
<1>8. CASE OpenMonitor \/ PersistManager
  BY <1>1, <1>8 DEF OpenMonitor, PersistManager, node, app
<1>9. CASE Kill
  BY <1>9 DEF Kill, disk
<1>10. CASE UNCHANGED startVars
  BY <1>1, <1>10 DEF startVars, disk, node, app
<1> QED
  BY <1>2, <1>3, <1>4, <1>5, <1>6, <1>7, <1>8, <1>9, <1>10
     DEF StartNext, Starting, Running

\* The inductive invariant of the app.
LEMMA Invariant == Spec => []IInv
<1>1. Init => IInv
  BY InvInit DEF Init
<1>2. IInv /\ [Next]_vars => IInv'
  BY StartSteps, StartTypeStep, SeedStep, NodeStep DEF IInv
<1> QED
  BY <1>1, <1>2, PTL DEF Spec

\* Whatever failed or was killed before, the LDK data on disk belongs to the
\* seed in the file.
THEOREM NodeKeepsSeed == Spec => []NodeBelongsToSeed
<1>1. IInv => NodeBelongsToSeed
  BY DEF IInv, OwnerHasSeed, NodeBelongsToSeed
<1> QED
  BY <1>1, Invariant, PTL

\* A running background processor watches every channel with a monitor.
THEOREM AllChannelsWatched == Spec => []ChannelsAreWatched
<1>1. IInv => ChannelsAreWatched
  BY DEF IInv, ProcessorRunning, MonitorsWatched, ChannelsAreWatched, AfterSetUp
<1> QED
  BY <1>1, Invariant, PTL

\* Pages and event handlers find WALLET, DB and INVOICE_PAYER set.
THEOREM SingletonsFound == Spec => []ApiFindsSingletons
<1>1. IInv => ApiFindsSingletons
  BY DEF IInv, StartTypeOK, ProcessorRunning, SingletonsSet,
         ApiFindsSingletons, Singletons, AfterSetUp
<1> QED
  BY <1>1, Invariant, PTL

-----------------------------------------------------------------------------
(* The prices                                                              *)

\* A quote that is merged from prices of the market is one.
LEMMA MergedTyped ==
  ASSUME QuoteTypeOK, NEW fields \in SUBSET Fields
  PROVE  Merged(fields) \in Quotes
  BY DEF QuoteTypeOK, Merged, Latest, Zero, Quotes

\* The offer built from a quote is typed.
LEMMA OfferTyped ==
  ASSUME QuoteTypeOK, quote # NoOffer PROVE WithSpread(quote, spread) \in Offered
  BY DEF QuoteTypeOK, Offered

\* The maker has no quote and the app no offer.
LEMMA QuoteTypeInit == QuoteInit => QuoteTypeOK
  BY QuoteAssumption DEF QuoteInit, QuoteTypeOK, QuoteAssumption, Offered

\* Every step of BitMEX, the maker and the poll keeps the types.
LEMMA QuoteTypeStep == QuoteTypeOK /\ [QuoteNext]_quoteVars => QuoteTypeOK'
<1> SUFFICES ASSUME QuoteTypeOK, [QuoteNext]_quoteVars PROVE QuoteTypeOK'
  OBVIOUS
<1>1. CASE MarketMoves
  BY <1>1, QuoteAssumption DEF MarketMoves, QuoteTypeOK, QuoteAssumption, pollVars
<1>2. CASE UpdateQuote
  BY <1>2, MergedTyped DEF UpdateQuote, QuoteTypeOK, pollVars
<1>3. CASE StreamEnds \/ PutSpread \/ ReachabilityChanges
  BY <1>3 DEF StreamEnds, PutSpread, ReachabilityChanges, QuoteTypeOK, pollVars
<1>4. CASE GetOffer
  <2>1. answer' \in Offered
    BY <1>4, OfferTyped DEF GetOffer, Offered
  <2> QED
    BY <1>4, <2>1 DEF GetOffer, QuoteTypeOK, makerVars
<1>5. CASE \/ ReceiveOffer
           \/ AbortPoll
           \/ ForgetOffer /\ UNCHANGED makerVars
  <2>1. NoOffer \in Offered
    BY DEF Offered
  <2> QED
    BY <1>5, <2>1 DEF ReceiveOffer, AbortPoll, ForgetOffer, QuoteTypeOK, makerVars
<1>6. CASE UNCHANGED quoteVars
  BY <1>6 DEF quoteVars, makerVars, pollVars, QuoteTypeOK
<1> QED
  BY <1>1, <1>2, <1>3, <1>4, <1>5, <1>6 DEF QuoteNext, MakerNext

\* Every behaviour of the app and the maker stays within the types.
THEOREM TypeCorrect == Spec => []TypeOK
<1>1. Init => TypeOK
  BY StartTypeInit, QuoteTypeInit DEF Init, TypeOK
<1>2. TypeOK /\ [Next]_vars => TypeOK'
  BY StartSteps, QuoteSteps, StartTypeStep, QuoteTypeStep DEF TypeOK
<1> QED
  BY <1>1, <1>2, PTL DEF Spec

\* However partial the updates of the stream are, a price that has been
\* quoted never falls back to zero, since no price of the market is zero.
THEOREM PriceStays == Spec => NeverBackToZero
<1> DEFINE Back == \A f \in Fields : quote # NoOffer /\ quote[f] # 0 => quote'[f] # 0
<1>1. TypeOK /\ [Next]_vars => [Back]_quote
  <2> SUFFICES ASSUME TypeOK, [Next]_vars, quote' # quote PROVE Back
    OBVIOUS
  <2>1. [QuoteNext]_quoteVars
    BY QuoteSteps
  <2>2. UpdateQuote
    BY <2>1 DEF QuoteNext, MakerNext, MarketMoves, StreamEnds, PutSpread,
       ReachabilityChanges, GetOffer, ReceiveOffer, AbortPoll, ForgetOffer,
       quoteVars, makerVars
  <2>3. PICK fields \in SUBSET Fields : quote' = Merged(fields)
    BY <2>2 DEF UpdateQuote
  <2>4. ASSUME NEW f \in Fields PROVE market[f] # 0
    BY <2>4, QuoteAssumption DEF TypeOK, QuoteTypeOK, QuoteAssumption
  <2> QED
    BY <2>3, <2>4 DEF Merged, Latest
<1> QED
  BY <1>1, TypeCorrect, PTL DEF Spec, NeverBackToZero
=============================================================================
