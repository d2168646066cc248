------------------------------ MODULE TakerApp ------------------------------
(***************************************************************************)
(* The taker's app from its start, with the prices it gets from the maker: *)
(* the steps of Startup and MakerQuote, run() fetching one offer on its    *)
(* way and the offer task one after the other from then on.                *)
(***************************************************************************)
EXTENDS Startup, MakerQuote

vars == <<startVars, quoteVars>>

Init == StartInit /\ QuoteInit

\* The loop of offer::spawn, and the offer run() waits for.
Polling == phase = "offer" \/ "offer" \in tasks
PollOffer ==
    /\ Polling
    /\ ReceiveOffer
    /\ IF phase = "offer" THEN OfferFetched ELSE UNCHANGED startVars
MakerAnswers == Polling /\ GetOffer /\ UNCHANGED startVars

\* What ends run() ends the poll; what kills the process clears the page too.
AbortPoll == poll' = "asking" /\ answer' = NoOffer /\ UNCHANGED <<makerVars, offer>>
AppPanics == TaskPanics /\ AbortPoll
AppKilled == Kill /\ ForgetOffer /\ UNCHANGED makerVars

Next ==
    \/ (Starting \/ Running) /\ UNCHANGED quoteVars
    \/ PollOffer
    \/ MakerAnswers
    \/ MakerNext /\ UNCHANGED startVars
    \/ AppPanics \/ AppKilled

Spec == Init /\ [][Next]_vars

\* The steps of run() go on and the user opens the app, a request is answered
\* or times out, and the maker's stream brings the prices of the market.
Fairness ==
    /\ WF_vars(Starting /\ UNCHANGED quoteVars)
    /\ WF_vars(PollOffer \/ MakerAnswers)
    /\ WF_vars(UpdateQuote /\ quote' = market /\ UNCHANGED startVars)

FairSpec == Spec /\ Fairness

-----------------------------------------------------------------------------
(* Properties *)

\* Every variable has its type.
TypeOK == StartTypeOK /\ QuoteTypeOK

\* The LDK data on disk belongs to the seed in the file, whatever failed or
\* was killed before: channels of another seed would be lost.
NodeBelongsToSeed == owner \in {Absent, seedFile}

\* A running background processor watches every channel there is a monitor
\* of, those the manager was never persisted with included.
ChannelsAreWatched == processor => watched = monitors

\* "`init_wallet()` to be called before any other API calls": the pages and
\* LDK's event handler find the singletons set.
ApiFindsSingletons == ready \/ processor => singletons = Singletons

\* A price that has been quoted is never zero again.
NeverBackToZero ==
    [][\A f \in Fields : quote # NoOffer /\ quote[f] # 0 => quote'[f] # 0]_quote

\* Once the app is ready, and nothing else changes, it comes to show the
\* prices of the market with the spread.
Settled(p, s) == market = p /\ spread = s /\ quoting /\ reachable /\ ready /\ ~panicked
OfferFollowsMarket ==
    \A p \in [Fields -> Prices], s \in Spreads :
        <>[]Settled(p, s) => <>[](offer = WithSpread(p, s))

\* When the maker is gone, the app stops showing its offer.
OfferWithdrawn ==
    <>[](~reachable /\ ready /\ ~panicked) => <>[](offer = NoOffer)

\* A start or a restart ends with the pages shown unless one of its steps
\* fails; that the maker does not answer keeps nobody out.
StartsWithoutMaker == <>[](phase # "failed") => <>[]ready
=============================================================================
