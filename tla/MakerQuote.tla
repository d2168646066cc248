----------------------------- MODULE MakerQuote -----------------------------
(***************************************************************************)
(* Prices on their way from BitMEX to the taker's app: the maker's task    *)
(* that merges partial updates into its latest quote and publishes it in a *)
(* watch channel, the route /api/offer that adds the spread, and the       *)
(* taker's poll, whose result the app shows.                               *)
(*                                                                         *)
(* The module has no behaviour of its own: when the taker polls is up to   *)
(* the app, which TakerApp adds.  BitMEX and the network are external.     *)
(***************************************************************************)
EXTENDS Integers

CONSTANTS
    NoOffer,        \* None: no quote, no offer, no answer
    Fields,         \* the prices a quote has
    Prices,         \* what the market may ask
    Spreads,        \* spreads an operator may set, in thousandths
    MaxMoves        \* bound: moves of the market

ASSUME QuoteAssumption ==
    /\ Fields \subseteq {"bid", "ask", "index"}
    /\ Prices \subseteq Nat \ {0}
    /\ Spreads \subseteq Int /\ 15 \in Spreads
    /\ MaxMoves \in Nat
    /\ NoOffer \notin [Fields -> Int]

VARIABLES
    market,         \* the prices of the market
    moves,          \* how often it has moved
    quote,          \* the watch channel: None, or latest_quote
    quoting,        \* whether the task that reads the stream still runs
    spread,         \* the other watch channel
    reachable,      \* whether the maker answers HTTP requests
    poll,           \* the taker's get_offer: asking or answered
    answer,         \* the answer on its way
    offer           \* CfdOfferChangeNotifier.offer

makerVars == <<market, moves, quote, quoting, spread, reachable>>
pollVars == <<poll, answer, offer>>
quoteVars == <<makerVars, pollVars>>

QuoteInit ==
    /\ market \in [Fields -> Prices] /\ moves = 0
    /\ quote = NoOffer /\ quoting = TRUE
    /\ spread = 15
    /\ reachable = TRUE
    /\ poll = "asking" /\ answer = NoOffer /\ offer = NoOffer

MarketMoves ==
    /\ moves < MaxMoves /\ moves' = moves + 1
    /\ \E f \in Fields, p \in Prices : market' = [market EXCEPT ![f] = p]
    /\ UNCHANGED <<quote, quoting, spread, reachable, pollVars>>

(***************************************************************************)
(* The maker                                                               *)
(***************************************************************************)
\* Quote::new, before any update.
Zero == [f \in Fields |-> 0]
Latest == IF quote = NoOffer THEN Zero ELSE quote

\* Mutant: a field the update does not mention is reset.
MergedReset(fields) == [f \in Fields |-> IF f \in fields THEN market[f] ELSE 0]

\* Quote::update: the fields the update mentions are replaced.
Merged(fields) == [f \in Fields |-> IF f \in fields THEN market[f] ELSE Latest[f]]

\* A message with some prices (others are skipped), merged and sent to the
\* watch channel.
UpdateQuote ==
    /\ quoting
    /\ \E fields \in SUBSET Fields : quote' = Merged(fields)
    /\ UNCHANGED <<market, moves, quoting, spread, reachable, pollVars>>

\* The stream breaks, which panics the task, or ends. The receivers keep the
\* last quote.
StreamEnds ==
    /\ quoting
    /\ quoting' = FALSE
    /\ UNCHANGED <<market, moves, quote, spread, reachable, pollVars>>

PutSpread ==
    /\ spread' \in Spreads
    /\ UNCHANGED <<market, moves, quote, quoting, reachable, pollVars>>

ReachabilityChanges ==
    /\ reachable' = ~reachable
    /\ UNCHANGED <<market, moves, quote, quoting, spread, pollVars>>

MakerNext ==
    MarketMoves \/ UpdateQuote \/ StreamEnds \/ PutSpread \/ ReachabilityChanges

\* The prices of get_offer, in thousandths.
WithSpread(q, s) ==
    [f \in Fields |-> CASE f = "bid" -> q[f] * (1000 - s)
                        [] f = "ask" -> q[f] * (1000 + s)
                        [] f = "index" -> q[f] * 1000]

(***************************************************************************)
(* The taker's get_offer, once                                             *)
(***************************************************************************)
\* The request reaches the route, which answers: with the quote it finds, or
\* 404 while there is none.
GetOffer ==
    /\ poll = "asking" /\ reachable
    /\ poll' = "answered"
    /\ answer' = IF quote = NoOffer THEN NoOffer ELSE WithSpread(quote, spread)
    /\ UNCHANGED <<makerVars, offer>>

\* Mutant: an error leaves the offer of the last poll.
ReceiveOfferIfAny ==
    /\ \/ poll = "answered" /\ offer' = (IF answer = NoOffer THEN offer ELSE answer)
       \/ ~reachable /\ UNCHANGED offer
    /\ poll' = "asking" /\ answer' = NoOffer
    /\ UNCHANGED makerVars

\* Mutant: no timeout.
ReceiveOfferInTheEnd ==
    /\ poll = "answered" /\ offer' = answer
    /\ poll' = "asking" /\ answer' = NoOffer
    /\ UNCHANGED makerVars

\* The answer, or None after an error or the timeout; then the next poll.
ReceiveOffer ==
    /\ \/ poll = "answered" /\ offer' = answer
       \/ ~reachable /\ offer' = NoOffer
    /\ poll' = "asking" /\ answer' = NoOffer
    /\ UNCHANGED makerVars

\* The app is gone, and with it what it held.
ForgetOffer == poll' = "asking" /\ answer' = NoOffer /\ offer' = NoOffer

\* Every variable has its type.
Quotes == [Fields -> Prices \cup {0}]
Offered == {NoOffer} \cup {WithSpread(q, s) : q \in Quotes, s \in Spreads}
QuoteTypeOK ==
    /\ market \in [Fields -> Prices] /\ moves \in 0 .. MaxMoves
    /\ quote \in {NoOffer} \cup Quotes
    /\ quoting \in BOOLEAN /\ reachable \in BOOLEAN /\ spread \in Spreads
    /\ poll \in {"asking", "answered"}
    /\ answer \in Offered /\ offer \in Offered
=============================================================================
