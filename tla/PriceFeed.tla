------------------------------ MODULE PriceFeed ------------------------------
(***************************************************************************)
(* The price feed (PriceFeed.sol) between its two oracles: Pyth, behind a  *)
(* wrapper that speaks Chainlink's interface (PythCaller.sol), and Tellor  *)
(* behind one that remembers the last value it retrieved                   *)
(* (TellorCaller.sol).                                                     *)
(*                                                                         *)
(* Either oracle may stop, freeze, answer nonsense or disagree with the    *)
(* other at any time between two calls of fetchPrice; a value reported to  *)
(* Tellor may be disputed, which takes it away.                            *)
(***************************************************************************)
EXTENDS Integers, FiniteSets

CONSTANTS
    DECIMAL_PRECISION,    \* 1e18: the scale of ratios
    MAX_PRICE_DEVIATION_FROM_PREVIOUS_ROUND,   \* 50%
    MAX_PRICE_DIFFERENCE_BETWEEN_ORACLES,      \* 5%
    TARGET_DIGITS,        \* 18: digits of a price of the feed
    TIMEOUT,              \* age beyond which an answer is frozen
    DISPUTE_BUFFER,       \* age a Tellor value must have, 15 minutes
    Answers,              \* prices Pyth may answer, of TARGET_DIGITS digits
    WrongAnswers,         \* prices that are not positive
    Digits,               \* decimals of Pyth's answers
    Values,               \* values that may be reported to Tellor
    MaxTime,              \* bound on the clock
    MaxReports            \* bound on the reports to Tellor

ASSUME PrecisionAssumption == DECIMAL_PRECISION \in Nat \ {0}
ASSUME DigitsAssumption == TARGET_DIGITS \in Nat /\ Digits \subseteq Nat
ASSUME DeviationAssumption ==
    /\ MAX_PRICE_DEVIATION_FROM_PREVIOUS_ROUND \in Nat
    /\ MAX_PRICE_DIFFERENCE_BETWEEN_ORACLES \in Nat
ASSUME TimeAssumption ==
    /\ TIMEOUT \in Nat /\ DISPUTE_BUFFER \in Nat
    /\ MaxTime \in Nat /\ MaxReports \in Nat
ASSUME ValuesAssumption ==
    /\ Answers \subseteq Nat \ {0} /\ Values \subseteq Nat \ {0}
    /\ WrongAnswers \subseteq Int /\ \A a \in WrongAnswers : a <= 0

Status == {"chainlinkWorking", "usingTellorChainlinkUntrusted",
           "bothOraclesUntrusted", "usingTellorChainlinkFrozen",
           "usingChainlinkTellorUntrusted"}

VARIABLES
    now,            \* block.timestamp
    status,         \* what the feed thinks of its oracles
    lastGoodPrice,  \* the price it returns if it trusts none
    pyth,           \* Pyth's price: answer, decimals, publish time
    pythWorks,      \* whether calls of it succeed
    reports,        \* values reported to Tellor and not disputed
    disputed,       \* values that were disputed before they could be read
    tellorWorks,    \* whether calls of Tellor succeed
    lastStored,     \* TellorCaller: the last value retrieved, with its time
    source          \* history: what the last fetchPrice returned, and why

feed == <<status, lastGoodPrice, lastStored, source>>
oracles == <<pyth, pythWorks, reports, disputed, tellorWorks>>
vars == <<now, feed, oracles>>

-----------------------------------------------------------------------------
(* Responses.                                                              *)

Abs(x) == IF x < 0 THEN -x ELSE x
MinOf(a, b) == IF a <= b THEN a ELSE b
MaxOf(a, b) == IF a <= b THEN b ELSE a

\* _scaleChainlinkPriceByDigits: to TARGET_DIGITS, rounded down.
Scaled(answer, digits) ==
    IF digits >= TARGET_DIGITS
      THEN answer \div (10 ^ (digits - TARGET_DIGITS))
      ELSE answer * (10 ^ (TARGET_DIGITS - digits))

\* PythCaller.latestRoundData and decimals; the round id is the time.
ChainlinkResponse == [success |-> pythWorks, answer |-> pyth.answer,
                      timestamp |-> pyth.time, decimals |-> pyth.digits]

\* mutant: the most recent value is read.
DataBeforeNow(time) == reports

\* Tellor.getDataBefore(time): the reports older than that.
DataBefore(time) == {r \in reports : r.time < time}

\* What the caller makes of what it retrieves: time does not go back.
CallerReturns(r) == IF r.time > lastStored.time THEN r ELSE lastStored

Retrieved ==
    LET old == DataBefore(now - DISPUTE_BUFFER)
    IN IF old = {} THEN [time |-> 0, value |-> 0]
       ELSE CallerReturns(CHOOSE r \in old : \A q \in old : q.time <= r.time)

\* TellorCaller.getTellorCurrentValue: a call that retrieves nothing succeeds.
TellorResponse ==
    [success |-> tellorWorks, value |-> Retrieved.value, timestamp |-> Retrieved.time]

ChainlinkIsBroken(c) ==
    \/ ~c.success
    \/ c.timestamp = 0 \/ c.timestamp > now
    \/ c.answer <= 0

TellorIsBroken(t) ==
    \/ ~t.success
    \/ t.timestamp = 0 \/ t.timestamp > now
    \/ t.value = 0

\* mutant: an answer as old as the timeout twice over is accepted.
FrozenLate(r) == now - r.timestamp > 2 * TIMEOUT

Frozen(r) == now - r.timestamp > TIMEOUT

Price(c) == Scaled(c.answer, c.decimals)

\* More than doubled or halved since the last good price.
ChangeAboveMax(price) ==
    (Abs(price - lastGoodPrice) * DECIMAL_PRECISION) \div MaxOf(price, lastGoodPrice)
        > MAX_PRICE_DEVIATION_FROM_PREVIOUS_ROUND

Similar(price, tellorPrice) ==
    (Abs(price - tellorPrice) * DECIMAL_PRECISION) \div MinOf(price, tellorPrice)
        <= MAX_PRICE_DIFFERENCE_BETWEEN_ORACLES

ChainlinkIsLive(c) == ~ChainlinkIsBroken(c) /\ ~Frozen(c)
TellorIsLive(t) == ~TellorIsBroken(t) /\ ~Frozen(t)

BothLiveAndSimilar(c, t) ==
    TellorIsLive(t) /\ ChainlinkIsLive(c) /\ Similar(Price(c), t.value)

-----------------------------------------------------------------------------
(* fetchPrice, by the status it finds.                                     *)

\* _changeStatus, and what is returned: the last good price, or an oracle's,
\* which becomes the last good price.
ReturnLast(s) ==
    /\ status' = s
    /\ source' = [from |-> "last", time |-> 0]
    /\ UNCHANGED lastGoodPrice

ReturnTellor(s, t) ==
    /\ status' = s
    /\ lastGoodPrice' = t.value
    /\ source' = [from |-> "tellor", time |-> t.timestamp]

ReturnChainlink(s, c) ==
    /\ status' = s
    /\ lastGoodPrice' = Price(c)
    /\ source' = [from |-> "chainlink", time |-> c.timestamp]

\* Tellor's price if it is live, the last good price if it is only frozen.
TellorOrLast(s, t) ==
    IF Frozen(t) THEN ReturnLast(s) ELSE ReturnTellor(s, t)

ChainlinkBreaks(c, t) ==
    /\ ChainlinkIsBroken(c)
    /\ IF TellorIsBroken(t) THEN ReturnLast("bothOraclesUntrusted")
       ELSE TellorOrLast("usingTellorChainlinkUntrusted", t)

\* Case 1: Chainlink was working.
FetchChainlinkWorking(c, t) ==
    /\ status = "chainlinkWorking"
    /\ \/ ChainlinkBreaks(c, t)
       \/ /\ ~ChainlinkIsBroken(c) /\ Frozen(c)
          /\ IF TellorIsBroken(t) THEN ReturnLast("usingChainlinkTellorUntrusted")
             ELSE TellorOrLast("usingTellorChainlinkFrozen", t)
       \/ /\ ChainlinkIsLive(c) /\ ChangeAboveMax(Price(c))
          /\ IF TellorIsBroken(t) THEN ReturnLast("bothOraclesUntrusted")
             ELSE IF ~Frozen(t) /\ Similar(Price(c), t.value)
               THEN ReturnChainlink("chainlinkWorking", c)
             ELSE TellorOrLast("usingTellorChainlinkUntrusted", t)
       \/ /\ ChainlinkIsLive(c) /\ ~ChangeAboveMax(Price(c))
          /\ ReturnChainlink(IF TellorIsBroken(t) THEN "usingChainlinkTellorUntrusted"
                                                  ELSE "chainlinkWorking", c)

\* mutant: Chainlink is never trusted again.
FetchChainlinkUntrustedForGood(c, t) ==
    /\ status = "usingTellorChainlinkUntrusted"
    /\ IF TellorIsBroken(t) THEN ReturnLast("bothOraclesUntrusted")
       ELSE TellorOrLast(status, t)

\* Case 2: Tellor was used, Chainlink not trusted.
FetchChainlinkUntrusted(c, t) ==
    /\ status = "usingTellorChainlinkUntrusted"
    /\ IF BothLiveAndSimilar(c, t) THEN ReturnChainlink("chainlinkWorking", c)
       ELSE IF TellorIsBroken(t) THEN ReturnLast("bothOraclesUntrusted")
       ELSE TellorOrLast(status, t)

\* Case 3: neither was trusted.
FetchBothUntrusted(c, t) ==
    /\ status = "bothOraclesUntrusted"
    /\ IF BothLiveAndSimilar(c, t) THEN ReturnChainlink("chainlinkWorking", c)
       ELSE ReturnLast(status)

\* Case 4: Tellor was used, Chainlink was frozen.
FetchChainlinkFrozen(c, t) ==
    /\ status = "usingTellorChainlinkFrozen"
    /\ \/ ChainlinkBreaks(c, t)
       \/ /\ ~ChainlinkIsBroken(c) /\ Frozen(c)
          /\ IF TellorIsBroken(t) THEN ReturnLast("usingChainlinkTellorUntrusted")
             ELSE TellorOrLast(status, t)
       \/ /\ ChainlinkIsLive(c)
          /\ IF TellorIsBroken(t) THEN ReturnChainlink("usingChainlinkTellorUntrusted", c)
             ELSE IF Frozen(t) THEN ReturnLast(status)
             ELSE IF Similar(Price(c), t.value) THEN ReturnChainlink("chainlinkWorking", c)
             ELSE ReturnTellor("usingTellorChainlinkUntrusted", t)

\* mutant: a large change is accepted while Tellor is not trusted.
FetchTellorUntrustedAnyChange(c, t) ==
    /\ status = "usingChainlinkTellorUntrusted"
    /\ IF ChainlinkIsBroken(c) THEN ReturnLast("bothOraclesUntrusted")
       ELSE IF Frozen(c) THEN ReturnLast(status)
       ELSE IF BothLiveAndSimilar(c, t) THEN ReturnChainlink("chainlinkWorking", c)
       ELSE ReturnChainlink(status, c)

\* Case 5: Chainlink was used, Tellor not trusted.
FetchTellorUntrusted(c, t) ==
    /\ status = "usingChainlinkTellorUntrusted"
    /\ IF ChainlinkIsBroken(c) THEN ReturnLast("bothOraclesUntrusted")
       ELSE IF Frozen(c) THEN ReturnLast(status)
       ELSE IF BothLiveAndSimilar(c, t) THEN ReturnChainlink("chainlinkWorking", c)
       ELSE IF ChangeAboveMax(Price(c)) THEN ReturnLast("bothOraclesUntrusted")
       ELSE ReturnChainlink(status, c)

\* A comparison divides by a price that was scaled down to 0: fetchPrice
\* reverts, and the transaction that called it.
FetchReverts ==
    LET c == ChainlinkResponse
        t == TellorResponse
    IN /\ ChainlinkIsLive(c) /\ Price(c) = 0
       /\ \/ TellorIsLive(t)
          \/ /\ lastGoodPrice = 0
             /\ status \in {"chainlinkWorking", "usingChainlinkTellorUntrusted"}

Fetch ==
    /\ ~FetchReverts
    /\ LET c == ChainlinkResponse
           t == TellorResponse
       IN /\ \/ FetchChainlinkWorking(c, t)
             \/ FetchChainlinkUntrusted(c, t)
             \/ FetchBothUntrusted(c, t)
             \/ FetchChainlinkFrozen(c, t)
             \/ FetchTellorUntrusted(c, t)
          /\ lastStored' = IF tellorWorks /\ t.timestamp > lastStored.time
                             THEN [time |-> t.timestamp, value |-> t.value]
                             ELSE lastStored
    /\ UNCHANGED <<now, oracles>>

-----------------------------------------------------------------------------
(* The oracles.                                                            *)

\* The feed is initialized with a current price of Pyth.
Init ==
    /\ now = 1
    /\ status = "chainlinkWorking"
    /\ pyth \in [answer : Answers, digits : Digits, time : {now}]
    /\ pythWorks = TRUE
    /\ lastGoodPrice = Scaled(pyth.answer, pyth.digits)
    /\ reports = {} /\ disputed = {} /\ tellorWorks = TRUE
    /\ lastStored = [time |-> 0, value |-> 0]
    /\ source = [from |-> "chainlink", time |-> now]

Tick ==
    /\ now < MaxTime
    /\ now' = now + 1
    /\ UNCHANGED <<feed, oracles>>

\* A new price, possibly wrong, or from a clock that is ahead.
PythUpdates ==
    /\ pyth' \in [answer : Answers \cup WrongAnswers, digits : Digits,
                  time : {now, now + 1}]
    /\ UNCHANGED <<now, feed, pythWorks, reports, disputed, tellorWorks>>

PythStopsOrWorks ==
    /\ pythWorks' = ~pythWorks
    /\ UNCHANGED <<now, feed, pyth, reports, disputed, tellorWorks>>

TellorStopsOrWorks ==
    /\ tellorWorks' = ~tellorWorks
    /\ UNCHANGED <<now, feed, pyth, pythWorks, reports, disputed>>

TellorReports ==
    /\ Cardinality(reports \cup disputed) < MaxReports
    /\ \A r \in reports \cup disputed : r.time < now
    /\ \E v \in Values : reports' = reports \cup {[time |-> now, value |-> v]}
    /\ UNCHANGED <<now, feed, pyth, pythWorks, disputed, tellorWorks>>

\* A value is taken away; the feed has not read it if the buffer holds.
TellorDispute ==
    /\ \E r \in reports :
        /\ reports' = reports \ {r}
        /\ disputed' = IF r.time >= now - DISPUTE_BUFFER THEN disputed \cup {r}
                                                         ELSE disputed
    /\ UNCHANGED <<now, feed, pyth, pythWorks, tellorWorks>>

Next ==
    \/ Fetch
    \/ Tick
    \/ PythUpdates
    \/ PythStopsOrWorks
    \/ TellorReports
    \/ TellorStopsOrWorks
    \/ TellorDispute

Spec == Init /\ [][Next]_vars

\* The price is fetched again and again: by every operation of the protocol.
FairSpec == Spec /\ WF_vars(Fetch)

-----------------------------------------------------------------------------
(* Properties.                                                             *)

TypeOK ==
    /\ now \in 1 .. MaxTime
    /\ status \in Status
    /\ lastGoodPrice \in Nat
    /\ lastStored.time \in 0 .. now
    /\ \A r \in reports \cup disputed : r.time \in 1 .. now /\ r.value \in Values
    /\ source.from \in {"last", "tellor", "chainlink"} /\ source.time \in 0 .. now

Fetched == source' # source \/ status' # status \/ lastGoodPrice' # lastGoodPrice

\* Whatever the status, a price that is stored is not older than the timeout.
StoredPriceIsFresh ==
    [][Fetched /\ source'.from # "last" => now - source'.time <= TIMEOUT]_vars

\* Chainlink's price is stored after a change by more than half only if Tellor
\* confirms it, except on the return from a frozen Chainlink to find Tellor
\* broken (PriceFeed.sol:276), where nothing is compared.
LargeChangeIsConfirmed ==
    [][Fetched /\ source'.from = "chainlink" /\ ChangeAboveMax(lastGoodPrice') =>
        \/ TellorIsLive(TellorResponse) /\ Similar(lastGoodPrice', TellorResponse.value)
        \/ /\ status = "usingTellorChainlinkFrozen"
           /\ TellorIsBroken(TellorResponse)]_vars

\* The claim of the comment at PriceFeed.sol:36, without the exception: 50% is
\* the "maximum deviation allowed between two consecutive Chainlink oracle
\* prices".
LargeChangeIsAlwaysConfirmed ==
    [][Fetched /\ source'.from = "chainlink" /\ ChangeAboveMax(lastGoodPrice') =>
        TellorIsLive(TellorResponse) /\ Similar(lastGoodPrice', TellorResponse.value)]_vars

\* A value that was disputed within the buffer is never retrieved: the delay
\* "allows time for a bad value to be disputed" (TellorCaller.sol:48).
DisputedValueIsNotRead == lastStored \notin disputed

\* From every status the feed returns to Chainlink if both oracles stay live
\* and agree: no state of mistrust is final.
TrustReturns ==
    <>[]BothLiveAndSimilar(ChainlinkResponse, TellorResponse)
        => <>[](status = "chainlinkWorking")
=============================================================================
