-------------------------- MODULE PriceFeedProofs --------------------------
(***************************************************************************)
(* The price feed for any answers, values, digits, timeout and deviations. *)
(*                                                                         *)
(* What a step may store follows from the five cases of fetchPrice alone:  *)
(* every branch that stores a price must have made the tests for it.  That *)
(* a disputed value is never read needs an invariant: a value is read      *)
(* when it is older than the buffer, and disputed, as far as it counts,    *)
(* when it is not.                                                         *)
(***************************************************************************)
EXTENDS PriceFeed, WellFoundedInduction, TLAPS

\* A call of fetchPrice, in one of the five cases.
FetchCases(c, t) ==
    \/ FetchChainlinkWorking(c, t)
    \/ FetchChainlinkUntrusted(c, t)
    \/ FetchBothUntrusted(c, t)
    \/ FetchChainlinkFrozen(c, t)
    \/ FetchTellorUntrusted(c, t)

\* Only fetchPrice changes what the feed thinks and stores.
LEMMA OnlyFetchFetches ==
    ASSUME [Next]_vars, Fetched
    PROVE  Fetch
<1>1. CASE UNCHANGED vars
  BY <1>1 DEF vars, feed, Fetched
<1>2. CASE Next
  BY <1>2 DEF Next, Fetched, feed, Tick, PythUpdates, PythStopsOrWorks, TellorStopsOrWorks,
              TellorReports, TellorDispute
<1>. QED  BY <1>1, <1>2

LEMMA FetchIsACase ==
    ASSUME Fetch
    PROVE  FetchCases(ChainlinkResponse, TellorResponse)
  BY DEF Fetch, FetchCases

-----------------------------------------------------------------------------
(* What a call stores, by its source.                                      *)

\* What makes each answer: the last price, or the response of an oracle.
LastReturned == source' = [from |-> "last", time |-> 0]

TellorReturned(t) ==
    /\ source' = [from |-> "tellor", time |-> t.timestamp]
    /\ ~Frozen(t)

\* Chainlink's price is stored if it is live, and after a large change only if
\* Tellor confirms it, or on the return from a frozen Chainlink.
ChainlinkReturned(c, t) ==
    /\ source' = [from |-> "chainlink", time |-> c.timestamp]
    /\ lastGoodPrice' = Price(c)
    /\ ~Frozen(c)
    /\ \/ ~ChangeAboveMax(Price(c))
       \/ TellorIsLive(t) /\ Similar(Price(c), t.value)
       \/ status = "usingTellorChainlinkFrozen" /\ TellorIsBroken(t)

LEMMA TellorOrLastReturns ==
    ASSUME NEW s, NEW t, TellorOrLast(s, t)
    PROVE  LastReturned \/ TellorReturned(t)
  BY DEF TellorOrLast, ReturnLast, ReturnTellor, LastReturned, TellorReturned

LEMMA FetchReturns ==
    ASSUME NEW c, NEW t, FetchCases(c, t)
    PROVE  LastReturned \/ TellorReturned(t) \/ ChainlinkReturned(c, t)
<1>. USE TellorOrLastReturns DEF ReturnLast, LastReturned, ChainlinkIsLive, ReturnChainlink,
         ChainlinkReturned
<1>1. CASE FetchChainlinkWorking(c, t)
  BY <1>1 DEF FetchChainlinkWorking, ChainlinkBreaks, TellorIsLive
<1>2. CASE FetchChainlinkUntrusted(c, t)
  BY <1>2 DEF FetchChainlinkUntrusted, BothLiveAndSimilar
<1>3. CASE FetchBothUntrusted(c, t)
  BY <1>3 DEF FetchBothUntrusted, BothLiveAndSimilar
<1>4. CASE FetchChainlinkFrozen(c, t)
  BY <1>4 DEF FetchChainlinkFrozen, ChainlinkBreaks, TellorIsLive, ReturnTellor, TellorReturned
<1>5. CASE FetchTellorUntrusted(c, t)
  BY <1>5 DEF FetchTellorUntrusted, BothLiveAndSimilar
<1>. QED  BY <1>1, <1>2, <1>3, <1>4, <1>5 DEF FetchCases

-----------------------------------------------------------------------------
(* Times and values.                                                       *)

\* The types that freshness and disputes need.
TypeInv ==
    /\ now \in Nat
    /\ pyth.time \in Int
    /\ lastStored \in [time : Nat, value : Nat]
    /\ reports \cup disputed \subseteq [time : Nat, value : Values]
    /\ \A r \in reports \cup disputed : r.time <= now

\* What was retrieved was older than the buffer, and nothing that was disputed
\* is still reported.
ReadLate ==
    /\ \/ lastStored = [time |-> 0, value |-> 0]
       \/ lastStored.time < now - DISPUTE_BUFFER
    /\ reports \cap disputed = {}

IInv == TypeInv /\ ReadLate /\ DisputedValueIsNotRead

\* There is a latest value among those retrieved.
LEMMA LatestExists ==
    ASSUME NEW S, S # {}, now \in Nat,
           \A r \in S : r.time \in Nat /\ r.time <= now
    PROVE  \E r \in S : \A q \in S : q.time <= r.time
<1>. DEFINE ages == {now - r.time : r \in S}
<1>1. ages \subseteq Nat /\ ages # {}
  OBVIOUS
<1>2. PICK a \in ages : \A b \in ages : ~(<<b, a>> \in OpToRel(<, Nat))
  <2>. HIDE DEF ages
  <2>. QED  BY <1>1, NatLessThanWellFounded, WFMin
<1>3. \A b \in ages : a <= b
  <2>1. \A b \in ages : ~(b < a)
    BY <1>1, <1>2 DEF OpToRel
  <2>. HIDE DEF ages
  <2>. QED  BY <1>1, <2>1
<1>4. PICK r \in S : a = now - r.time
  OBVIOUS
<1>5. \A q \in S : q.time <= r.time
  <2>1. TAKE q \in S
  <2>2. now - q.time \in ages
    OBVIOUS
  <2>. HIDE DEF ages
  <2>3. now - r.time <= now - q.time
    BY <1>3, <1>4, <2>2
  <2>. QED  BY <2>3
<1>. QED  BY <1>5

\* A response of Tellor is nothing, what was kept, or a reported value older than
\* the buffer.
LEMMA TellorResponds ==
    ASSUME TimeAssumption, TypeInv
    PROVE  \/ TellorResponse.timestamp = 0
           \/ TellorResponse.timestamp = lastStored.time
           \/ \E r \in reports :
                /\ r.time < now - DISPUTE_BUFFER
                /\ TellorResponse.timestamp = r.time /\ TellorResponse.value = r.value
<1>. DEFINE old == DataBefore(now - DISPUTE_BUFFER)
            latest == CHOOSE r \in old : \A q \in old : q.time <= r.time
<1>1. TellorResponse.timestamp = Retrieved.time /\ TellorResponse.value = Retrieved.value
  BY DEF TellorResponse
<1>2. CASE old = {}
  BY <1>1, <1>2 DEF Retrieved
<1>3. CASE old # {}
  <2>1. Retrieved = CallerReturns(latest)
    BY <1>3 DEF Retrieved
  <2>2. \A r \in old : r.time \in Nat /\ r.time <= now
    BY DEF DataBefore, TypeInv
  <2>3. \E r \in old : \A q \in old : q.time <= r.time
    BY <1>3, <2>2, LatestExists DEF TypeInv
  <2>4. latest \in old
    BY <2>3
  <2>5. latest \in reports /\ latest.time < now - DISPUTE_BUFFER
    BY <2>4 DEF DataBefore
  <2>. HIDE DEF latest, old
  <2>6. Retrieved = latest \/ Retrieved = lastStored
    BY <2>1 DEF CallerReturns
  <2>. QED  BY <1>1, <2>5, <2>6
<1>. QED  BY <1>2, <1>3

LEMMA InitIInv ==
    ASSUME TimeAssumption, ValuesAssumption, Init
    PROVE  IInv
  BY DEF Init, TimeAssumption, IInv, TypeInv, ReadLate, DisputedValueIsNotRead

LEMMA FetchKeepsIInv ==
    ASSUME TimeAssumption, ValuesAssumption, IInv, Fetch
    PROVE  IInv'
<1>1. UNCHANGED <<now, pyth, reports, disputed>>
  BY DEF Fetch, oracles
<1>2. \/ lastStored' = lastStored
      \/ /\ TellorResponse.timestamp > lastStored.time
         /\ lastStored' = [time |-> TellorResponse.timestamp, value |-> TellorResponse.value]
  BY DEF Fetch
<1>3. CASE lastStored' = lastStored
  BY <1>1, <1>3 DEF IInv, TypeInv, ReadLate, DisputedValueIsNotRead
<1>4. CASE /\ TellorResponse.timestamp > lastStored.time
           /\ lastStored' = [time |-> TellorResponse.timestamp, value |-> TellorResponse.value]
  <2>1. lastStored.time \in Nat
    BY DEF IInv, TypeInv
  <2>2. PICK r \in reports : /\ r.time < now - DISPUTE_BUFFER
                             /\ TellorResponse.timestamp = r.time
                             /\ TellorResponse.value = r.value
    BY <1>4, <2>1, TellorResponds DEF IInv
  <2>3. r = [time |-> r.time, value |-> r.value] /\ r.time \in Nat /\ r.value \in Nat
    BY DEF IInv, TypeInv, ValuesAssumption
  <2>4. lastStored' = r
    BY <1>4, <2>2, <2>3
  <2>. QED
    BY <1>1, <2>2, <2>3, <2>4 DEF IInv, TypeInv, ReadLate, DisputedValueIsNotRead
<1>. QED  BY <1>2, <1>3, <1>4

\* A new report is later than all others, disputed ones included.
LEMMA TellorReportsKeepsIInv ==
    ASSUME TimeAssumption, ValuesAssumption, IInv, TellorReports
    PROVE  IInv'
<1>1. PICK v \in Values : reports' = reports \cup {[time |-> now, value |-> v]}
  BY DEF TellorReports
<1>2. UNCHANGED <<now, pyth, disputed, lastStored>> /\ \A r \in disputed : r.time < now
  BY DEF TellorReports, feed
<1>3. [time |-> now, value |-> v] \notin disputed
  BY <1>2 DEF IInv, TypeInv
<1>. QED
  BY <1>1, <1>2, <1>3 DEF IInv, TypeInv, ReadLate, DisputedValueIsNotRead

\* A value that counts as disputed is too young to have been read.
LEMMA TellorDisputeKeepsIInv ==
    ASSUME TimeAssumption, ValuesAssumption, IInv, TellorDispute
    PROVE  IInv'
<1>1. PICK r \in reports :
        /\ reports' = reports \ {r}
        /\ disputed' = IF r.time >= now - DISPUTE_BUFFER THEN disputed \cup {r} ELSE disputed
  BY DEF TellorDispute
<1>2. UNCHANGED <<now, pyth, lastStored>>
  BY DEF TellorDispute, feed
<1>3. CASE r.time >= now - DISPUTE_BUFFER
  <2>1. r.value # 0 /\ r.time \in Nat /\ lastStored.time \in Nat
    BY DEF IInv, TypeInv, ValuesAssumption
  <2>2. lastStored # r
    BY <1>3, <2>1 DEF IInv, ReadLate, TypeInv, TimeAssumption
  <2>. QED
    BY <1>1, <1>2, <1>3, <2>2 DEF IInv, TypeInv, ReadLate, DisputedValueIsNotRead
<1>4. CASE ~(r.time >= now - DISPUTE_BUFFER)
  BY <1>1, <1>2, <1>4 DEF IInv, TypeInv, ReadLate, DisputedValueIsNotRead
<1>. QED  BY <1>3, <1>4

LEMMA NextKeepsIInv ==
    ASSUME TimeAssumption, ValuesAssumption, IInv, [Next]_vars
    PROVE  IInv'
<1>. USE DEF IInv, TypeInv, ReadLate, DisputedValueIsNotRead
<1>1. CASE Fetch
  BY <1>1, FetchKeepsIInv
<1>2. CASE Tick
  BY <1>2 DEF Tick, feed, oracles, TimeAssumption
<1>3. CASE PythUpdates
  BY <1>3 DEF PythUpdates, feed
<1>4. CASE PythStopsOrWorks \/ TellorStopsOrWorks
  BY <1>4 DEF PythStopsOrWorks, TellorStopsOrWorks, feed
<1>5. CASE TellorReports
  BY <1>5, TellorReportsKeepsIInv
<1>6. CASE TellorDispute
  BY <1>6, TellorDisputeKeepsIInv
<1>7. CASE UNCHANGED vars
  BY <1>7 DEF vars, feed, oracles
<1>. QED  BY <1>1, <1>2, <1>3, <1>4, <1>5, <1>6, <1>7 DEF Next

-----------------------------------------------------------------------------
(* Theorems.                                                               *)

\* No value that was disputed within the buffer is ever kept by TellorCaller, whatever
\* the buffer, the reports and the disputes.
THEOREM DisputedValuesAreNotRead == Spec => []DisputedValueIsNotRead
<1>1. Init => IInv
  BY InitIInv, TimeAssumption, ValuesAssumption
<1>2. IInv /\ [Next]_vars => IInv'
  BY NextKeepsIInv, TimeAssumption, ValuesAssumption
<1>3. IInv => DisputedValueIsNotRead
  BY DEF IInv
<1>. QED  BY <1>1, <1>2, <1>3, PTL DEF Spec

\* Whatever the status, what fetchPrice stores comes from an answer that is not older
\* than the timeout.
THEOREM StoredPricesAreFresh == Spec => StoredPriceIsFresh
<1>1. IInv /\ [Next]_vars =>
        (Fetched /\ source'.from # "last" => now - source'.time <= TIMEOUT)
  <2>. SUFFICES ASSUME IInv, [Next]_vars, Fetched, source'.from # "last"
                PROVE  now - source'.time <= TIMEOUT
    OBVIOUS
  <2>. DEFINE c == ChainlinkResponse
              t == TellorResponse
  <2>1. LastReturned \/ TellorReturned(t) \/ ChainlinkReturned(c, t)
    BY OnlyFetchFetches, FetchIsACase, FetchReturns
  <2>. HIDE DEF c, t
  <2>2. \/ source'.time = t.timestamp /\ ~(now - t.timestamp > TIMEOUT)
        \/ source'.time = c.timestamp /\ ~(now - c.timestamp > TIMEOUT)
    BY <2>1 DEF LastReturned, TellorReturned, ChainlinkReturned, Frozen
  <2>3. c.timestamp \in Int
    BY DEF c, ChainlinkResponse, IInv, TypeInv
  <2>4. t.timestamp \in Int
    <3>1. t.timestamp = 0 \/ t.timestamp = lastStored.time
            \/ \E r \in reports : t.timestamp = r.time
      BY TellorResponds, TimeAssumption DEF t, IInv
    <3>. QED  BY <3>1 DEF IInv, TypeInv
  <2>. QED
    BY <2>2, <2>3, <2>4, TimeAssumption DEF IInv, TypeInv, TimeAssumption
<1>2. Init => IInv
  BY InitIInv, TimeAssumption, ValuesAssumption
<1>3. IInv /\ [Next]_vars => IInv'
  BY NextKeepsIInv, TimeAssumption, ValuesAssumption
<1>. QED  BY <1>1, <1>2, <1>3, PTL DEF Spec, StoredPriceIsFresh

\* A change of price above the deviation is stored only with Tellor's confirmation, but
\* for the one branch named in the property.
THEOREM LargeChangesAreConfirmed == Spec => LargeChangeIsConfirmed
<1>1. [Next]_vars =>
        (Fetched /\ source'.from = "chainlink" /\ ChangeAboveMax(lastGoodPrice') =>
          \/ TellorIsLive(TellorResponse) /\ Similar(lastGoodPrice', TellorResponse.value)
          \/ /\ status = "usingTellorChainlinkFrozen"
             /\ TellorIsBroken(TellorResponse))
  <2>. SUFFICES ASSUME [Next]_vars, Fetched, source'.from = "chainlink",
                       ChangeAboveMax(lastGoodPrice')
                PROVE  \/ /\ TellorIsLive(TellorResponse)
                          /\ Similar(lastGoodPrice', TellorResponse.value)
                       \/ /\ status = "usingTellorChainlinkFrozen"
                          /\ TellorIsBroken(TellorResponse)
    OBVIOUS
  <2>1. \/ LastReturned \/ TellorReturned(TellorResponse)
        \/ ChainlinkReturned(ChainlinkResponse, TellorResponse)
    BY OnlyFetchFetches, FetchIsACase, FetchReturns
  <2>2. ChainlinkReturned(ChainlinkResponse, TellorResponse)
    BY <2>1 DEF LastReturned, TellorReturned
  <2>. QED  BY <2>2 DEF ChainlinkReturned
<1>. QED  BY <1>1, PTL DEF Spec, LargeChangeIsConfirmed

=============================================================================
