-------------------------- MODULE MarketNames_proofs ---------------------------
(***************************************************************************)
(* Proofs about MarketNames, for every exchange and client whose names are *)
(* free of the punctuation that a market's name adds: the market of an     *)
(* exchange gives the exchange back, as merx asks for it and as cbag       *)
(* reports it; and, for updates of any length, that the orders that are not*)
(* skipped are all in the update.                                          *)
(***************************************************************************)
EXTENDS MarketNames, SequenceTheorems, FiniteSetTheorems, WellFoundedInduction, TLAPS

(* A name without a dash is its own remainder.                              *)
LEMMA AfterNoDash == ASSUME NEW words, NEW name, Plain(words, name) PROVE AfterDash(name) = name
BY DEF AfterDash, IsFirstDash, Plain

(* The remainder after the first dash is what was put after it.             *)
LEMMA AfterOneDash ==
  ASSUME NEW words, HasWords(words), NEW client, Plain(words, client),
         NEW rest, Plain(words, rest), rest # << >>
  PROVE  AfterDash((client \o <<"-">>) \o rest) = rest
<1> DEFINE head == client \o <<"-">>
           name == head \o rest
           n == Len(client)
<1>1. /\ client \in Seq(words) /\ rest \in Seq(words) /\ <<"-">> \in Seq(words) /\ n \in Nat
      /\ Len(rest) \in Nat \ {0} /\ Len(<<"-">>) = 1 /\ <<"-">>[1] = "-"
  BY LenProperties, EmptySeq DEF Plain, HasWords
<1>2. /\ head \in Seq(words) /\ Len(head) = n + 1 /\ head[n + 1] = "-"
      /\ \A i \in 1 .. n : head[i] = client[i]
  BY <1>1, ConcatProperties
<1>3. /\ name \in Seq(words) /\ Len(name) = n + 1 + Len(rest)
      /\ \A i \in 1 .. Len(name) :
           name[i] = IF i <= n + 1 THEN head[i] ELSE rest[i - (n + 1)]
  BY <1>1, <1>2, ConcatProperties
<1> HIDE DEF head, name
<1>4. n + 1 \in 1 .. Len(name) /\ name[n + 1] = "-"
  BY <1>1, <1>2, <1>3
<1>5. \A i \in 1 .. n : i \in 1 .. Len(name) /\ name[i] # "-"
  BY <1>1, <1>2, <1>3 DEF Plain
<1>6. IsFirstDash(name, n + 1)
  BY <1>1, <1>4, <1>5 DEF IsFirstDash
<1>7. ASSUME NEW i \in 1 .. Len(name), IsFirstDash(name, i) PROVE i = n + 1
  <2>1. i \in Nat /\ name[i] = "-" /\ \A j \in 1 .. i - 1 : name[j] # "-"
    BY <1>1, <1>3, <1>7 DEF IsFirstDash
  <2>2. ~(i <= n)
    BY <1>1, <1>5, <2>1, <1>7
  <2>3. ~(n + 1 < i)
    BY <1>1, <1>4, <2>1
  <2> QED BY <1>1, <2>1, <2>2, <2>3
<1>8. (CHOOSE i \in 1 .. Len(name) : IsFirstDash(name, i)) = n + 1
  BY <1>4, <1>6, <1>7
<1>9. AfterDash(name) = SubSeq(name, n + 2, Len(name))
  <2>1. \E i \in 1 .. Len(name) : IsFirstDash(name, i)
    BY <1>4, <1>6
  <2>2. AfterDash(name)
          = SubSeq(name, (CHOOSE i \in 1 .. Len(name) : IsFirstDash(name, i)) + 1, Len(name))
    BY <2>1, Zenon DEF AfterDash
  <2>3. AfterDash(name) = SubSeq(name, (n + 1) + 1, Len(name))
    BY <1>8, <2>2, Zenon
  <2>4. (n + 1) + 1 = n + 2
    BY <1>1
  <2> QED BY <2>3, <2>4, Zenon
<1>10. SubSeq(name, n + 2, Len(name)) = rest
  <2> DEFINE tail == SubSeq(name, n + 2, Len(name))
  <2>1. \A i \in n + 2 .. Len(name) : name[i] \in words
    BY <1>1, <1>3, ElementOfSeq
  <2>2. /\ tail \in Seq(words) /\ Len(tail) = Len(rest)
        /\ \A i \in 1 .. Len(rest) : tail[i] = name[n + 2 + i - 1]
    BY <1>1, <1>3, <2>1, SubSeqProperties
  <2>3. \A i \in 1 .. Len(rest) : name[n + 2 + i - 1] = rest[i]
    BY <1>1, <1>3
  <2> HIDE DEF tail
  <2>4. tail = rest
    BY <1>1, <2>2, <2>3, SeqEqual
  <2> QED BY <2>4 DEF tail
<1> QED BY <1>9, <1>10 DEF head, name

(* Stripping takes off the word a name ends with, and no other.             *)
LEMMA StripTaken ==
  ASSUME NEW words, NEW name \in Seq(words), NEW word \in words
  PROVE  StripSuffix(name \o <<word>>, word) = name
<1> DEFINE long == name \o <<word>>
<1>1. Len(name) \in Nat /\ <<word>> \in Seq(words) /\ Len(<<word>>) = 1 /\ <<word>>[1] = word
  BY LenProperties
<1>2. /\ long \in Seq(words) /\ Len(long) = Len(name) + 1 /\ long[Len(name) + 1] = word
      /\ \A i \in 1 .. Len(name) : long[i] = name[i]
  BY <1>1, ConcatProperties
<1> HIDE DEF long
<1>3. long # << >>
  BY <1>1, <1>2, EmptySeq
<1>4. SubSeq(long, 1, Len(name)) = name
  <2> DEFINE head == SubSeq(long, 1, Len(name))
  <2>1. \A i \in 1 .. Len(name) : long[i] \in words
    BY <1>2, ElementOfSeq
  <2>2. /\ head \in Seq(words) /\ Len(head) = Len(name)
        /\ \A i \in 1 .. Len(name) : head[i] = name[i]
    BY <1>1, <1>2, <2>1, SubSeqProperties
  <2> HIDE DEF head
  <2>3. head = name
    BY <1>1, <2>2, SeqEqual
  <2> QED BY <2>3 DEF head
<1>5. Len(long) - 1 = Len(name) /\ long[Len(long)] = word
  BY <1>1, <1>2
<1>6. StripSuffix(long, word) = SubSeq(long, 1, Len(long) - 1)
  BY <1>3, <1>5, Zenon DEF StripSuffix
<1>7. StripSuffix(long, word) = name
  BY <1>4, <1>5, <1>6, Zenon
<1> QED BY <1>7 DEF long

(* A name that ends with another word is left as it is.                     *)
LEMMA StripOther ==
  ASSUME NEW name, NEW word, name[Len(name)] # word
  PROVE  StripSuffix(name, word) = name
BY DEF StripSuffix

(* An exchange that is not itself called as the market of another is what   *)
(* its market is called back.                                               *)
LEMMA RenamedBack ==
  ASSUME NEW exchange, exchange \notin {<<"coinbase">>, <<"huobi">>}
  PROVE  ToExchange(ToMarket(exchange)) = exchange
<1>1. /\ <<"gdax">> # <<"coinbase">> /\ <<"gdax">> # <<"huobi">>
      /\ <<"huobipro">> # <<"coinbase">> /\ <<"huobipro">> # <<"huobi">>
      /\ <<"huobi">> # <<"coinbase">> /\ <<"gdax">> # <<"huobipro">>
  OBVIOUS
<1> QED BY <1>1 DEF ToExchange, ToMarket

(* The market of a client, without a suffix.                                *)
LEMMA OwnMarket ==
  ASSUME NEW words, HasWords(words), NEW client, Plain(words, client),
         NEW market, Plain(words, market), market # << >>,
         NEW prefix, prefix = client \o <<"-">>,
         NEW base, base = prefix \o market
  PROVE  /\ base \in Seq(words) /\ Len(base) \in Nat \ {0}
         /\ \A i \in 1 .. Len(base) : base[i] \notin {"%23na", "#na"}
<1>1. /\ client \in Seq(words) /\ market \in Seq(words) /\ <<"-">> \in Seq(words)
      /\ Len(client) \in Nat /\ Len(market) \in Nat \ {0}
      /\ Len(<<"-">>) = 1 /\ <<"-">>[1] = "-"
  BY LenProperties, EmptySeq DEF Plain, HasWords
<1>2. /\ prefix \in Seq(words) /\ Len(prefix) = Len(client) + 1
      /\ \A i \in 1 .. Len(prefix) : prefix[i] = IF i <= Len(client) THEN client[i] ELSE "-"
  BY <1>1, ConcatProperties
<1>3. /\ base \in Seq(words) /\ Len(base) = Len(prefix) + Len(market)
      /\ \A i \in 1 .. Len(base) :
           base[i] = IF i <= Len(prefix) THEN prefix[i] ELSE market[i - Len(prefix)]
  BY <1>1, <1>2, ConcatProperties
<1>4. ASSUME NEW i \in 1 .. Len(base) PROVE base[i] \notin {"%23na", "#na"}
  <2>1. CASE i <= Len(client)
    BY <1>1, <1>2, <1>3, <2>1 DEF Plain
  <2>2. CASE i = Len(client) + 1
    BY <1>1, <1>2, <1>3, <2>2
  <2>3. CASE Len(client) + 1 < i
    <3>1. i - Len(prefix) \in 1 .. Len(market) /\ base[i] = market[i - Len(prefix)]
      BY <1>1, <1>2, <1>3, <2>3
    <3> QED BY <3>1 DEF Plain
  <2> QED BY <1>1, <1>2, <1>3, <2>1, <2>2, <2>3
<1> QED BY <1>1, <1>2, <1>3, <1>4

(* What cbag reports of a name without suffix is the name itself; of one    *)
(* with it, the name with the suffix decoded.                               *)
LEMMA ReportedName ==
  ASSUME NEW words, HasWords(words), NEW base \in Seq(words),
         \A i \in 1 .. Len(base) : base[i] # "%23na"
  PROVE  /\ Reported(base) = base
         /\ Reported(base \o <<"%23na">>) = base \o <<"#na">>
<1>1. base \in [1 .. Len(base) -> words] /\ DOMAIN base = 1 .. Len(base) /\ Len(base) \in Nat
  BY LenProperties
<1>2. Reported(base) = base
  BY <1>1 DEF Reported
<1> DEFINE coded == base \o <<"%23na">>
           plain == base \o <<"#na">>
<1>3. /\ <<"%23na">> \in Seq(words) /\ <<"#na">> \in Seq(words)
      /\ Len(<<"%23na">>) = 1 /\ Len(<<"#na">>) = 1
      /\ <<"%23na">>[1] = "%23na" /\ <<"#na">>[1] = "#na"
  BY DEF HasWords
<1>4. /\ coded \in Seq(words) /\ Len(coded) = Len(base) + 1
      /\ plain \in Seq(words) /\ Len(plain) = Len(base) + 1
      /\ \A i \in 1 .. Len(base) : coded[i] = base[i] /\ plain[i] = base[i]
      /\ coded[Len(base) + 1] = "%23na" /\ plain[Len(base) + 1] = "#na"
  BY <1>1, <1>3, ConcatProperties
<1> HIDE DEF coded, plain
<1>5. /\ coded \in [1 .. Len(base) + 1 -> words] /\ DOMAIN coded = 1 .. Len(base) + 1
      /\ plain \in [1 .. Len(base) + 1 -> words]
  BY <1>4, LenProperties
<1>6. \A i \in 1 .. Len(base) + 1 : (IF coded[i] = "%23na" THEN "#na" ELSE coded[i]) = plain[i]
  BY <1>1, <1>4
<1>7. Reported(coded) = plain
  BY <1>5, <1>6 DEF Reported
<1> QED BY <1>2, <1>7 DEF coded, plain

(* Asked for or reported, with or without client and suffix, the market of  *)
(* an exchange is called back what the client calls it.                     *)
THEOREM NameGivenBack ==
  ASSUME NEW words, HasWords(words), NEW client, Plain(words, client),
         NEW exchange, Plain(words, exchange),
         exchange \notin {<< >>, <<"coinbase">>, <<"huobi">>},
         NEW non_agg_prices \in BOOLEAN, NEW customer_specific \in BOOLEAN,
         NEW market,
         market = exchange_to_cbag_market(exchange, client, non_agg_prices, customer_specific)
  PROVE  /\ cbag_market_to_exchange(market) = exchange
         /\ cbag_market_to_exchange(Reported(market)) = exchange
<1> DEFINE own == ToMarket(exchange)
           prefix == client \o <<"-">>
           base == (IF customer_specific THEN prefix ELSE << >>) \o own
<1>1. Plain(words, own) /\ own # << >>
  <2>1. /\ <<"coinbase">> \in Seq(words) /\ <<"huobi">> \in Seq(words)
        /\ Len(<<"coinbase">>) = 1 /\ Len(<<"huobi">>) = 1
        /\ <<"coinbase">>[1] = "coinbase" /\ <<"huobi">>[1] = "huobi"
    BY DEF HasWords
  <2>2. Plain(words, <<"coinbase">>) /\ Plain(words, <<"huobi">>)
    BY <2>1 DEF Plain
  <2> QED BY <2>2 DEF ToMarket
<1>2. base = own \/ base = prefix \o own
  BY <1>1, ConcatEmptySeq DEF Plain
<1> HIDE DEF own, prefix, base
<1>3. /\ base \in Seq(words) /\ Len(base) \in Nat \ {0}
      /\ \A i \in 1 .. Len(base) : base[i] \notin {"%23na", "#na"}
      /\ AfterDash(base) = own
  <2>1. prefix = client \o <<"-">>
    BY DEF prefix
  <2>2. CASE base = own
    BY <1>1, <2>2, LenProperties, EmptySeq, AfterNoDash DEF Plain
  <2>3. CASE base = prefix \o own
    <3>1. base = (client \o <<"-">>) \o own
      BY <2>1, <2>3
    <3>2. AfterDash(base) = own
      BY <1>1, <3>1, AfterOneDash
    <3> QED BY <1>1, <2>1, <2>3, <3>2, OwnMarket
  <2> QED BY <1>2, <2>2, <2>3
<1>4. base[Len(base)] # "%23na" /\ base[Len(base)] # "#na"
  BY <1>3
<1>5. StripSuffix(base, "#na") = base /\ StripSuffix(base, "%23na") = base
  BY <1>4, StripOther
<1>6. cbag_market_to_exchange(base) = exchange
  BY <1>3, <1>5, RenamedBack DEF cbag_market_to_exchange, own
<1>7. Reported(base) = base /\ Reported(base \o <<"%23na">>) = base \o <<"#na">>
  BY <1>3, ReportedName
<1>8. CASE ~non_agg_prices
  <2>1. market = base
    BY <1>3, <1>8, ConcatEmptySeq DEF exchange_to_cbag_market, base, prefix, own
  <2> QED BY <1>6, <1>7, <2>1
<1>9. CASE non_agg_prices
  <2>1. market = base \o <<"%23na">>
    BY <1>9 DEF exchange_to_cbag_market, base, prefix, own
  <2>2. StripSuffix(base \o <<"%23na">>, "#na") = base \o <<"%23na">>
    <3>1. /\ <<"%23na">> \in Seq(words) /\ Len(<<"%23na">>) = 1 /\ <<"%23na">>[1] = "%23na"
      BY DEF HasWords
    <3>2. /\ Len(base \o <<"%23na">>) = Len(base) + 1
          /\ (base \o <<"%23na">>)[Len(base) + 1] = "%23na"
      BY <1>3, <3>1, ConcatProperties
    <3> DEFINE long == base \o <<"%23na">>
    <3>3. long[Len(long)] # "#na"
      BY <1>3, <3>2
    <3> HIDE DEF long
    <3>4. StripSuffix(long, "#na") = long
      BY <3>3, StripOther
    <3> QED BY <3>4 DEF long
  <2>3. /\ StripSuffix(base \o <<"%23na">>, "%23na") = base
        /\ StripSuffix(base \o <<"#na">>, "#na") = base
    BY <1>3, StripTaken DEF HasWords
  <2>4. cbag_market_to_exchange(market) = cbag_market_to_exchange(base)
    BY <1>5, <2>1, <2>2, <2>3 DEF cbag_market_to_exchange
  <2>5. cbag_market_to_exchange(Reported(market)) = cbag_market_to_exchange(base)
    BY <1>5, <1>7, <2>1, <2>3 DEF cbag_market_to_exchange
  <2> QED BY <1>6, <2>4, <2>5
<1> QED BY <1>8, <1>9

-----------------------------------------------------------------------------
(* Induction over the naturals, with a set in the place of a predicate.     *)
LEMMA Induction ==
  ASSUME NEW S, 0 \in S, \A n \in Nat : n \in S => n + 1 \in S
  PROVE  Nat \subseteq S
<1> SUFFICES ASSUME Nat \ S # {} PROVE FALSE
  OBVIOUS
<1>1. PICK n \in Nat \ S : \A m \in Nat \ S : << m, n >> \notin OpToRel(<, Nat)
  BY NatLessThanWellFounded, WFMin
<1>2. \A m \in Nat : m < n => << m, n >> \in OpToRel(<, Nat)
  BY DEF OpToRel
<1>3. n # 0 /\ n \in Nat /\ n \notin S
  OBVIOUS
<1>4. n - 1 \in Nat /\ n - 1 < n /\ (n - 1) + 1 = n
  BY <1>3
<1>5. n - 1 \in S
  BY <1>1, <1>2, <1>4
<1> QED BY <1>3, <1>4, <1>5

(* One item of an update.                                                   *)
Step(book, item) == IF Skipped(item) THEN book ELSE Pushed(book, item)

NoOrders(quantities) == [side \in {"asks", "bids"} |-> [q \in quantities |-> << >>]]

(* What the fold over a set of positions is, of what it is over those       *)
(* before the last.                                                         *)
Unfolded(items, base, fold, s) ==
  IF s = {} THEN base ELSE Step(fold[s \ {Max(s)}], items[Max(s)])

LEMMA MaxIsLast ==
  ASSUME NEW k \in Nat, NEW s, s \subseteq 1 .. k + 1, k + 1 \in s
  PROVE  Max(s) = k + 1
<1>1. \A x \in s : x \in Int
  OBVIOUS
<1>2. \A x \in s : (\A y \in s : x >= y) <=> x = k + 1
  BY <1>1
<1> QED BY <1>2 DEF Max

LEMMA Prefix ==
  ASSUME NEW k \in Nat, NEW s, s \subseteq 1 .. k + 1, k + 1 \notin s
  PROVE  s \subseteq 1 .. k
<1> SUFFICES ASSUME NEW i \in s PROVE i \in 1 .. k
  OBVIOUS
<1>1. i \in 1 .. k + 1 /\ i # k + 1
  OBVIOUS
<1> QED BY <1>1

LEMMA FoldExists ==
  ASSUME NEW items, NEW base, NEW n \in Nat
  PROVE  \E fold : fold = [s \in SUBSET (1 .. n) |-> Unfolded(items, base, fold, s)]
<1> DEFINE Upto(k, fold) == fold = [s \in SUBSET (1 .. k) |-> Unfolded(items, base, fold, s)]
           S == {k \in Nat : \E fold : Upto(k, fold)}
<1>1. 0 \in S
  <2> DEFINE none == [s \in SUBSET (1 .. 0) |-> base]
  <2>1. \A s \in SUBSET (1 .. 0) : s = {}
    OBVIOUS
  <2>2. Upto(0, none)
    BY <2>1 DEF Unfolded
  <2> QED BY <2>2
<1>2. ASSUME NEW k \in Nat, k \in S PROVE k + 1 \in S
  <2>1. PICK fold : Upto(k, fold)
    BY <1>2
  <2> DEFINE next == [s \in SUBSET (1 .. k + 1) |->
                        IF k + 1 \in s THEN Step(fold[s \ {k + 1}], items[k + 1]) ELSE fold[s]]
  <2>2. \A s \in SUBSET (1 .. k) : s \in SUBSET (1 .. k + 1) /\ k + 1 \notin s
    OBVIOUS
  <2>3. \A s \in SUBSET (1 .. k) : next[s] = fold[s]
    BY <2>2
  <2>4. ASSUME NEW s \in SUBSET (1 .. k + 1) PROVE next[s] = Unfolded(items, base, next, s)
    <3>1. CASE k + 1 \in s
      <4>1. Max(s) = k + 1 /\ s # {} /\ s \ {k + 1} \in SUBSET (1 .. k)
        <5>1. s \subseteq 1 .. k + 1 /\ s \ {k + 1} \subseteq 1 .. k + 1 /\ k + 1 \notin s \ {k + 1}
          OBVIOUS
        <5> HIDE DEF next
        <5>2. Max(s) = k + 1
          BY <3>1, <5>1, MaxIsLast
        <5>3. s \ {k + 1} \subseteq 1 .. k
          BY <5>1, Prefix
        <5> QED BY <3>1, <5>2, <5>3
      <4>2. next[s] = Step(fold[s \ {k + 1}], items[k + 1])
        BY <3>1
      <4> HIDE DEF next
      <4>3. next[s \ {k + 1}] = fold[s \ {k + 1}]
        BY <2>3, <4>1
      <4> QED BY <4>1, <4>2, <4>3 DEF Unfolded
    <3>2. CASE k + 1 \notin s
      <4>1. s \in SUBSET (1 .. k) /\ s \ {Max(s)} \in SUBSET (1 .. k)
        <5>1. s \subseteq 1 .. k
          BY <3>2, Prefix
        <5> QED BY <5>1
      <4>2. fold[s] = Unfolded(items, base, fold, s)
        BY <2>1, <4>1
      <4> HIDE DEF next
      <4>3. next[s] = fold[s] /\ next[s \ {Max(s)}] = fold[s \ {Max(s)}]
        BY <2>3, <4>1
      <4> QED BY <4>2, <4>3 DEF Unfolded
    <3> QED BY <3>1, <3>2
  <2>5. Upto(k + 1, next)
    BY <2>4
  <2> HIDE DEF next
  <2> QED BY <2>5
<1> HIDE DEF S
<1>3. n \in S
  BY <1>1, <1>2, Induction
<1> QED BY <1>3 DEF S

(* An update is made item by item.                                          *)
LEMMA CostSteps ==
  ASSUME NEW Items, NEW items \in Seq(Items), NEW quantities
  PROVE  \E book : /\ book[0] = NoOrders(quantities)
                   /\ \A k \in 1 .. Len(items) : book[k] = Step(book[k - 1], items[k])
                   /\ CostUpdate(items, quantities) = book[Len(items)]
<1> DEFINE n == Len(items)
           base == NoOrders(quantities)
           Folds(fold) == fold = [s \in SUBSET (1 .. n) |-> Unfolded(items, base, fold, s)]
           fold == CHOOSE f : Folds(f)
           book == [k \in 0 .. n |-> fold[1 .. k]]
<1>1. n \in Nat /\ DOMAIN items = 1 .. n
  BY LenProperties
<1>2. CostUpdate(items, quantities) = fold[1 .. n]
  <2>1. CostUpdate(items, quantities)
          = (CHOOSE f : f = [s \in SUBSET (DOMAIN items) |-> Unfolded(items, base, f, s)])[DOMAIN items]
    BY DEF CostUpdate, FoldLeft, MapThenFoldSet, Step, NoOrders, Unfolded
  <2> QED BY <1>1, <2>1
<1>3. Folds(fold)
  BY <1>1, FoldExists
<1> HIDE DEF fold
<1>4. \A s \in SUBSET (1 .. n) : fold[s] = Unfolded(items, base, fold, s)
  BY <1>3
<1>5. book[0] = base
  <2>1. 1 .. 0 = {} /\ 0 \in 0 .. n
    BY <1>1
  <2>2. fold[{}] = base
    BY <1>4, Zenon DEF Unfolded
  <2> QED BY <2>1, <2>2
<1>6. ASSUME NEW k \in 1 .. n PROVE book[k] = Step(book[k - 1], items[k])
  <2>1. k - 1 \in Nat /\ k - 1 + 1 = k /\ k - 1 \in 0 .. n /\ k \in 0 .. n
    BY <1>1
  <2>2. Max(1 .. k) = k
    <3>1. 1 .. k \subseteq 1 .. (k - 1) + 1 /\ (k - 1) + 1 \in 1 .. k
      BY <2>1
    <3> HIDE DEF book
    <3> QED BY <2>1, <3>1, MaxIsLast
  <2>3. (1 .. k) \ {k} = 1 .. k - 1 /\ 1 .. k # {} /\ 1 .. k \in SUBSET (1 .. n)
    <3>1. \A i : i \in (1 .. k) \ {k} <=> i \in 1 .. k - 1
      BY <1>1, <2>1
    <3>2. \A i \in 1 .. k : i \in 1 .. n
      BY <1>1
    <3> QED BY <2>1, <3>1, <3>2
  <2>4. fold[1 .. k] = Step(fold[1 .. k - 1], items[k])
    BY <1>4, <2>2, <2>3 DEF Unfolded
  <2> QED BY <2>1, <2>4
<1>7. CostUpdate(items, quantities) = book[n]
  BY <1>1, <1>2
<1> HIDE DEF book
<1> QED BY <1>5, <1>6, <1>7

(* The positions of a set up to one of them.                                *)
UpTo(chosen, i) == {j \in chosen : j <= i}

(* One item more, after those chosen so far.                                *)
LEMMA OneMore ==
  ASSUME NEW S, NEW items, NEW k \in Nat, NEW chosen, chosen \subseteq 1 .. k,
         NEW orders \in Seq(S), InOrder(orders, chosen, items), items[k + 1] \in S
  PROVE  InOrder(Append(orders, items[k + 1]), chosen \cup {k + 1}, items)
<1> DEFINE n == Len(orders)
           longer == Append(orders, items[k + 1])
           more == chosen \cup {k + 1}
<1>1. IsFiniteSet(chosen) /\ Cardinality(chosen) = n /\ n \in Nat /\ k + 1 \notin chosen
  <2>1. IsFiniteSet(1 .. k) /\ chosen \in SUBSET (1 .. k)
    BY FS_Interval
  <2>2. IsFiniteSet(chosen)
    BY <2>1, FS_Subset
  <2>3. n \in Nat /\ Cardinality(chosen) = n
    BY LenProperties DEF InOrder
  <2>4. k + 1 \notin 1 .. k
    OBVIOUS
  <2> QED BY <2>1, <2>2, <2>3, <2>4
<1>2. IsFiniteSet(more) /\ Cardinality(more) = n + 1
  BY <1>1, FS_AddElement
<1>3. /\ Len(longer) = n + 1 /\ longer[n + 1] = items[k + 1]
      /\ \A j \in 1 .. n : longer[j] = orders[j]
  BY <1>1, AppendProperties
<1> HIDE DEF longer
<1>4. ASSUME NEW i \in more PROVE longer[Cardinality(UpTo(more, i))] = items[i]
  <2>1. CASE i = k + 1
    <3>1. UpTo(more, i) = more
      <4>1. \A j \in more : j <= i
        BY <2>1
      <4> QED BY <4>1 DEF UpTo
    <3> QED BY <1>2, <1>3, <2>1, <3>1
  <2>2. CASE i # k + 1
    <3>1. i \in chosen /\ i \in 1 .. k
      BY <2>2
    <3>2. UpTo(more, i) = UpTo(chosen, i)
      BY <3>1 DEF UpTo
    <3>3. UpTo(chosen, i) \subseteq chosen /\ i \in UpTo(chosen, i)
      BY <3>1 DEF UpTo
    <3>4. Cardinality(UpTo(chosen, i)) \in 1 .. n
      <4>1. IsFiniteSet(UpTo(chosen, i)) /\ Cardinality(UpTo(chosen, i)) <= n
        BY <1>1, <3>3, FS_Subset
      <4>2. Cardinality(UpTo(chosen, i)) \in Nat /\ Cardinality(UpTo(chosen, i)) # 0
        BY <3>3, <4>1, FS_CardinalityType, FS_EmptySet
      <4> QED BY <1>1, <4>1, <4>2
    <3>5. orders[Cardinality(UpTo(chosen, i))] = items[i]
      BY <3>1 DEF InOrder, UpTo
    <3> QED BY <1>3, <3>2, <3>4, <3>5
  <2> QED BY <2>1, <2>2
<1> QED BY <1>2, <1>3, <1>4 DEF InOrder, UpTo, longer

(* What an item does to the orders of a side and a quantity.                *)
LEMMA StepOrders ==
  ASSUME NEW Items, NEW item \in Items, NEW quantities,
         NEW book \in [{"asks", "bids"} -> [quantities -> Seq(Items)]]
  PROVE  /\ Step(book, item) \in [{"asks", "bids"} -> [quantities -> Seq(Items)]]
         /\ \A side \in {"asks", "bids"}, q \in quantities :
              Step(book, item)[side][q] =
                IF ~Skipped(item) /\ ItemSide(item) = side /\ item.quantity = q
                THEN Append(book[side][q], item) ELSE book[side][q]
<1>1. CASE Skipped(item)
  BY <1>1 DEF Step
<1>2. CASE ~Skipped(item)
  <2> DEFINE old == book[ItemSide(item)]
             new == [old EXCEPT ![item.quantity] = Append(@, item)]
  <2>1. ItemSide(item) \in {"asks", "bids"}
    BY DEF ItemSide
  <2>2. old \in [quantities -> Seq(Items)]
    BY <2>1
  <2>3. \A q \in quantities : old[q] \in Seq(Items) /\ Append(old[q], item) \in Seq(Items)
    BY <2>2, AppendProperties
  <2>4. /\ new \in [quantities -> Seq(Items)]
        /\ \A q \in quantities :
             new[q] = IF item.quantity = q THEN Append(old[q], item) ELSE old[q]
    BY <2>2, <2>3
  <2>5. Step(book, item) = [book EXCEPT ![ItemSide(item)] = new]
    BY <1>2 DEF Step, Pushed
  <2> HIDE DEF new
  <2> QED BY <1>2, <2>1, <2>4, <2>5
<1> QED BY <1>1, <1>2

(* Of the items of a cost update, those with a target quantity that does not*)
(* end in ".00" (Skipped, which is not what the comment in the code says),  *)
(* and no others, are in what merx forwards, each under its side and        *)
(* quantity, once and in the order cbag sent them, however many there are.  *)
THEOREM CostOrdersKept ==
  ASSUME NEW Items, NEW items \in Seq(Items), NEW quantities,
         NEW side \in {"asks", "bids"}, NEW q \in quantities
  PROVE  InOrder(CostUpdate(items, quantities)[side][q], ItemsOf(items, side, q), items)
<1> DEFINE n == Len(items)
           Books == [{"asks", "bids"} -> [quantities -> Seq(Items)]]
           Before(k) == {i \in ItemsOf(items, side, q) : i <= k}
<1>1. n \in Nat /\ DOMAIN items = 1 .. n /\ \A k \in 1 .. n : items[k] \in Items
  BY LenProperties, ElementOfSeq
<1>2. PICK book : /\ book[0] = NoOrders(quantities)
                  /\ \A k \in 1 .. n : book[k] = Step(book[k - 1], items[k])
                  /\ CostUpdate(items, quantities) = book[n]
  BY CostSteps
<1> DEFINE Done(k) == book[k] \in Books /\ InOrder(book[k][side][q], Before(k), items)
           S == {k \in Nat : k <= n => Done(k)}
<1>3. 0 \in S
  <2>1. book[0] \in Books /\ book[0][side][q] = << >>
    BY <1>2, EmptySeq DEF NoOrders
  <2>2. Before(0) = {}
    BY <1>1 DEF ItemsOf
  <2>3. InOrder(<< >>, {}, items)
    BY FS_EmptySet, EmptySeq DEF InOrder
  <2> QED BY <2>1, <2>2, <2>3
<1>4. ASSUME NEW k \in Nat, k \in S PROVE k + 1 \in S
  <2> SUFFICES ASSUME k + 1 <= n PROVE Done(k + 1)
    OBVIOUS
  <2>1. Done(k) /\ k + 1 \in 1 .. n
    BY <1>1, <1>4
  <2> DEFINE item == items[k + 1]
  <2>2. item \in Items /\ book[k + 1] = Step(book[k], item)
    <3>1. book[k + 1] = Step(book[(k + 1) - 1], items[k + 1])
      BY <1>2, <2>1
    <3> QED BY <1>1, <2>1, <3>1
  <2>3. /\ book[k + 1] \in Books
        /\ book[k + 1][side][q] =
             IF ~Skipped(item) /\ ItemSide(item) = side /\ item.quantity = q
             THEN Append(book[k][side][q], item) ELSE book[k][side][q]
    <3>1. book[k] \in Books
      BY <2>1
    <3> HIDE DEF item
    <3> QED BY <2>2, <3>1, StepOrders
  <2>4. book[k][side][q] \in Seq(Items) /\ Before(k) \subseteq 1 .. k
    BY <1>1, <2>1 DEF ItemsOf
  <2>5. CASE k + 1 \in ItemsOf(items, side, q)
    <3>1. Before(k + 1) = Before(k) \cup {k + 1}
      BY <1>1, <2>5 DEF ItemsOf
    <3>2. book[k + 1][side][q] = Append(book[k][side][q], item)
      BY <2>3, <2>5 DEF ItemsOf, ItemSide
    <3> HIDE DEF Before
    <3>3. InOrder(Append(book[k][side][q], item), Before(k) \cup {k + 1}, items)
      BY <2>1, <2>2, <2>4, OneMore
    <3> QED BY <2>3, <3>1, <3>2, <3>3
  <2>6. CASE k + 1 \notin ItemsOf(items, side, q)
    <3>1. Before(k + 1) = Before(k)
      BY <1>1, <2>6 DEF ItemsOf
    <3>2. book[k + 1][side][q] = book[k][side][q]
      BY <1>1, <2>1, <2>3, <2>6 DEF ItemsOf, ItemSide
    <3> HIDE DEF Before
    <3> QED BY <2>1, <2>3, <3>1, <3>2
  <2> QED BY <2>5, <2>6
<1> HIDE DEF S
<1>5. n \in S
  BY <1>1, <1>3, <1>4, Induction
<1>6. Done(n)
  BY <1>1, <1>5 DEF S
<1>7. Before(n) = ItemsOf(items, side, q)
  BY <1>1 DEF ItemsOf
<1> QED BY <1>2, <1>6, <1>7

-----------------------------------------------------------------------------
(* What is put together of plain names is plain, and so the name of a       *)
(* client that is made of such.                                             *)
LEMMA ConcatPlain ==
  ASSUME NEW words, NEW front, Plain(words, front), NEW back, Plain(words, back),
         NEW name, name = front \o back
  PROVE  Plain(words, name)
<1>1. /\ front \in Seq(words) /\ back \in Seq(words)
      /\ Len(front) \in Nat /\ Len(back) \in Nat
  BY LenProperties DEF Plain
<1>2. /\ name \in Seq(words) /\ Len(name) = Len(front) + Len(back)
      /\ \A i \in 1 .. Len(name) :
           name[i] = IF i <= Len(front) THEN front[i] ELSE back[i - Len(front)]
  BY <1>1, ConcatProperties
<1>3. ASSUME NEW i \in 1 .. Len(name) PROVE name[i] \notin {"-", "%23na", "#na"}
  <2>1. CASE i <= Len(front)
    BY <1>1, <1>2, <2>1 DEF Plain
  <2>2. CASE Len(front) < i
    <3>1. i - Len(front) \in 1 .. Len(back) /\ name[i] = back[i - Len(front)]
      BY <1>1, <1>2, <2>2
    <3> QED BY <3>1 DEF Plain
  <2> QED BY <1>1, <1>2, <2>1, <2>2
<1> QED BY <1>2, <1>3 DEF Plain

LEMMA OneWordPlain ==
  ASSUME NEW words, NEW word \in words, word \notin {"-", "%23na", "#na"},
         NEW name, name = <<word>>
  PROVE  Plain(words, name)
<1>1. name \in Seq(words) /\ Len(name) = 1 /\ name[1] = word
  OBVIOUS
<1> QED BY <1>1 DEF Plain

LEMMA ClientNamePlain ==
  ASSUME NEW words, "_" \in words, NEW client_id, Plain(words, client_id),
         NEW market_data_id, Plain(words, market_data_id)
  PROVE  Plain(words, ClientName(client_id, market_data_id))
<1>1. Plain(words, <<"_">>)
  <2>1. "_" \notin {"-", "%23na", "#na"}
    OBVIOUS
  <2> QED BY <2>1, OneWordPlain, Zenon
<1>2. Plain(words, client_id \o <<"_">>)
  BY <1>1, ConcatPlain, Zenon
<1>3. Plain(words, (client_id \o <<"_">>) \o market_data_id)
  BY <1>2, ConcatPlain, Zenon
<1> QED BY <1>3, Zenon DEF ClientName

(* Markets that are called back what was asked for, and are the same for    *)
(* the same exchange.                                                       *)
CalledBack(asked, markets) ==
  /\ DOMAIN markets = DOMAIN asked
  /\ \A i \in DOMAIN asked :
       /\ cbag_market_to_exchange(markets[i]) = asked[i]
       /\ cbag_market_to_exchange(Reported(markets[i])) = asked[i]
  /\ \A i, j \in DOMAIN asked : asked[i] = asked[j] => markets[i] = markets[j]

(* Then the quantities of a level are those of the exchanges asked for,     *)
(* however the markets come in it.                                          *)
LEMMA LevelGivenBack ==
  ASSUME NEW asked, NEW markets, CalledBack(asked, markets),
         NEW market, \A i \in DOMAIN asked : market[asked[i]] = markets[i],
         NEW level, level = [m \in {Reported(m) : m \in ToSet(markets)} |-> m]
  PROVE  RenamedLevel(level) = {[e \in ToSet(asked) |-> level[Reported(market[e])]]}
<1> DEFINE names == ToSet(asked)
           reported == {Reported(m) : m \in ToSet(markets)}
           called == {cbag_market_to_exchange(m) : m \in reported}
           renamed == [e \in names |-> level[Reported(market[e])]]
<1>1. \A i \in DOMAIN asked :
        /\ asked[i] \in names /\ markets[i] \in ToSet(markets)
        /\ market[asked[i]] = markets[i]
  BY DEF ToSet, CalledBack
<1>2. \A r \in reported : \E i \in DOMAIN asked : r = Reported(markets[i])
  BY DEF ToSet, CalledBack
<1>3. \A e \in names : \E i \in DOMAIN asked : e = asked[i]
  BY DEF ToSet
<1>4. \A i \in DOMAIN asked : Reported(markets[i]) \in reported
  BY <1>1
<1>5. called = names
  <2>1. \A e \in called : e \in names
    BY <1>1, <1>2 DEF CalledBack
  <2>2. \A e \in names : e \in called
    BY <1>3, <1>4 DEF CalledBack
  <2> QED BY <2>1, <2>2
<1>6. DOMAIN level = reported /\ \A r \in reported : level[r] = r
  OBVIOUS
<1>7. Range(level) = reported
  BY <1>6 DEF Range
<1> HIDE DEF names, reported, called
<1>8. ASSUME NEW e \in names
      PROVE  /\ renamed[e] = Reported(market[e]) /\ Reported(market[e]) \in reported
             /\ cbag_market_to_exchange(Reported(market[e])) = e
             /\ \A r \in reported : cbag_market_to_exchange(r) = e => r = Reported(market[e])
  <2>1. PICK i \in DOMAIN asked : e = asked[i]
    BY <1>3
  <2>2. market[e] = markets[i] /\ Reported(market[e]) \in reported
    BY <1>1, <1>4, <2>1
  <2>3. renamed[e] = level[Reported(market[e])]
    OBVIOUS
  <2>4. ASSUME NEW r \in reported, cbag_market_to_exchange(r) = e PROVE r = Reported(market[e])
    <3>1. PICK j \in DOMAIN asked : r = Reported(markets[j])
      BY <1>2
    <3>2. asked[j] = asked[i]
      BY <2>1, <2>4, <3>1 DEF CalledBack
    <3> QED BY <2>2, <3>1, <3>2 DEF CalledBack
  <2>5. cbag_market_to_exchange(Reported(market[e])) = e
    BY <2>1, <2>2 DEF CalledBack
  <2> QED BY <1>6, <2>2, <2>3, <2>4, <2>5
<1> DEFINE Fits(f) == \A e \in names : \E r \in reported :
                        cbag_market_to_exchange(r) = e /\ f[e] = level[r]
<1>10. RenamedLevel(level) = {f \in [names -> reported] : Fits(f)}
  <2>1. {cbag_market_to_exchange(m) : m \in DOMAIN level} = names
    BY <1>5, <1>6 DEF called
  <2>2. RenamedLevel(level) =
          {f \in [names -> Range(level)] :
             \A name \in names : \E m \in DOMAIN level :
               cbag_market_to_exchange(m) = name /\ f[name] = level[m]}
    BY <2>1 DEF RenamedLevel
  <2>3. ASSUME NEW f \in [names -> reported]
        PROVE  Fits(f) <=> \A name \in names : \E m \in DOMAIN level :
                             cbag_market_to_exchange(m) = name /\ f[name] = level[m]
    BY <1>6
  <2> HIDE DEF Fits
  <2>4. {f \in [names -> Range(level)] :
           \A name \in names : \E m \in DOMAIN level :
             cbag_market_to_exchange(m) = name /\ f[name] = level[m]}
          = {f \in [names -> reported] : Fits(f)}
    BY <1>7, <2>3
  <2> QED BY <2>2, <2>4
<1>11. renamed \in [names -> reported] /\ Fits(renamed)
  <2>1. \A e \in names : renamed[e] = level[Reported(market[e])]
    OBVIOUS
  <2> QED BY <1>8, <2>1
<1>12. ASSUME NEW f \in [names -> reported], Fits(f) PROVE f = renamed
  <2>1. ASSUME NEW e \in names PROVE f[e] = renamed[e]
    <3>1. PICK r \in reported : cbag_market_to_exchange(r) = e /\ f[e] = level[r]
      BY <1>12
    <3> QED BY <1>6, <1>8, <3>1
  <2>2. renamed \in [names -> reported]
    BY <1>11
  <2> HIDE DEF renamed
  <2> QED BY <2>1, <2>2
<1> HIDE DEF renamed, Fits
<1>13. RenamedLevel(level) = {renamed}
  BY <1>10, <1>11, <1>12
<1> QED BY <1>13 DEF renamed, names
=============================================================================
