------------------------------ MODULE PriceOcw ------------------------------
(***************************************************************************)
(* The price oracle pallets (pallets/dbc-price-ocw and its copy            *)
(* pallets/dlc-price-ocw): the off-chain worker fetches a price from one   *)
(* of the configured addresses and sends it in an unsigned transaction;    *)
(* the chain keeps the last MAX_LEN prices and their average, which is the *)
(* price every other pallet charges at.                                    *)
(***************************************************************************)
EXTENDS Integers, Sequences, Sums

CONSTANTS
    Prices,         \* prices a worker may fetch
    URLs,           \* addresses root may configure
    Frequencies,    \* values root may give to PriceUpdateFrequency
    NoPrice,        \* AvgPrice: None; an empty transaction pool
    MAX_LEN,        \* samples the average is taken over
    MaxUrls,        \* bound: addresses configured at once
    OneDbc,         \* 10^15 units
    Blocks          \* bound: block numbers

VARIABLES
    block,
    PriceURL,               \* << >> stands for None
    PriceUpdateFrequency,
    price_tx,               \* external: the worker's transaction in the pool
    samples,                \* Prices
    AvgPrice

oracle == <<PriceURL, PriceUpdateFrequency, price_tx, samples, AvgPrice>>
pricevars == <<block, oracle>>

Init ==
    /\ block = 0
    /\ PriceURL = << >>
    /\ PriceUpdateFrequency = 10
    /\ price_tx = NoPrice
    /\ samples = << >>
    /\ AvgPrice = NoPrice

add_price(price) ==
    Append(IF Len(samples) >= MAX_LEN THEN Tail(samples) ELSE samples, price)

Total(prices) == SumOver(prices, DOMAIN prices)

add_avg_price(prices) ==
    IF Len(prices) # MAX_LEN THEN AvgPrice ELSE Total(prices) \div Len(prices)

submit(price) ==
    /\ samples' = add_price(price)
    /\ AvgPrice' = add_avg_price(add_price(price))

submit_price_unsigned ==
    /\ price_tx # NoPrice
    /\ submit(price_tx)
    /\ price_tx' = NoPrice
    /\ UNCHANGED <<block, PriceURL, PriceUpdateFrequency>>

submit_price_by_root(price) ==
    /\ submit(price)
    /\ UNCHANGED <<block, PriceURL, PriceUpdateFrequency, price_tx>>

add_price_url(url) ==
    /\ Len(PriceURL) < MaxUrls
    /\ PriceURL' = Append(PriceURL, url)
    /\ UNCHANGED <<block, PriceUpdateFrequency, price_tx, samples, AvgPrice>>

rm_price_url_by_index(index) ==
    /\ index \in 1..Len(PriceURL)
    /\ PriceURL' = SubSeq(PriceURL, 1, index - 1) \o SubSeq(PriceURL, index + 1, Len(PriceURL))
    /\ UNCHANGED <<block, PriceUpdateFrequency, price_tx, samples, AvgPrice>>

(* A frequency of zero is ignored. *)
set_price_update_frequency(frequency) ==
    /\ PriceUpdateFrequency' = IF frequency = 0 THEN PriceUpdateFrequency ELSE frequency
    /\ UNCHANGED <<block, PriceURL, price_tx, samples, AvgPrice>>

(* The transactions of all workers provide one tag: one at a time. *)
pool_free == price_tx = NoPrice

(* The worker of some node, after the block; a failed fetch is no step. *)
offchain_worker(price) ==
    /\ PriceURL # << >>
    /\ PriceUpdateFrequency # 0
    /\ block % PriceUpdateFrequency = 0
    /\ pool_free
    /\ price_tx' = price
    /\ UNCHANGED <<block, PriceURL, PriceUpdateFrequency, samples, AvgPrice>>

(* A transaction that is not included in time leaves the pool (longevity). *)
expire_tx ==
    /\ price_tx # NoPrice
    /\ price_tx' = NoPrice
    /\ UNCHANGED <<block, PriceURL, PriceUpdateFrequency, samples, AvgPrice>>

next_price_block ==
    /\ block < Blocks
    /\ block' = block + 1
    /\ UNCHANGED oracle

(* DbcPrice::get_dbc_amount_by_value; NoPrice stands for None. *)
get_dbc_amount_by_value(value) ==
    IF AvgPrice = NoPrice \/ AvgPrice = 0 THEN NoPrice ELSE (value * OneDbc) \div AvgPrice

OracleStep ==
    \/ submit_price_unsigned
    \/ \E price \in Prices : submit_price_by_root(price) \/ offchain_worker(price)
    \/ \E url \in URLs : add_price_url(url)
    \/ \E index \in 1..MaxUrls : rm_price_url_by_index(index)
    \/ \E f \in Frequencies : set_price_update_frequency(f)
    \/ expire_tx

Next == OracleStep \/ next_price_block

Spec == Init /\ [][Next]_pricevars

-----------------------------------------------------------------------------
(* Every variable keeps its type, and the window never outgrows MAX_LEN. *)
TypeOK ==
    /\ block \in 0..Blocks
    /\ PriceURL \in Seq(URLs)
    /\ PriceUpdateFrequency \in Nat \ {0}
    /\ price_tx \in Prices \cup {NoPrice}
    /\ samples \in Seq(Prices) /\ Len(samples) <= MAX_LEN
    /\ AvgPrice \in Nat \cup {NoPrice}
=============================================================================
