# A TLA+ model of the Prio+ prototype

Two servers, 0 and 1, compute aggregates of values that clients have split into
a share for each of them. A *meta-client* plays a batch of clients: it connects
to both servers, sends each an `initMsg` naming the operation and the size of
the batch, then one share struct per submission, and hangs up. The servers match
the submissions by public key over one TCP connection between them, convert XOR
shares to additive ones, check them, add them up, and server 0 prints the answer.

This directory holds TLA+ modules translated from `src/server.cpp`,
`client.cpp`, `ot.cpp`, `correlated.cpp`, `net_share.cpp`, `poly/` and the
headers they use, TLC configurations that check them on small instances, and proofs for TLAPS. Line
numbers below are those of `src/`.

## 1. Inventory

| Part | State it keeps | Operations | Hard because | Correct when |
|---|---|---|---|---|
| Main loop (`server.cpp` 2065-2267) | `randomX`, `randx_uses`, `precomp_store`, `snips_seed`, the sockets | refresh, accept, read `initMsg`, dispatch, close | each server decides alone when to refresh and which client it serves | the two are always about the same client and the same point |
| Sum and Boolean aggregates (`bit_sum`, `int_sum`, `xor_op`, `max_op`) | `share_map`, key list, `valid`, shares | receive, list keys, convert, exchange flags and sums, decide | client may stop between its two writes; hash-map order; untagged streams; garbage for keys one server lacks | same submissions counted, right total, stream left empty |
| Sketch aggregates (`freq_op`, `countMin_op`, `heavy_op`) | as above with a vector of cells per key, row parities and sums, counts | as above, with a batch check whose verdict chooses the messages that follow | branching protocol; all-or-nothing batches | no count invented, all heavy values found |
| SNIP operations (`var_op`, `linreg_op`, `validate_snips`) | packets, checkers, draws of the seed | as above with two messages per submission, and two swaps of proof shares | a rejected share leaves a packet to read; both must use one point and the same coefficients for ever | what is summed is proved, honest submissions are summed |
| OT conversion (`ot.cpp`) | none between calls | `bitsum_ot`, `intsum_ot`, daBit and triple generation | words wrap at 64 bits, modulus needs 64 | outputs add up to the values |
| Correlated store (`correlated.cpp`, `share.cpp`) | FIFO queues of daBits and Boolean triples | check, refill, pop, `multiplyBoolShares`, `b2a_daBit_*` | two queues that must stay paired; sends by a forked child; bounded sockets | entries match position by position, results recombine, calls return |
| Hash stores (`hash.cpp`) | coefficients drawn from a synced seed | draw, evaluate | truncated arithmetic modulo a power of two | estimates never too low; family pairwise independent |
| Meta-client (`client.cpp`) | the batch | one routine per operation, and an `_invalid` one of deliberate faults | two writes per submission | the answer it prints is the one the servers find |
| Wire format (`net_share.cpp`) | none but `recv_in`'s count | `send_*`/`recv_*` | short reads, end of file or an error in the middle of a batch, batches cut in pieces | a reader gets what was written, or can tell that it did not |
| SNIP proofs (`circuit.h`, `share_polynomials`, `Checker`, `poly/`) | roots, precomputed evaluations | FFT, interpolation, Lagrange coefficients, random combination | six places compute where a product is; a point may be one interpolated at | a proof of what was submitted passes everywhere, nothing else does but by chance |
| `he_triples.cpp`, constants, helpers, tests, build | | | not reached by the servers, or plain | |

How they interact: client -> servers by two independent TCP streams; server 0 <->
server 1 by one TCP connection (`serverfd`), shared by every operation and never
framed or tagged, and by the two OT channels; within a server, operations call
the store and the OT wrappers, and a forked child sends while its parent reads.
The only concurrency is between the processes: two servers, their children, the
clients. There is no persistence; a server that fails exits.

The hazards that follow from this are listed in `PROJECT.json`, each with its
line and the properties aimed at it.

## 2. Modules

| Module | Models | Notes |
|---|---|---|
| `OTConversion` | arithmetic of `bitsum_ot`, `intsum_ot`, `generateDaBit` | pure operators in words modulo `Word`; a shared integer is the set of its bit positions |
| `OTSession` | one OT call of both parties | sender, transfer, receiver as actions; any pads |
| `OTConversionProofs` | what the folds of `OTConversion` compute, for any length | lemmas; also induction, recursion and congruence for the other proofs |
| `OTSessionProofs` | theorems about `OTSession` | |
| `AggregateOps` | verdicts and decodings common to the four aggregates | |
| `Aggregate` | **abstract specification** of an aggregate: submissions arrive at each server; at some moment the keys both hold are combined, or the batch is refused | no streams, no shares, no listing order |
| `MetaClient` | the client routines and their `_invalid` tests as *campaigns* | operators; gives the runs their inputs |
| `PairedOp` | `bit_sum`, `int_sum`, `xor_op`, `max_op` in both servers | one action per message handled; `Abstract` maps it to `Aggregate` |
| `PairedOpProofs` | theorems about `PairedOp`: it implements `Aggregate`, and a client that delivered its batch gets what its routine prints | EXTENDS `OTConversionProofs` |
| `CorrelatedStore` | the store of both servers, their children and bounded sockets | EXTENDS `OTConversion` |
| `CorrelatedStoreProofs` | theorems about `CorrelatedStore` | EXTENDS `OTConversionProofs` |
| `Poly` | roots of unity, `fft.c`, and what `poly_batch.c` and `poly_once.c` do for the servers | operators; a small prime field |
| `Circuit` | the circuits as lists of checks, the clients' inputs, the matrices of `SolveLinReg` | operators |
| `Snip` | the client's packet (`share_polynomials`) and one server's `Checker` | EXTENDS `Poly`, `Circuit` |
| `SnipSession` | `validate_snips` in both servers | EXTENDS `Snip` |
| `SnipClient` | VAR, STDDEV and LINREG client routines, honest and `_invalid`, as campaigns | operators |
| `ProvedAggregate` | **abstract specification** of `var_op` and `linreg_op`: submissions are stored; at some moment those both hold and whose proofs prove them are summed, or the batch is refused | |
| `SnipOp` | `var_op`, `linreg_op` in both servers | one action per message; `Abstract` maps it to `ProvedAggregate` |
| `SnipOpProofs` | theorems about `SnipOp`: it implements `ProvedAggregate`, and a client that delivered its batch gets what its routine prints | EXTENDS `OTConversionProofs` |
| `Wire` | encodings of `net_share.cpp` in bytes, and how a call is made of `recv_in`s | operators |
| `WireSession` | a connection: delivery, the sender's exit, the reader's `recv`s | EXTENDS `Wire` |
| `WireSessionProofs` | theorems about `WireSession` | EXTENDS `OTConversionProofs` |
| `Sketch` | hash stores, layers, count-min estimates, the tree search | operators |
| `SketchOp` | `freq_op`, `countMin_op`, `heavy_op` in both servers | EXTENDS `Sketch` |
| `SketchOpProofs` | theorems about `SketchOp` | |
| `ServerLoop` | `main` of both servers over a series of meta-clients | an operation is the *script* of its messages |
| `ServerLoopProofs` | theorems about `ServerLoop` | |
| `MC*` | values for TLC's constants | |

Correspondence of state and code, where it is not by name:

* `pc[s]` is where server s is in its handler: `recv` (the loop on `clientfd`),
  `pks` (server 0 reading the keys), `ot` (conversion), `valid`, `sum`, `done`.
* `to[s]` is every message ever written to the stream server s reads and
  `rcvd[s]` how many it has read: a read is of message `rcvd[s] + 1`, whatever
  kind that turns out to be.
* `sent[s]` shares were written by the client to server s; `taken[s]` of them were
  read. `share[s]` is the struct `recv_in` fills: at end of file it keeps what it
  held, and before the first share it holds stack contents (`Garbage`).
* `Junk` is what an entry server 0 never wrote may hold when it enters the
  conversion.
* In `SnipOp`, place `packet` is between `recv_in` of a share and
  `recv_ClientPacket`: `taken[s]` counts both kinds of message. A packet is known
  by the submission it came with; what it is worth is given by the campaign
  (`proved`, the inputs its client proved, and `intact`). The shares are converted
  as `intsum_ot` converts them, in words that wrap, with a pad for every bit of
  every field of every entry.
* In `SnipSession` a packet is its numbers, and a server's half of it is its half
  of each.
* In `WireSession`, `read` and `written` are positions in the byte stream,
  `bytes_read` is `recv_in`'s variable and `chunk_total`, `step_total` and `total`
  the three levels at which `recv_*_batch` add up results.
* In `CorrelatedStore`, `out[s]` is what the forked child has left to send and
  `chan[s]` the socket buffer it sends into.
* In `ServerLoop`, `randomX`, `precomp` and `snips_seed` count draws: equal
  numbers are the same draw.

Data that is abstracted: keys are model values (a server lists them in any
order), pads and moduli are small, byte order and field packing are left to `Wire`.
`int_sum` is modelled with one value of `num_bits` bits per submission, which
its client and the rest of the function are written for; the checked-in build
sets `nvalues = 10000` and asserts 63 bits (server.cpp 384-400), a benchmark
setting that reads past the shares.

## 3. Runs

| Run | Question | Bounds |
|---|---|---|
| `ot_exact` | do the two outputs of a conversion add up, for every pad, and how far off are they where a word has no room? | word 32, moduli 15 and 17, two entries or two bits |
| `paired_ops` | are the four aggregates right for every batch the client routines make, with faults, in every interleaving and listing order; and when the client dies anywhere? | 3 submissions (2 for INT_SUM), 2 bits, max 2; honest clients may die |
| `paired_guard` (violation) | is the client's bound on the modulus enough? | word 32, modulus 17, 4 bits |
| `store` | do the caches stay paired and the results right, with OT generation and with daBits sent by server 0 and left over from call to call; does every call return? | modulus 5, batches of 1 and 2, sockets of 1 unit; fair |
| `store_wide_modulus` (violation) | are daBits right with a modulus like the shipped one? | word 16, modulus 9 |
| `sketch_ops` | are sketches right for honest batches, the client dying anywhere? | 3 submissions, 1-3 bits, 2 hashes or 2 layers |
| `sketch_single_check` (violation) | does FREQ keep the good submissions of a bad batch? | 2 submissions |
| `sketch_hashes` (violation) | is the hash family pairwise independent? | every hash on 3 bits, w = 2 |
| `server_loop` | do the loops stay together over a series? | 3 clients, 2 inputs, threshold 1 |
| `snip_proof` | which submissions pass `validate_snips`, at every point? | modulus 17 (16 roots of unity), VAR and LINREG of degree 2 and 3, batches of 1 and 2 |
| `snip_ops` | are `var_op` and `linreg_op` right for every batch the client routines make, and when the client dies anywhere? | word 128, modulus 53, 2 bits, three draws of pads, up to 3 submissions, degrees 2 and 3 |
| `wire` | what does a reader make of a stream cut, closed or reset anywhere? | bytes of 2 bits, numbers of 2 bytes, batch maxima 2 and 1 |

Why these bounds. Three submissions give a batch in which a minority, exactly
half (of two) and a majority are bad, a duplicate next to and apart from what it
repeats, and key lists in six orders. Two bits make carries. In a word of 32 a
modulus of 15 just has room for two residues and the higher bit's 2; 17 of 32,
like 9 of 16 in `store_wide_modulus`, is what the shipped 0x8000000000080001 is
of 2^64: just over half. A socket of one unit is
the tightest, so a deadlock that any capacity allows appears there with a batch
of two. In `server_loop` a threshold of 1 makes every second or third operation
refresh, before and between proofs of the same and of different sizes.

In `snip_proof` a field of 17 has its 16 non-zero elements as roots of unity:
LINREG of degree 3, with five checks, needs all 16 for its polynomials, and the
circuits of degree 2 and VAR need 8 and 4, so a checking point may be among the
points interpolated at or not. Degree 3 is the smallest with a product of two
different x_i. In `snip_ops` the modulus is the smallest prime above what the
client's guard asks of three inputs of 2 bits (48); a square has 4 bits, and two
residues of 53 and the highest bit's 8 fit a word of 128. In `wire` a batch of three
is cut in two by one maximum and in three by the other, five flags take three
bytes, and sizes reach past what two bytes of two bits hold.

What the properties say:

* **Same stream.** `StreamsInStep` (in `PairedOp`, `SketchOp` and `SnipOp`) and
  `InStep` (`ServerLoop`): the next unread message is of the kind the reader
  means to read; in `SnipOp` also that shares and packets take turns on the
  client's stream after a submission that is rejected. `StreamsDrained`: nothing
  is left unread on any exit path, the too-few one included.
* **Same submissions.** `SameInputsCounted`: both servers add up the same keys.
  `CountedWereDelivered`, `NothingInvented`: they were delivered to both even if
  the client died and its last struct was read again; this needs each server to
  have read one share, before which the struct is stack contents. `StoredWhole`:
  no share is kept without its packet.
* **Right answer.** `HonestTotals`: a batch delivered in full yields what the
  client printed, or a refusal. `HonestCounts`, `AllHeavyFound`, `AllOrNothing`
  for sketches. `HonestMoments`: the sums of VAR, or the two matrices LINREG
  solves, are those of the values of the submissions the routine calls valid,
  computed from the values themselves. It and the two abstract specifications
  say for themselves when a batch is refused: more is lost than left. Of two
  submissions one may be bad, so a handler that refuses at exactly half is
  caught. `ServesValid`: a server dies of `circuit[0]`
  only in a batch without a valid submission that reached both. `ImplementsAggregate`
  and `ImplementsProvedAggregate`: every step is one of the abstract
  specification's or changes nothing it shows, so no interleaving or listing
  order adds a behaviour. `MaxScanStops`: the scan
  `for (unsigned j = B; j >= 0; j--)` ends at a marked position for any accepted
  batch; an *empty* batch is accepted too and there the scan does run away.
* **Proofs.** `ProvedPasses`: a submission with a proof of itself passes on both
  servers at every point, whatever else is in its batch. `OthersPassByChance`: of
  all points and coefficients, no more let anything else pass than two degrees
  of a polynomial and one random combination explain (the count is exact, over
  the whole field). `OnlyProducts`: a change of any one number of a submission
  to any other is a violation of its circuit.
* **Same randomness.** `StoresAligned` and `ResultsRecombine` for the caches;
  `SnipsAgree` and `PointRetired` for the checking point. `ConversionExact`: the
  two outputs of a conversion that has room in a word (`HasRoom`) add up to the
  shared number whatever the pads. `OnlyWordsLost`: without room, `intsum_ot` is off
  by a number of lost words, no more than its additions can lose (`MayLose`,
  which is 0 where there is room), and by nothing else.
* **Wire.** `RoundTrip`: a call that returns as many bytes as were sent has what
  was sent. `WholeOrFailure`: within its maximum, a batch is whole or the result
  is 0 or -1. `EndIsFinal`: after a failure nothing else is read.
* **Progress.** `BothReturn`, `AllCallsReturn`, `AllServed`, `CallsReturn`.

Fairness is weak fairness of each process: a server, a child or a client that
can take its next step eventually does, which is what the operating system gives
a runnable process and TCP a written byte. No fairness is put on choices (listing
order, pads, a client dying, the size of a short read). Fairness of `Convert`,
which is one action of both servers, is the fairness of the OT exchange once both
have come to it. A client may also die, so `BothReturn` depends on end of file
being delivered as `recv` delivers it. `ClientStep` of `SnipOp` is fair because a
client either writes or its exit closes its sockets; in `WireSession` the sender
need not exit, since every byte it writes is delivered.

Deadlock checking is off because an operation, a program of calls, a validated
batch or a series of clients ends; the liveness properties are what excludes a
real deadlock.

## 4. What the violations show

1. `generateDaBit` doubles a residue (correlated.cpp:379) and `intsum_ot` adds
   residues (ot.cpp 152, 156, 209) in 64 bits, and the shipped modulus, called a
   63-bit one at constants.h:63, has 64 bits: for some pads a pair is no daBit
   (rarely) and a total is off (commonly for bit 62). In `ot_exact` the modulus 17
   of 32 shows by how much (`OnlyWordsLost`). Squares and products in `var_op` and
   `linreg_op` have up to 62 bits, so that near 31 bits per value honest
   submissions, too, are converted wrongly for some pads.
2. The client's guard multiplies in 64 bits (client.cpp:292) and lets through
   batches it means to refuse.
3. `freq_op` server 1 sends `valid` before it has any value where its parities
   belong (server.cpp:1343).
4. The hash family is not what hash.h:3-9 describes. Estimates are still
   never too low (`AllHeavyFound`); they may be higher than the analysis says.

Seen while modelling, without a run: `addDaBits` makes exactly n where
correlated.h:45 says at least `batch_size` (a comment in the code says why);
`validate_snips` of an empty batch reads `circuit[0]` (server.cpp:208), and where
that does not end the server `var_op` divides by `num_valid` = 0; the row
loops of `countMin_op` and `heavy_op` `continue` where they mean `break` (1657,
1934), so only the last row decides; types.h:68 asks for all heavy values and
`countMin_op` looks at x < 256 (1721); HEAVY's stores are sized in the reverse
order of the layers that use them (client.cpp:1751); `max_val * max_val` is 0
for num_bits = 32 (server.cpp:759); `int_sum_invalid` and `var_op_invalid` leave
`msg.num_bits` as the stack had it (client.cpp 317, 896); net_share.h:8 promises
0 or a negative number on failure, and a batch over its maximum returns the sum
of its pieces' results, failures included (net_share.cpp:234).

## 5. Proofs

`PairedOpProofs` proves, for every set of campaigns, number of inputs, garbage,
junk, pads, modulus and word size, with clients that may die:

* `ServersInLockstep`: `Spec => []Lockstep`. `Lockstep` is the inductive
  invariant, in four named parts: `Shape` (types), `Phases` (which pairs of
  places the servers can be in: server 0 leaves `recv` only after server 1 and
  so on), `KeysListed` (server 0's list is a prefix of server 1's and its flags
  say which of those keys it has), `Streams` (the exact contents of both streams
  and how much was read, by place). The properties below are not inductive by
  themselves: that the next message is of the right kind depends on how many
  were written, that on server 1's place, and that on the size server 0 read.
  There is one lemma per action.
* `TypeCorrect`, `StreamsStayInStep`, `StreamsEndDrained`, `SameInputsAreCounted`
  follow from it.
* `CountedAreDelivered`: `Spec => []CountedWereDelivered`. `Lockstep` says nothing
  of what a loop stores once the client is gone, when it stores the struct it read
  last once more. `Kept` does: the struct is the last share read, every key of the
  map is one read so far, and before the first read the map is empty.
* `RefinesAggregate`: `Spec => ImplementsAggregate`.

For the last, the exchange of bit_sum, int_sum, xor_op and max_op has the effect
of looking into both maps at once. Its hypothesis `ModulusFits` concerns int_sum only:
each INT_SUM batch's bits have room, as in the `HasRoom` of `ConversionExact`; it holds
trivially of a set of campaigns without INT_SUM, and in the run `paired_ops`.
The abstract verdict (`MostLost`) and the code's (`BelowThreshold`) are stated
apart and shown to agree.
`Lockstep` says which entries are counted, the invariant `Computed` what is
known of them: what server 0 reports is not decided yet before it returns; stored
payloads have no bit beyond the operation's; server 1's sum is the last
message it wrote; each server's aggregate is that of its entries by server 0's
flags; and, after the conversion, the two additive shares of each counted entry
add up to the number its key's two payloads open to (int_sum), or the two
sums to the sum of those (bit_sum). The conversion step is `IntEntryExact` and
`BitPathsExact` of `OTConversionProofs`. The servers add and XOR by position in
server 1's listing, the abstract operation by key: `SumOfPath` and `XorOfKeys` carry
one over to the other, since the listing has each key once (`ListedKeys`: it has
as many entries as keys). `XorOfShares` is the parity argument that the XOR of both
servers' XORs is the XOR of the opened payloads. `RecvStores`, `ReportDecides` and
`StepRefines` map each action to the abstract step it is.

* `HonestGetTotals`: `Spec => []HonestTotals`: a batch delivered in full has what
  its routine prints reported, under `ModulusFits` and `TotalsFit` (each int_sum
  batch's total is below the modulus and the word: the client's own check
  promises as much until it wraps around, which is what the run `paired_guard` shows;
  in `paired_ops` it holds).
* `ScanStops`: `Spec => []MaxScanStops`, for clients that die too.

These two say what the verdict is in terms of the client's submissions. `Reported`
(server 0's result is `Verdict` of both maps) follows from the refinement's
steps. `FirstCome` says which shares the maps hold: once a server has read a share,
what it has under a key is the first share of that key it read that fits, and
every share read that fits has its key stored; a pass of the loop that reads nothing
finds the client gone and its stream read to the end, so the share it stores again adds nothing.
`SameSubmission`: a key of both maps is then that of one and the same submission, valid
(`Genuine`), since a key two submissions have is that of an earlier valid one, which
both servers stored first. So the keys both hold are, one to one, the valid submissions
read by both (`KeysMatch`), the XOR of the opened payloads is their union
(`XorOfCame`: words of different submissions do not cancel), and the sum over the
keys that over the submissions (`SumOfCame`, `SumRenamed`). `TopMark`: the
highest index of the union is the greatest of the highest indices.

`SnipOpProofs` proves, for every set of campaigns, modulus, word size, junk and
pads, with clients that may die between any two writes and servers that may die
of an empty batch (the last three of these theorems under `ModulusFits`, as said there):

* `ReceptionHolds`: `Spec => []Reception`, the invariant of client and receiving
  loops. What makes it inductive is `Turns`, that a server has read two messages
  per turn of its loop, or what there was: with it, a stored number is that of a
  packet read, and not of a share whose packet never came.
* `ExchangeHolds`: `Spec => []Exchange`, the invariant of the two servers:
  `Together` (the pairs of places), how many messages each was written and has
  read in each place, and that message n of a stream is of the kind `Kind(s, n)`.
  Whether there is anything to validate decides how many messages follow, so the
  invariant carries that server 0's list is the one server 1 sent.
* `SnipTypeCorrect`, `SubmissionsStoredWhole`, `SnipStreamsInStep` follow.
* `ValidIsServed`: `Spec => []ServesValid`. Nothing in the two invariants keeps
  server 1 from listing no key at all. `Listed` adds it: server 1 has stored
  something once it has read a valid submission to its end, and lists something
  once it has stored something. It rests on `ValidAssumption`, that what a client
  routine calls valid is no wider than the servers' bounds.
* `RefinesProvedAggregate`: `Spec => ImplementsProvedAggregate`, under `ModulusFits`:
  every bit of every field has room in a word beside two residues, 2 * Modulus +
  2^k <= Word. The shipped modulus does not satisfy it for any bit, squares least of
  all (section 4); the run's 53 of 128 does. `SettledHolds` and
  `HonestGetMoments`, below, have the same hypothesis.

For the last, `Exchange` says which messages there are and `Settled`
(`SettledHolds`) what they say. `Held(s)` is what server s has under each key of
server 1's list, `Flags` which entries both hold with a proof: functions of
the maps, the lists and the converted shares. Then, place by place, the two
additive shares of each number of an entry both hold open to it (`EntriesOpen`);
a message holds what its sender computed (`OnWire`); a server's flags are
the keys it knows before its check and `Flags` after it, and server 0's sums those of the
flagged entries (`FlagsSet`). It is not inductive without `KeysListed`, that server
1 lists each key once: sums and counts by position are then those by key
(`FlaggedAreAgreed`). The conversion establishes `EntriesOpen` (`ConvertOpens`): field
by field it is `IntEntryExact` of `OTConversionProofs` (`FieldOpens`), which is where
`ModulusFits` is needed, and also that no stored share has a bit beyond its
field's width, the second half of `FirstCome` (`FirstComeHolds`); a bit
that the loop over `num_bits` never reaches would be dropped. So a flag
is set just if the abstract operation's condition on both maps holds
(`GoodIsProved`). `ServersSumUp` adds the two sums modulo `Modulus`. A LINREG
report then has to be the matrices of the values, while the sums hold
squares and products that the clients supplied: the proof that goes
with each, the check of the circuit, makes each such number the product it should be
(`AgreedFields`), and the counting lemmas `OnesCount` and `PairsCount`
find the number of x_i * x_j in the list of fields for any degree
(`SolvedPair`, `CrossHolds`, `ReportIsMoments`). `RecvPacketStores`,
`ReportDecides` and `StepRefines` map each action to the abstract step it is.
* `HonestGetMoments`: `Spec => []HonestMoments`: a client whose batch both
  servers read to the end gets the moments of the submissions its routine left
  valid.

It rests on two more invariants. `FirstCome`: of what a server has read so far, each
valid submission is stored under its key, because no earlier one of the batch had that
key in either server's share and its fields fit, and nothing that is too wide is stored. `Decided`: what
server 0 has returned is the moments of the abstract operation's `Agreed` entries. With both
streams read whole, `AllCounted` shows that these are the campaign's
`valid`: one way, what a client computes from its values satisfies the circuit, so its check
passes (`SatisfiesReduced`, `InputsSatisfy`); the other, each way a routine has of
spoiling a submission is refused (a key the other server does not have, a
share that is too wide, a proof cut or of other values, a circuit that
does not hold). `SameSums` and `MomentsOpen` then compare the sums of products
of reduced values with those of the values (`CongTimes`).

`SketchOpProofs` proves, for every set of campaigns, modulus, word size, garbage,
junk and pads, with clients that may die:

* `SketchExchange`: `Spec => []Exchange`. The verdict server 0 writes decides
  whether two more messages are exchanged, so the invariant says for each place
  how many messages were written and read, and what they are, as a function of
  `Second`: that the verdict on the stream is false and the operation is FREQ.
  That a place implies `Second` (`Together`) is what keeps a server from waiting
  for a message of a round the other does not enter.
* `SketchReception`: the same for the client and the receiving loops.
* `SketchTypeCorrect`, `SketchStreamsInStep` follow.
* `SketchNothingInvented`, `SketchAllOrNothing`, `SketchHonestCounts`: the three
  properties of the counts. They rest on `SketchMessages`, four more invariants.
  `Deliveries`: the submissions a server has stored are a prefix of the client's, server
  1's no longer than server 0's. `Listing`: server 1 lists what it has stored. `Converted`: the
  additive shares are the opened bits under one pad. `Truthful`: a verdict is that
  of both servers' rows, totals are those of the flags. Once the servers have
  converted, the listed entries are therefore the client's first n submissions in some
  order (`LinedUp`). Sums of shares then count entries, modulo the modulus and, for the
  parities, modulo 2 (`SharesCount`, by induction over the size of a set), so the batch check
  passes if and only if n is the number of inputs (`RowsTell`): a row of a
  submission has one cell set, and a modulus above the number of inputs
  tells n of them from all. By the same count the totals are how many flagged
  entries have the cell (`TotalsTell`, `CountsTell`), whatever flags the second round set.
* `SketchAllHeavyFound` (`Spec => []AllHeavyFound`), if COUNTMIN's values are below 256,
  which is all `countMin_op` tries (`CountMinTriesAll`; the run has 2-bit values).
  An answer counts the whole batch, and a value's submissions all set its cells, so
  each of these has at least the value's count (`CellCounts`) and so has the least of
  them (`EstimateCovers`). `HeavyFinds` follows a frequent value down the tree: by
  induction over the layers its prefix is kept, since dropping one more bit of it gives
  the prefix kept one layer up (`DivDouble`). The assumption on what clients prepare says
  only that the two shares differ in `Hot(cfg, value)` and that hashes are drawn for
  their layers; `HotInRow`, `OneCell` and `HotCells` prove where those cells are. Powers
  of two are opaque to the provers; `PowDouble` gets 2^(n+1) = 2 * 2^n from the number
  of subsets.

`ServerLoopProofs` proves, for any series of operations, any number of inputs and
any threshold:

* `PointsAreRetired`: `PointInv` adds to `PointRetired` what shape `precomp` and
  `randomX` have, so that an update at a server is seen not to disturb the other.
* `ServersInStep` (`Spec => []InStep`) and `SnipsEvaluatedAlike`
  (`Spec => []SnipsAgree`), from the invariant `LoopInv`. The servers never wait
  for one another to be done with a client, so neither property is inductive: what
  a server reads next depends on how far ahead the other is. `Pair` lists the three
  ways they can stand: both in the start-up, both in the exchange of one client, or
  apart, where server 1 has left the exchange or is in the next one, ahead by at
  most a sum, a new point and the keys. For each, `Streams` says what is on the
  wire: the tables `Written`, `WasRead` and `Kind` give, for what is left of a
  script, how many messages were written and read and of which kind the n-th is.
  `SameUses` and `SameSeed` say that points, uses, drawn numbers and inputs are
  equal whenever the servers are level, `Apart` by how much they differ otherwise,
  and `Counts` when a point is due for refresh; together they make both servers
  take the threshold's branch at the same client.

`OTSessionProofs` proves, for any set of calls, any number of entries and bits,
any validity bits, pads and word size:

* `ConversionIsExact`: `Spec => []ConversionExact`. The property is of calls that
  `HasRoom`: they work modulo the word size itself, or are `intsum_ot` with a
  modulus m such that each 2^k added is at most m and 2m + 2^k fits a word. The
  first is how `bit_sum` calls `bitsum_ot`. Of the run's moduli 15 has room and 17
  has not; nor has the shipped one (section 4), of which only `OnlyWordsLost` holds.

It follows from `Progress`: after the sender the messages and its result are what
the operators make of some pads, after the transfer the receiver holds the same
messages, at the end it has added them up. The work is in `OTConversionProofs`,
which proves what those operators compute. Their loops are folds, and a fold of the
community modules is a CHOOSE of a function with a recursive equation: `Recursion`
proves that one exists, `FoldPrefixes` that its values are the loop's partial sums.
The partial sums of sender, receiver and shared value are then compared step by
step modulo m (`SenderExact`, `MessageExact`, `PlaceExact`, `IntEntryExact`,
`BitSumExact`). Induction is over the *set* of numbers for which a congruence holds
(`Induct`), which the provers can instantiate where an operator they cannot.

`WireSessionProofs` proves, for any widths, batch maxima and series of calls,
however the stream is cut into reads and wherever it is closed or reset:

* `WholeOrFailed` (`Spec => []WholeOrFailure`) and `FailureIsFinal`
  (`Spec => []EndIsFinal`), from the invariant `Reading` (`ReadingInOrder`).

What makes neither inductive is `recv_in` and its callers, which tell success
from failure by a total that failures are added to. `Exact` is what holds while
everything arrives: the bytes read of a call are what its parts up to now
should have brought, and chunk, step and call totals add up to just these. Once a read
has come up short, `Stopped` holds and stays: the sender is gone and the stream
empty. A later result can then be positive only if a call finds a positive
total to add failures to, so `InCall` and `Returned` carry that totals begin at 0
and that a failed call leaves none positive. An empty batch is the exception: it asks for
nothing, and nothing is read where 0 means failure, too. It stays apart because the
parts of one call all have bytes or are all empty (`PartsShape`), which is
a fact about each of the six encodings: how pieces are cut (`PiecesShape`), and how
long numbers, flags and sizes are, put one after another (`FlattenLen`, `NumbersLen`,
`FlagsFilled`). `EndPartCases`, `GoesOn` and `ReturnOf` follow the totals
through the end of a part, a chunk, a step and a call.

* `WhatCameWasSent` (`Spec => []RoundTrip`), from a second invariant, `Taken`
  (`TakenInOrder`).

`Taken` says that a call which got all its bytes has its parts as they were written,
and, for the call under way, where its reader stands in the stream (`InPlace`): after
the calls and the parts before, as long as the stream has not ended. Nothing is
said of the reader's place once it has: a call may then be in any of its parts, and
what keeps it from passing for complete is that nothing more comes (`Stopped`) and that
its totals have stayed below the length of the parts before (the first conjunct of `InPlace`).
`WrittenAt` finds each part's bytes in the stream, from the lengths of all before it
(`Upto`).

That the parts give back what was sent is a fact about each encoding (`CallReceived`).
Number by number these are folds again: the digits of a number add up to it
modulo what they can hold (`LittleValue`), so a size comes back modulo 2^32 and a
number that fits its limbs comes back as it is; and a sum of different powers of
two has the bits it is made of (`BitOfSum`), so flags do (`FlagsRoundTrip`). Elements of
equal length come to lie at multiples of it (`FlattenAt`), so a batch of numbers is read
at the right places (`NumbersRoundTrip`) however it was cut (`PiecesCut`,
`BatchBytes`, `PiecePlace`). On these rest the four structs: `CorsReceived`,
`DaBitsReceived`, `PacketReceived` and plain batches (`NumbersReceived`).

`CorrelatedStoreProofs` proves, for any programs of calls of any sizes, any batch
size, socket capacity and pads, eager or lazy, forking or not:

* `StoresStayAligned` (`Spec => []StoresAligned`) and `ResultsAlwaysRecombine`
  (`Spec => []ResultsRecombine`), under `ModulusFits`: where daBits are generated by
  OT, 2 * Modulus + 1 is below the word size, which `store_wide_modulus` shows to be
  needed; where server 0 makes them, the modulus is odd, as any odd prime is, so
  that the parities of a bit's two halves differ as `makeLocalDaBit` assumes.

The difficulty is that the servers are rarely in the same call: one may have
returned from a call and popped for the next while the other has not yet read what
was sent in the first, and how much a server makes in a call depends on what is
left over from earlier ones. The invariant, `Inv`, does not relate the two servers
to each other. It relates each to histories that both share (`Described`): D and T,
each server's halves of all daBits and triples ever made, U, all units each ever
sent, and X, its operands of each call. What counts had been made and popped
before each call is a function of the program alone (the table `P`, `TableOf`), so
where a server is in its program says where it is in the histories (`Places`).
Then

* its caches are the windows on D and T from what it popped to what it made
  (`Stores`), and the three queues on the way to it (read, in the socket, with the
  sender's child) are adjacent windows on what the other sent (`Flow`);
* the pairs in D and T match (`Good`); the masked bits of a call are where the
  table puts them in U (`Masked`), and so are daBits passed on (`Passed`); what a
  server returned is a function of its hand and of both servers' masks (`Results`);
* a server that is to take daBits off the socket has read no further than them
  (`Reading`), and a server at a refill has something to add (`Wanting`).

There is one lemma per action. Those that only move messages between queues keep
every window (`QueuesMove`); those that make something extend a history beyond all
places, which changes nothing read from it so far (`Grown`, `Beyond`). The
arithmetic of one entry is `DaBitsGood` for a generated daBit, `LocalGood` for one
made by server 0, the Beaver identity for triples (`TripleGood`, `ProductsRight`), and
for a converted number the two servers' weighted partial sums, which add up to the
opened number's modulo Int_Modulus at each bit (`BitsRight`, `ValuesRight`).

The assumptions are those the modules name: `CampaignsAssumption` and
`SketchAssumption` (a batch has as many shares as its `initMsg` says),
`PreparedAssumption` (a prepared submission has its own key, in both shares, which differ
in its value's cells, as `freq_helper` and its siblings make it; hashes are of their layer's
family, with fewer bits than their inputs), `PadsAssumption` (pads are residues, in `SnipOp` words),
`PayloadsAssumption` (a sum's payload is a bool or a word, read or not, and so
wide are the pads), `FieldsAssumption` (a VAR or LINREG batch has fewer inputs than
the modulus and a natural number of bits, and its submissions have the fields of
its circuit, of finitely many bits), `ProgramsAssumption` (a call is given a size, flags, or numbers with no more limbs than Int_Modulus,
which bounds all that is sent),
`RoutinesAssumption` of `SnipOp` (a submission that a VAR or LINREG routine calls valid is made of values,
with their proof, under one key that no earlier one has; one it spoilt has two keys, or is too
wide, or is not proved; the routine prints the moments of the valid ones. A
random spoiling that by chance spoils nothing is left out) and of `PairedOp` (a
routine prints the aggregate of the values of the submissions with one key that
no earlier one has and shares that fit; where it repeats a key, it is the key of such a
one; random words do not cancel; an encoded value for MAX or MIN marks some index,
and none above the bound),
`ValidAssumption`, `ModulusAssumption`, `WordAssumption`, `LoopAssumption` (the
clients ask for sequences of operations), `JobsAssumption` (the two shares of a
call are of one length and have the call's number of bits). `StoreAssumption` and `CallsAssumption` (the modulus is above 2, a socket holds
something, calls are those of the store, on values of some numbers of bits). TLC
evaluates them on every run.

Model-checked only: the liveness properties (TLAPS has no rules for `ENABLED`
here); `OnlyWordsLost`;
everything in `SnipSession` (`Poly` declares RECURSIVE operators, and its
identities are inductions over them).

## 6. Not modelled, and why

* The division by `num_valid`, the square root of STDDEV and the inverse of
  LINREG's matrix: floating point on numbers that are modelled up to there.
* `SnipOp` takes a wrong proof to fail. That it fails but by chance is
  `OthersPassByChance`; the odds are those of a 63-bit field, where no operation
  meets them. The OT conversion is one exchange there, as in `PairedOp`.
* The branch `!USE_OT_B2A` of `share_convert` in `var_op` and `linreg_op`: the
  build sets `USE_OT_B2A` (server.cpp:49). Conversions with daBits are in
  `CorrelatedStore`.
* `he_triples.cpp`, which the servers do not reach, and `makeLocalTriple` and
  batched interpolation, which nothing uses.
* Malformed sketch submissions: `client.cpp` has no routine that makes any (its
  calls of `countmin_invalid` and the like are commented out), so a batch fails
  its check in `SketchOp` only for a client that died.
* Encodings of strings, seeds, doubles and `HeavyConfig`: fixed-length copies.
* A server that crashes for another reason than those modelled: it exits and
  nothing restarts it; the other's `recv_in` then returns at end of file and its
  results mean nothing.
* A client that dies before its `initMsg`, between it and LINREG's degree, or in
  the middle of a struct (`WireSession` has what the reader's calls then return).
* Two meta-clients started at the same time: the code does not pair them, and the
  repository's README starts them one after the other. `ServerLoop` assumes it.
  Its streams hold any number of messages; full socket buffers are in
  `CorrelatedStore`.
* Time, socket options, addresses, printing; tests and build files.

## 7. Plan

Done, in this order: the OT arithmetic; `PairedOp` with its abstract
specification, runs and proofs; `CorrelatedStore`; `Sketch` and `SketchOp`;
`ServerLoop`; `Poly`, `Circuit`, `Snip` and `SnipSession`; `SnipOp` with its
abstract specification and proofs; `Wire` and `WireSession`; `SketchOp`'s proofs; the proofs of `ServerLoop` and
`OTSession`, of `PairedOp`'s refinement, of `CorrelatedStore` and of `SketchOp`'s
counts; `SnipOp`'s refinement, the proofs of `WireSession`, and what honest clients get:
`HonestMoments`, `HonestTotals` and `MaxScanStops`; the wire's `RoundTrip`.

Next, the model: a composition of `ServerLoop` with a real handler in place of a
script, and two clients started at once.
