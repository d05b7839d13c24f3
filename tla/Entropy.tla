------------------------------- MODULE Entropy ------------------------------
(***************************************************************************)
(* random.c: the entropy pool, which is a BLAKE2s hasher (rfc7693.c) that  *)
(* is never finished for good, and the random number generator of the      *)
(* hart, which is seeded from it and runs on ChaCha20 (rfc7539.c).         *)
(*                                                                         *)
(* The rounds of the two functions are left out: the compression of a      *)
(* block and the ChaCha20 block are terms that hold all their inputs, so   *)
(* that two results are equal only when their inputs are.  What is left is *)
(* what happens around the rounds: buffering, padding, counting, the       *)
(* final flag, keys, and when the generator is seeded again.               *)
(*                                                                         *)
(* A byte is <<"byte", n>>, the n-th that was ever mixed in, so that none  *)
(* is lost, repeated or moved unseen.  One hart runs: there is no other    *)
(* yet, and nothing here is locked.                                        *)
(***************************************************************************)
EXTENDS Integers, Sequences, SequencesExt, FiniteSets

CONSTANTS BlockLen,     \* the bytes of a block (64)
          KeyLen,       \* the bytes of a key and of a hash (32)
          Word,         \* 2^32, or 2^64 for blake2b_hash
          Threshold,    \* 256
          Estimate63,   \* 2^63: rng->entropy_estimate has 63 bits
          MixLens,      \* the lengths of the buffers that are mixed in
          Credits,      \* the numbers of bits that are credited
          Lens,         \* the lengths that getrandom is asked for
          MaxBytes,     \* bounds: the bytes that are mixed in,
          MaxCredit,    \* the bits that are credited, below 2^64,
          MaxDraws,     \* and the calls of getrandom
          NULL

ASSUME EntropyConstants ==
    /\ {BlockLen, KeyLen, Threshold} \subseteq Nat \ {0} /\ KeyLen <= BlockLen
    /\ Word \in Nat /\ Word > BlockLen /\ Estimate63 \in Nat /\ Estimate63 > Threshold
    /\ MixLens \cup Credits \cup Lens \subseteq Nat
    /\ MaxBytes \in Nat /\ MaxDraws \in Nat /\ MaxCredit \in 0..(2 * Estimate63 - 1)

VARIABLES entropy_pool,             \* the hasher
          global_entropy_estimate,
          rng,                      \* the generator: [state, inited, entropy_estimate]
          seeds,                    \* history: what every (re)seed drew from the pool,
          mixed,                    \*   the bytes mixed in so far,
          mixedAt,                  \*   those at the last reseed,
          creditAt,                 \*   the bits credited at the last reseed,
          creditDrawn,              \*   the bits credited at the last draw,
          drawn,                    \*   the blocks handed out, in order,
          draws,                    \*   the calls of getrandom,
          hashes                    \*   the hashes of the self-tests

vars == <<entropy_pool, global_entropy_estimate, rng, seeds, mixed, mixedAt, creditAt,
          creditDrawn, drawn, draws, hashes>>

Zero == <<"byte", 0>>
Byte(n) == <<"byte", n>>
Bytes(from, n) == [i \in 1..n |-> Byte(from + i)]
Zeros(n) == [i \in 1..n |-> Zero]

(* A block whose last bytes are zero. *)
Padded(s) == s \o Zeros(BlockLen - Len(s))
-----------------------------------------------------------------------------
(* BLAKE2s.  hash_state is the parameters and the compressions so far.     *)

Compression(block, lo, hi, final) == [block |-> block, lo |-> lo, hi |-> hi, final |-> final]

blake2s_compress(state, block, lo, hi, final) ==
    Append(state, Compression(block, lo, hi, final))

(* ckd_add of n to the two words of the byte count; that the upper word    *)
(* overflows needs 2^64 bytes.                                             *)
CountAdd(h, n) ==
    [h EXCEPT !.lo = (h.lo + n) % Word, !.hi = h.hi + (h.lo + n) \div Word]

(* A full buffer is compressed. *)
Compress(h) ==
    LET g == CountAdd(h, BlockLen)
    IN  [g EXCEPT !.state = blake2s_compress(g.state, g.buffer, g.lo, g.hi, FALSE),
                  !.buffer = <<>>]

(* A turn that compresses as soon as the buffer is full. *)
UpdateTurn_eager(h, data) ==
    LET n == IF Len(data) < BlockLen - Len(h.buffer) THEN Len(data)
             ELSE BlockLen - Len(h.buffer)
        g == [h EXCEPT !.buffer = @ \o SubSeq(data, 1, n)]
    IN  <<IF Len(g.buffer) = BlockLen THEN Compress(g) ELSE g,
          SubSeq(data, n + 1, Len(data))>>

(* A turn of the loop of blake2s_update: the hasher, and the data left.    *)
UpdateTurn(h, data) ==
    LET g == IF Len(h.buffer) = BlockLen THEN Compress(h) ELSE h
        room == BlockLen - Len(g.buffer)
        n == IF Len(data) < room THEN Len(data) ELSE room
    IN  <<[g EXCEPT !.buffer = @ \o SubSeq(data, 1, n)], SubSeq(data, n + 1, Len(data))>>

blake2s_update(h, data) ==
    LET turn[k \in 0..Len(data)] ==
          IF k = 0 THEN <<h, data>>
          ELSE LET t == turn[k - 1]
               IN  IF t[2] = <<>> THEN t ELSE UpdateTurn(t[1], t[2])
    IN  turn[Len(data)][1]

(* Without a key, key is <<>>. *)
blake2s_init(key) ==
    LET h == [state |-> <<>>, keyed |-> Len(key), lo |-> 0, hi |-> 0, buffer |-> <<>>]
    IN  IF key = <<>> THEN h ELSE blake2s_update(h, Padded(key))

(* The hash, as a term. *)
blake2s_finish(h) ==
    LET g == CountAdd(h, Len(h.buffer))
    IN  [keyed |-> h.keyed,
         state |-> blake2s_compress(g.state, Padded(h.buffer), g.lo, g.hi, TRUE)]

blake2s_hash(key, data) == blake2s_finish(blake2s_update(blake2s_init(key), data))

(* blake2b_hash, which is given all its data at once.                      *)
blake2b_hash(key, data) ==
    LET start  == [state |-> <<>>, lo |-> 0, hi |-> 0]
        Next1(h, block, n, final) ==
            LET g == CountAdd(h, n)
            IN  [g EXCEPT !.state = blake2s_compress(g.state, block, g.lo, g.hi, final)]
        first  == IF key # <<>> THEN Next1(start, Padded(key), BlockLen, data = <<>>)
                  ELSE IF data = <<>> THEN Next1(start, Padded(<<>>), 0, TRUE)
                  ELSE start
        Upto(k) == IF k * BlockLen < Len(data) THEN k * BlockLen ELSE Len(data)
        blocks == CHOOSE n \in 0..Len(data) : Upto(n) = Len(data) /\ (n = 0 \/ Upto(n - 1) < Len(data))
        turn[k \in 0..blocks] ==
            IF k = 0 THEN first
            ELSE LET chunk == SubSeq(data, Upto(k - 1) + 1, Upto(k))
                 IN  Next1(turn[k - 1], Padded(chunk), Len(chunk), Upto(k) = Len(data))
    IN  [keyed |-> Len(key), state |-> turn[blocks].state]
-----------------------------------------------------------------------------
(* ChaCha20.                                                               *)

(* The two halves of the block function, with a zero nonce. *)
Half(which, key, count) == [half |-> which, key |-> key, count |-> count]

(* The whole blocks that chacha20_keystream makes for len bytes. *)
chacha20_keystream(key, len) ==
    LET blocks == (len + BlockLen - 1) \div BlockLen
    IN  [i \in 1..blocks |-> [key |-> key, count |-> (i - 1) % Word]]
-----------------------------------------------------------------------------
entropy_pool_credit(bits) ==
    /\ hashes = {}
    /\ global_entropy_estimate + bits <= MaxCredit
    /\ global_entropy_estimate' = global_entropy_estimate + bits
    /\ UNCHANGED <<entropy_pool, rng, seeds, mixed, mixedAt, creditAt, creditDrawn, drawn,
                   draws, hashes>>

entropy_pool_mix(len) ==
    /\ hashes = {}
    /\ mixed + len <= MaxBytes
    /\ entropy_pool' = blake2s_update(entropy_pool, Bytes(mixed, len))
    /\ mixed' = mixed + len
    /\ UNCHANGED <<global_entropy_estimate, rng, seeds, mixedAt, creditAt, creditDrawn,
                   drawn, draws, hashes>>

(* The generator is not seeded again when the first entropy comes. *)
ShouldReinit_late ==
    ~rng.inited \/ global_entropy_estimate - rng.entropy_estimate > Threshold

(* should_reinit; the estimate never falls, so the difference is not       *)
(* negative.                                                               *)
ShouldReinit ==
    \/ ~rng.inited
    \/ rng.entropy_estimate = 0 /\ global_entropy_estimate # 0
    \/ global_entropy_estimate - rng.entropy_estimate > Threshold

(* The key of KeyLen bytes that is a hash or a half of a block. *)
KeyOf(term) == [i \in 1..KeyLen |-> <<"key", term, i>>]

(* The pool starts over without a key. *)
Rekey_unkeyed(seed) == blake2s_init(<<>>)

(* What the pool becomes when the seed was drawn from it. *)
Rekey(seed) == blake2s_init(KeyOf(seed))

(* ensure_hart_local_rng: the generator that rng_getrandom then uses, and  *)
(* the pool.                                                               *)
ensure_hart_local_rng ==
    IF ShouldReinit
    THEN LET seed == blake2s_finish(entropy_pool)
         IN  [rng  |-> [state |-> seed, inited |-> TRUE,
                        entropy_estimate |-> global_entropy_estimate % Estimate63],
              pool |-> Rekey(seed)]
    ELSE [rng |-> rng, pool |-> entropy_pool]

(* rng_getrandom that does not replace the state. *)
NextState_same(state) == state

(* The state that the lower half of the block replaces. *)
NextState(state) == Half("lo", state, 0)

(* getrandom(buf, len), and so random, random_u32 and random_u64. *)
getrandom(len) ==
    /\ draws < MaxDraws
    /\ LET ensured == ensure_hart_local_rng
           state   == ensured.rng.state
       IN  /\ rng' = [ensured.rng EXCEPT !.state = NextState(state)]
           /\ entropy_pool' = ensured.pool
           /\ drawn' = drawn \o chacha20_keystream(Half("hi", state, 0), len)
           /\ IF ShouldReinit
              THEN /\ seeds' = Append(seeds, state)
                   /\ mixedAt' = mixed /\ creditAt' = global_entropy_estimate
              ELSE UNCHANGED <<seeds, mixedAt, creditAt>>
           /\ creditDrawn' = global_entropy_estimate
    /\ draws' = draws + 1
    /\ UNCHANGED <<global_entropy_estimate, mixed, hashes>>

(* The self-tests of rfc7693.c, which hash data of several lengths, with   *)
(* and without a key.  They are the last thing that main does.             *)
SelfTests ==
    /\ draws = MaxDraws /\ mixed = MaxBytes
    /\ hashes' = {[key |-> key, data |-> data, s |-> blake2s_hash(key, data),
                   b |-> blake2b_hash(key, data)] :
                  key \in {<<>>, Bytes(0, KeyLen)}, data \in {Bytes(0, n) : n \in 0..MaxBytes}}
    /\ UNCHANGED <<entropy_pool, global_entropy_estimate, rng, seeds, mixed, mixedAt,
                   creditAt, creditDrawn, drawn, draws>>

(* What main does first: entropy_pool_init, arch_entropy_pool_seed_early,  *)
(* which mixes in the two counters without any credit, and                 *)
(* init_boothart_hart_locals.                                              *)
Init ==
    /\ entropy_pool = blake2s_update(blake2s_init(<<>>), Bytes(0, 2))
    /\ mixed = 2
    /\ global_entropy_estimate = 0
    /\ rng = [state |-> NULL, inited |-> FALSE, entropy_estimate |-> 0]
    /\ seeds = <<>> /\ mixedAt = 0 /\ creditAt = 0 /\ creditDrawn = 0
    /\ drawn = <<>> /\ draws = 0 /\ hashes = {}

Next == \/ \E bits \in Credits : entropy_pool_credit(bits)
        \/ \E len \in MixLens : entropy_pool_mix(len)
        \/ \E len \in Lens : getrandom(len)
        \/ SelfTests

Spec == Init /\ [][Next]_vars
-----------------------------------------------------------------------------
(* RFC 7693: the input is the key, padded to a block, and the data; every  *)
(* block is compressed with the number of bytes up to its end, and the     *)
(* last, which is empty only when the input is, as the final one.          *)
Reference(key, data) ==
    LET input  == (IF key = <<>> THEN <<>> ELSE Padded(key)) \o data
        blocks == IF input = <<>> THEN 1 ELSE (Len(input) + BlockLen - 1) \div BlockLen
        Upto(k) == IF k < blocks THEN k * BlockLen ELSE Len(input)
    IN  [keyed |-> Len(key),
         state |-> [k \in 1..blocks |->
                       Compression(Padded(SubSeq(input, (k - 1) * BlockLen + 1, Upto(k))),
                                   Upto(k) % Word, Upto(k) \div Word, k = blocks)]]

(* However the bytes are divided among the calls of entropy_pool_mix, and  *)
(* whenever the generator is seeded, the pool is the BLAKE2s state for the *)
(* last seed as the key and all the bytes since; blake2s_hash and          *)
(* blake2b_hash give the same.                                             *)
HashesAreRight ==
    /\ blake2s_finish(entropy_pool)
       = Reference(IF seeds = <<>> THEN <<>> ELSE KeyOf(Last(seeds)),
                   Bytes(mixedAt, mixed - mixedAt))
    /\ \A h \in hashes : h.s = Reference(h.key, h.data) /\ h.b = h.s

(* The bytes that a seed was made from, those of the seed before included. *)
BytesIn(term) ==
    LET blocks(t) == UNION {Range(c.block) : c \in Range(t.state)}
        TermsOf(ts) == {b[2] : b \in {x \in UNION {blocks(t) : t \in ts} : x[1] = "key"}}
        chain[k \in 0..Len(seeds)] ==
            IF k = 0 THEN {term} ELSE LET c == chain[k - 1] IN c \cup TermsOf(c)
    IN  {b[2] : b \in {x \in UNION {blocks(t) : t \in chain[Len(seeds)]} : x[1] = "byte"}}

(* "See if the global heap's entropy estimate is more than 256 bits        *)
(* 'ahead' of the one the local heap was initialized with" (random.c:88):  *)
(* no more than 256 credited bits lie between the last draw and the seed   *)
(* that served it, which holds every byte mixed in up to the last reseed,  *)
(* by way of the seeds before it, and is not from before the first credit. *)
DrawsAreSeeded ==
    seeds # <<>> =>
    /\ 1..mixedAt \subseteq BytesIn(Last(seeds))
    /\ creditDrawn - creditAt <= Threshold
    /\ creditDrawn > 0 => creditAt > 0

(* What the comments at lines 29 and 54 of random.c say instead: reseeded  *)
(* "for every 256 bits", "every time an additional 256 bits of entropy are *)
(* gathered".  The test is for more than 256 (line 95), so that a draw can *)
(* have exactly 256 bits behind it and be served by the old seed.          *)
ReseededAtThreshold ==
    seeds # <<>> => creditDrawn - creditAt < Threshold

(* No block of the keystream is handed out twice, whatever happens between *)
(* the calls, and the seeds, which are keys of the pool too, are all       *)
(* different.                                                              *)
NothingIsDrawnTwice ==
    /\ IsInjective(drawn) /\ IsInjective(seeds)
    /\ \A i \in DOMAIN drawn : drawn[i].key.key # rng.state

(* What NothingIsDrawnTwice needs of the callers, since getrandom does not *)
(* test it: no draw is so long that the counter of the blocks, which has   *)
(* one word, comes round (2^32 blocks of 64 bytes).                        *)
ShortDraws == \A len \in Lens : len <= BlockLen * Word
=============================================================================
