----------------------------- MODULE CryptoTests ------------------------------
(***************************************************************************)
(* The test programs of the CC2538's two engines: the cryptoprocessor and  *)
(* the public key accelerator.  Each is a process that starts an operation *)
(* and waits for the poll of its interrupt.                                *)
(***************************************************************************)
EXTENDS Integers, Sequences

(***************************************************************************)
(* The test programs of the CC2538's cryptoprocessor                       *)
(* (examples/platform-specific/cc2538-common/crypto): a process takes the  *)
(* vectors of its table one by one, fills the key store when the key size  *)
(* changes, starts the operation and waits for the interrupt's poll.  An   *)
(* encryption and a decryption go through the same steps; the data of a    *)
(* vector is left out, what its table says of the keys is not.             *)
(***************************************************************************)

VARIABLES
  suite,           \* the test program
  cryptoAt,        \* where its process is
  vector,          \* i, counted from 1
  key_size_index,  \* -1 before the first vector
  store,           \* key store: the size of its keys and the areas where one starts
  engine,          \* "off", "idle", "busy", or "done" until the result is fetched
  polled,          \* the process has been polled by the interrupt
  operand,         \* mdata: of which vector, and whether it went in, came out or is junk
  hashed,          \* buffers of the vector in the hash, or -1
  outcomes         \* history: vectors that have a verdict or an error message

cryptoVars ==
  <<suite, cryptoAt, vector, key_size_index, store, engine, polled, operand, hashed, outcomes>>

(***************************************************************************)
(* The tables                                                              *)
(***************************************************************************)

\* Vectors with keys of 128, 192 or 256 bits (0, 1, 2) and the areas their keys are in.
WithKeys(index, areas) == [k \in DOMAIN areas |-> [size |-> index, area |-> areas[k]]]
Eight == <<0, 1, 2, 3, 4, 5, 6, 7>>
Even == <<0, 2, 4, 6>>

Ccm128 == WithKeys(0, <<0, 1, 0, 0, 1, 0>>)
Ccm192 == WithKeys(1, Even \o Even)
Ccm256 == WithKeys(2, Even \o Even)
Gcm128 == WithKeys(0, Eight)
Gcm192 == WithKeys(1, Even)
Gcm256 == WithKeys(2, Even)
Cbc128Encrypted == WithKeys(0, SubSeq(Eight, 1, 4))
Cbc128Decrypted == WithKeys(0, SubSeq(Eight, 5, 8))
Cbc192 == WithKeys(1, Even)
Cbc256 == WithKeys(2, Even)
CbcMac128 == WithKeys(0, Eight)
CbcMac192 == WithKeys(1, Even)
CbcMac256 == WithKeys(2, Even)
Ecb128Encrypted == WithKeys(0, SubSeq(Eight, 1, 4))
Ecb128Decrypted == WithKeys(0, SubSeq(Eight, 5, 8))
Ecb192 == WithKeys(1, Even)
Ecb256 == WithKeys(2, Even)
Ctr == WithKeys(0, <<0, 0>>) \o WithKeys(1, <<0, 0>>) \o WithKeys(2, <<0, 0>>)

\* A hash has no key; the vectors come in one or more buffers.
Sha256 == [k \in 1 .. 9 |-> [buffers |-> IF k <= 6 THEN 1 ELSE IF k = 9 THEN 3 ELSE 2]]

Vectors ==
  CASE suite = "ccm"     -> Ccm128 \o Ccm192 \o Ccm256
    [] suite = "gcm"     -> Gcm128 \o Gcm192 \o Gcm256
    [] suite = "cbc"     -> Cbc128Encrypted \o Cbc128Decrypted \o Cbc192 \o Cbc256
    [] suite = "cbc_mac" -> CbcMac128 \o CbcMac192 \o CbcMac256
    [] suite = "ecb"     -> Ecb128Encrypted \o Ecb128Decrypted \o Ecb192 \o Ecb256
    [] suite = "ctr"     -> Ctr
    [] suite = "sha256"  -> Sha256

\* How many keys the tables keys128, keys192 and keys256 of each program have.
CcmKeys    == <<2, 4, 4>>
GcmKeys    == <<8, 4, 4>>
CbcKeys    == <<8, 4, 4>>
CbcMacKeys == <<8, 4, 4>>
EcbKeys    == <<8, 4, 4>>
CtrKeys    == <<1, 1, 1>>

Keys ==
  CASE suite = "ccm"     -> CcmKeys
    [] suite = "gcm"     -> GcmKeys
    [] suite = "cbc"     -> CbcKeys
    [] suite = "cbc_mac" -> CbcMacKeys
    [] suite = "ecb"     -> EcbKeys
    [] suite = "ctr"     -> CtrKeys

KeyCount(index) == Keys[index + 1]

\* The longer keys take two areas each.
Areas(index) == {IF index = 0 THEN k ELSE 2 * k : k \in 0 .. KeyCount(index) - 1}

Hashes == suite = "sha256"
Current == Vectors[vector]

CryptoInit ==
  /\ suite \in {"ccm", "gcm", "cbc", "cbc_mac", "ecb", "ctr", "sha256"}
  /\ cryptoAt = "begin" /\ vector = 1 /\ key_size_index = -1
  /\ store = [size |-> -1, areas |-> {}]
  /\ engine = "off" /\ polled = FALSE
  /\ operand = [of |-> 0, is |-> "junk"]
  /\ hashed = -1 /\ outcomes = 0

(***************************************************************************)
(* The process                                                             *)
(***************************************************************************)

crypto_init ==
  /\ cryptoAt = "begin"
  /\ cryptoAt' = "head" /\ engine' = "idle"
  /\ UNCHANGED <<suite, vector, key_size_index, store, polled, operand, hashed, outcomes>>

\* The next iteration, after a verdict or an error message.
NextVector ==
  /\ cryptoAt' = "head" /\ vector' = vector + 1
  /\ outcomes' = outcomes + 1

NeedsKeys == key_size_index # Current.size

\* When the key store cannot be filled the loop ends.
aes_load_keys ==
  /\ cryptoAt = "head" /\ ~ Hashes /\ vector <= Len(Vectors) /\ NeedsKeys
  /\ key_size_index' = Current.size
  /\ \/ /\ store' = [size |-> Current.size, areas |-> Areas(Current.size)]
        /\ cryptoAt' = "start"
     \/ /\ store' = [size |-> Current.size, areas |-> {}]
        /\ cryptoAt' = "disable"
  /\ UNCHANGED <<suite, vector, engine, polled, operand, hashed, outcomes>>

\* Copies the message and starts the operation, which is refused when the engine is in
\* use, the key is not there or an argument is wrong.
crypt_start ==
  /\ ~ Hashes
  /\ cryptoAt = "start" \/ (cryptoAt = "head" /\ vector <= Len(Vectors) /\ ~ NeedsKeys)
  /\ operand' = [of |-> vector, is |-> "in"]
  /\ \/ /\ engine = "idle" /\ Current.area \in store.areas
        /\ engine' = "busy"
        /\ cryptoAt' = "wait"
        /\ UNCHANGED <<vector, outcomes>>
     \/ NextVector /\ UNCHANGED engine
  /\ UNCHANGED <<suite, key_size_index, store, polled, hashed>>

\* The interrupt polls the process; the output replaces the message.
EngineFinishes ==
  /\ engine = "busy"
  /\ engine' = "done" /\ polled' = TRUE
  /\ operand' \in {[operand EXCEPT !.is = "out"], [operand EXCEPT !.is = "junk"]}
  /\ UNCHANGED <<suite, cryptoAt, vector, key_size_index, store, hashed, outcomes>>

Woken == polled /\ engine = "done"

\* check_status, and get_result where there is one: the engine is free, and the vector
\* has failed when there was a bus error or the authentication failed.
get_result ==
  /\ cryptoAt = "wait" /\ Woken
  /\ polled' = FALSE /\ engine' = "idle"
  /\ \/ operand.is = "out" /\ cryptoAt' = "compare" /\ UNCHANGED <<vector, outcomes>>
     \/ NextVector
  /\ UNCHANGED <<suite, key_size_index, store, operand, hashed>>

sha256_init ==
  /\ cryptoAt = "head" /\ Hashes /\ vector <= Len(Vectors)
  /\ \/ cryptoAt' = "hash" /\ hashed' = 0 /\ UNCHANGED <<vector, outcomes>>
     \/ NextVector /\ UNCHANGED hashed
  /\ UNCHANGED <<suite, key_size_index, store, engine, polled, operand>>

\* Hashing is waited for inside the call.
sha256_process ==
  /\ cryptoAt = "hash" /\ hashed < Current.buffers
  /\ \/ hashed' = hashed + 1 /\ UNCHANGED <<cryptoAt, vector, outcomes>>
     \/ NextVector /\ UNCHANGED hashed
  /\ UNCHANGED <<suite, key_size_index, store, engine, polled, operand>>

sha256_done ==
  /\ cryptoAt = "hash" /\ hashed = Current.buffers
  /\ \/ cryptoAt' = "compare" /\ operand' = [of |-> vector, is |-> "out"] /\ UNCHANGED <<vector, outcomes>>
     \/ NextVector /\ UNCHANGED operand
  /\ UNCHANGED <<suite, key_size_index, store, engine, polled, hashed>>

CompareOutput ==
  /\ cryptoAt = "compare"
  /\ NextVector
  /\ UNCHANGED <<suite, key_size_index, store, engine, polled, operand, hashed>>

crypto_disable ==
  /\ cryptoAt = "disable" \/ (cryptoAt = "head" /\ vector > Len(Vectors))
  /\ cryptoAt' = "end" /\ engine' = "off"
  /\ UNCHANGED <<suite, vector, key_size_index, store, polled, operand, hashed, outcomes>>

CryptoNext ==
  \/ crypto_init \/ aes_load_keys \/ crypt_start \/ EngineFinishes \/ get_result
  \/ sha256_init \/ sha256_process \/ sha256_done \/ CompareOutput \/ crypto_disable

(***************************************************************************)
(* Properties                                                              *)
(***************************************************************************)

\* An operation runs with a key of its vector's size, at the vector's area of the store:
\* the order of the tables and the key store agree.
KeyInPlace ==
  engine = "busy" => store.size = Current.size /\ Current.area \in store.areas

\* The buffer is compared when it holds the output of the vector it is compared with, and
\* no operation is using it; of a hash, when all buffers went in.
ComparesOutput ==
  cryptoAt = "compare" =>
    /\ operand = [of |-> vector, is |-> "out"] /\ engine = "idle"
    /\ Hashes => hashed = Current.buffers

\* A process that waits will be polled; the interrupt finds nobody else's poll.
WillBeWoken ==
  /\ cryptoAt = "wait" => (engine = "busy" /\ ~ polled) \/ (engine = "done" /\ polled)
  /\ cryptoAt # "wait" => ~ polled /\ engine \in {"off", "idle"}

\* Every vector has one verdict or error message, unless the key store could not be filled.
OneVerdictEach ==
  /\ cryptoAt \in {"begin", "head", "start", "wait", "hash", "compare"} => outcomes = vector - 1
  /\ cryptoAt = "end" => outcomes = Len(Vectors) \/ store.areas = {}

CryptoSafe == KeyInPlace /\ ComparesOutput /\ WillBeWoken /\ OneVerdictEach

(***************************************************************************)
(* The test programs of the CC2538's public key accelerator                *)
(* (examples/platform-specific/cc2538-common/pka): a Diffie-Hellman        *)
(* exchange of two sides in one process, a signature and a verification.   *)
(* An operation of ecc-algorithm is a protothread of its own, which waits  *)
(* for the accelerator as often as it has to and leaves its result in its  *)
(* state; the test goes on when it has ended.                              *)
(***************************************************************************)

VARIABLES
  pkaTest,      \* the test program
  pkaAt,        \* the operation it is at, counted from 1; 0 before pka_init
  accelerator,  \* "off", "idle" or "busy"
  lessThan,     \* the sides whose secret was found to be less than the curve's order
  compared,     \* the operands of ecc_compare
  point_in,     \* of side_a and side_b: the secrets the curve's point was multiplied with
  point_out,    \* the same, or Unset
  printed,      \* verdicts that were printed: TRUE for a match
  failed        \* history: an operation of the accelerator has failed

pkaVars ==
  <<pkaTest, pkaAt, accelerator, lessThan, compared, point_in, point_out, printed, failed>>

Sides == {"a", "b"}
Unset == {"unset"}
Order == {"order"}

Operations ==
  CASE pkaTest = "ecdh"   -> <<"secret_a", "secret_b", "round_1a", "round_1b", "round_2a", "round_2b", "check">>
    [] pkaTest = "sign"   -> <<"sign", "check_r", "check_s">>
    [] pkaTest = "verify" -> <<"verify">>

Operation == Operations[pkaAt]
Side == IF Operation \in {"secret_a", "round_1a", "round_2a"} THEN "a" ELSE "b"

PkaInit ==
  /\ pkaTest \in {"ecdh", "sign", "verify"}
  /\ pkaAt = 0 /\ accelerator = "off"
  /\ lessThan = {} /\ compared = [a |-> Unset, b |-> Unset]
  /\ point_in = [s \in Sides |-> Unset] /\ point_out = [s \in Sides |-> Unset]
  /\ printed = <<>> /\ failed = FALSE

\* Both sides start from the curve's point; the order stays in the comparison's state.
pka_init ==
  /\ pkaAt = 0
  /\ pkaAt' = 1 /\ accelerator' = "idle"
  /\ compared' = [compared EXCEPT !.b = Order]
  /\ point_in' = [s \in Sides |-> {}]
  /\ UNCHANGED <<pkaTest, lessThan, point_out, printed, failed>>

\* PT_SPAWN: what is to be compared is copied into the state before.
Spawn ==
  /\ pkaAt \in DOMAIN Operations /\ accelerator = "idle"
  /\ accelerator' = "busy"
  /\ compared' = CASE Operation \in {"secret_a", "secret_b"} -> [compared EXCEPT !.a = {Operation}]
                   [] Operation = "check" -> point_out
                   [] OTHER -> compared
  /\ UNCHANGED <<pkaTest, pkaAt, lessThan, point_in, point_out, printed, failed>>

PublicKeys == point_out

\* Multiplies the side's point by its secret, or fails, which is only printed.  After the
\* first round each side gets what the other one has computed.
ecc_multiply ==
  /\ accelerator = "busy" /\ Operation \in {"round_1a", "round_1b", "round_2a", "round_2b"}
  /\ \/ /\ point_out' = [point_out EXCEPT ![Side] =
                           IF point_in[Side] = Unset THEN Unset ELSE point_in[Side] \cup {Side}]
        /\ UNCHANGED failed
     \/ failed' = TRUE /\ UNCHANGED point_out
  /\ point_in' = IF Operation = "round_1b" THEN [a |-> PublicKeys'["b"], b |-> PublicKeys'["a"]] ELSE point_in
  /\ accelerator' = "idle" /\ pkaAt' = pkaAt + 1
  /\ UNCHANGED <<pkaTest, lessThan, compared, printed>>

\* A new secret is drawn until it is less than the order.
SecretCompared ==
  /\ accelerator = "busy" /\ Operation \in {"secret_a", "secret_b"}
  /\ \/ lessThan' = lessThan \cup {Side} /\ pkaAt' = pkaAt + 1 /\ UNCHANGED failed
     \/ UNCHANGED <<lessThan, pkaAt, failed>>
     \/ failed' = TRUE /\ UNCHANGED <<lessThan, pkaAt>>
  /\ accelerator' = "idle"
  /\ UNCHANGED <<pkaTest, compared, point_in, point_out, printed>>

\* The last comparisons, the signature and its verification: a verdict is printed.
Judged ==
  /\ accelerator = "busy" /\ Operation \in {"check", "check_r", "check_s", "verify"}
  /\ \/ printed' = Append(printed, IF Operation = "check" THEN compared.a = compared.b ELSE ~ failed) /\ UNCHANGED failed
     \/ printed' = Append(printed, FALSE) /\ failed' = TRUE
  /\ accelerator' = "idle" /\ pkaAt' = pkaAt + 1
  /\ UNCHANGED <<pkaTest, lessThan, compared, point_in, point_out>>

ecc_dsa_sign ==
  /\ accelerator = "busy" /\ Operation = "sign"
  /\ failed' \in BOOLEAN
  /\ accelerator' = "idle" /\ pkaAt' = pkaAt + 1
  /\ UNCHANGED <<pkaTest, lessThan, compared, point_in, point_out, printed>>

pka_disable ==
  /\ pkaAt = Len(Operations) + 1 /\ accelerator = "idle"
  /\ accelerator' = "off"
  /\ UNCHANGED <<pkaTest, pkaAt, lessThan, compared, point_in, point_out, printed, failed>>

PkaNext ==
  \/ pka_init \/ Spawn \/ ecc_multiply \/ SecretCompared \/ Judged \/ ecc_dsa_sign \/ pka_disable

(***************************************************************************)
(* Properties                                                              *)
(***************************************************************************)

\* Secrets are compared with the order, whatever was compared before, and no point is
\* multiplied before both secrets are known to be less.
SecretsAreValid ==
  /\ accelerator = "busy" /\ Operation \in {"secret_a", "secret_b"} => compared.b = Order
  /\ \A s \in Sides : point_out[s] # Unset => lessThan = Sides

\* What the sides agree on is made of both secrets; without a failure they agree.
SecretIsShared ==
  /\ pkaAt = 8 /\ accelerator = "off" /\ ~ failed =>
       printed = <<TRUE>> /\ point_out = [s \in Sides |-> Sides]
  /\ pkaTest = "ecdh" /\ printed = <<TRUE>> =>
       point_out["a"] = point_out["b"] /\ point_out["a"] \in {Sides, Unset}
===============================================================================
