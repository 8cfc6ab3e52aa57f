--------------------------- MODULE TimelockPuzzle ---------------------------
(***************************************************************************)
(* Time-lock puzzles, as clients make them and the auction server solves    *)
(* them.  Who makes a puzzle knows the primes and finds b = a^(2^t) with     *)
(* two exponentiations; who solves it squares t times.  The key is hidden    *)
(* by adding it to b, bit by bit, and the message is encrypted under it.     *)
(*                                                                         *)
(* A key is a sequence of bytes, and big.Int, through which it passes, keeps *)
(* no leading zeros.  The schemes are the ciphers that the message may be    *)
(* encrypted with; "sha" is AES under the last of t hashes.  The ciphers are *)
(* external: a ciphertext is the key it was made with, and opens under no    *)
(* other.                                                                  *)
(***************************************************************************)
EXTENDS Integers, Sequences

CONSTANTS Primes,   \* what rsa.GenerateMultiPrimeKey may find
          Times,    \* how many steps a puzzle may take
          Base,     \* number of values of a byte (256 in the code)
          KeySize   \* bytes of a key (16; 32 for ecies)

ASSUME TimelockPuzzleAssumption ==
    /\ Primes \subseteq Nat \ {0, 1, 2}
    /\ \A p \in Primes : \A d \in 2..(p - 1) : p % d # 0
    /\ Times \subseteq Nat
    /\ {Base, KeySize} \subseteq Nat \ {0, 1}

VARIABLES scheme,
          timelock,    \* TimelockRSW or HashTimelock: primes, t and the key
          message,     \* "fits" or "unfit"
          phase,       \* "setup", "refused", "solving" or "solved"
          puzzle,      \* PuzzleRSW, or the hash time lock itself
          answer,      \* what SetupTimelockPuzzle returned besides the puzzle
          ciphertext,  \* the key that the message is encrypted with
          x,           \* what the solver has got to
          steps,       \* how many steps it took
          solution,    \* the key it found
          outcome      \* what it read: "message", "garbage", "error" or "none"

vars == <<scheme, timelock, message, phase, puzzle, answer, ciphertext, x, steps, solution, outcome>>

-----------------------------------------------------------------------------
(* big.Int: SetBytes and Bytes, which is empty for 0, Exp and Xor.           *)
Value(bytes) ==
    LET v[i \in 0..Len(bytes)] == IF i = 0 THEN 0 ELSE v[i - 1] * Base + bytes[i]
    IN  v[Len(bytes)]

Bytes(n) ==
    LET b[i \in 0..n] == IF i = 0 THEN <<>> ELSE Append(b[i \div Base], i % Base)
    IN  b[n]

Exp(b, e, m) ==
    LET p[i \in 0..e] == IF i = 0 THEN 1 % m ELSE (p[i - 1] * b) % m
    IN  p[e]

Xor(m, n) ==
    LET f[z \in (0..(m + n)) \X (0..(m + n))] ==
            IF z = <<0, 0>> THEN 0
            ELSE 2 * f[<<z[1] \div 2, z[2] \div 2>>] + ((z[1] + z[2]) % 2)
    IN  f[<<m, n>>]

(* The methods of TimelockRSW.                                              *)
A == 2
N(tl) == tl.p * tl.q

(* Mistake: phi of a prime.                                                 *)
PhiOfPrime(tl) == N(tl) - 1

Phi(tl) == (tl.p - 1) * (tl.q - 1)
E(tl) == Exp(2, tl.t, Phi(tl))
B(tl) == Exp(A, E(tl), N(tl))
CkXOR(tl) == Xor(B(tl), Value(tl.key))

(* A digest is named by what was hashed how often: first, the seed itself.    *)
Digest(seed, n) == [seed |-> seed, hashes |-> n]

SetupRSW(tl) ==
    [puzzle |-> [n |-> N(tl), a |-> A, t |-> tl.t, ck |-> CkXOR(tl)],
     answer |-> Bytes(Xor(CkXOR(tl), B(tl)))]

SetupHash(tl) ==
    [puzzle |-> [seed |-> tl.key, t |-> tl.t], answer |-> Digest(tl.key, tl.t)]

SetupTimelockPuzzle(tl) == IF scheme = "sha" THEN SetupHash(tl) ELSE SetupRSW(tl)

(* What rc5.New, aes.NewCipher and ToECDSA ask of a key; a digest has the size *)
(* of a longer AES key.  An RSA key carries its own length.                   *)
RightSize(key) == scheme \in {"sha", "rsa"} \/ Len(key) = KeySize

-----------------------------------------------------------------------------
Keys == [1..KeySize -> 0..(Base - 1)]

(* Two different primes, a random key; an RSA key's encoding starts with the  *)
(* byte of a sequence.  The block ciphers ask for a block of message at least, *)
(* and RSA for less than the modulus.                                        *)
Init ==
    /\ scheme \in {"rc5", "rc6", "aes", "sha", "rsa", "ecies"}
    /\ timelock \in [p : Primes, q : Primes, t : Times, key : Keys]
    /\ timelock.p # timelock.q
    /\ scheme = "rsa" => timelock.key[1] # 0
    /\ message \in IF scheme = "ecies" THEN {"fits"} ELSE {"fits", "unfit"}
    /\ phase = "setup"
    /\ puzzle = [t |-> 0]
    /\ answer = <<>>
    /\ ciphertext = <<>>
    /\ x = 0
    /\ steps = 0
    /\ solution = <<>>
    /\ outcome = "none"

(* A puzzle comes with the message encrypted under the key, or there is an     *)
(* error because the cipher refuses the key or the message.                  *)
Encrypt(made, key) ==
    /\ phase = "setup"
    /\ puzzle' = made.puzzle
    /\ answer' = made.answer
    /\ IF RightSize(key) /\ message = "fits"
       THEN /\ ciphertext' = key
            /\ phase' = "solving"
            /\ x' = IF scheme = "sha" THEN Digest(timelock.key, 0) ELSE A
       ELSE /\ phase' = "refused"
            /\ UNCHANGED <<ciphertext, x>>
    /\ UNCHANGED <<scheme, timelock, message, steps, solution, outcome>>

(* Mistake: encrypting with the key that was drawn.                          *)
CreatePuzzleRC5Drawn == scheme = "rc5" /\ Encrypt(SetupTimelockPuzzle(timelock), timelock.key)

(* With the block ciphers the answer takes the place of the key that was       *)
(* drawn; the asymmetric ones have no use for it.                            *)
CreatePuzzleRC5 ==
    LET made == SetupTimelockPuzzle(timelock) IN scheme = "rc5" /\ Encrypt(made, made.answer)
CreatePuzzleRC6 ==
    LET made == SetupTimelockPuzzle(timelock) IN scheme = "rc6" /\ Encrypt(made, made.answer)
CreatePuzzleAES ==
    LET made == SetupTimelockPuzzle(timelock) IN scheme \in {"aes", "sha"} /\ Encrypt(made, made.answer)
CreatePuzzleRSA == scheme = "rsa" /\ Encrypt(SetupTimelockPuzzle(timelock), timelock.key)
CreatePuzzleECIES == scheme = "ecies" /\ Encrypt(SetupTimelockPuzzle(timelock), timelock.key)

(* One squaring, or one hash.                                               *)
Step == IF scheme = "sha" THEN Digest(x.seed, x.hashes + 1) ELSE (x * x) % puzzle.n

Iterate ==
    /\ phase = "solving"
    /\ steps < puzzle.t
    /\ x' = Step
    /\ steps' = steps + 1
    /\ UNCHANGED <<scheme, timelock, message, phase, puzzle, answer, ciphertext, solution, outcome>>

Solve == IF scheme = "sha" THEN x ELSE Bytes(Xor(puzzle.ck, x))

(* Once Solve returns, the cipher is made with its result.                   *)
Decrypt ==
    /\ phase = "solving"
    /\ steps = puzzle.t
    /\ solution' = Solve
    /\ outcome' = IF ~RightSize(Solve) THEN "error"
                  ELSE IF Solve = ciphertext THEN "message" ELSE "garbage"
    /\ phase' = "solved"
    /\ UNCHANGED <<scheme, timelock, message, puzzle, answer, ciphertext, x, steps>>

SolvePuzzleRC5 == scheme = "rc5" /\ Decrypt
SolvePuzzleRC6 == scheme = "rc6" /\ Decrypt
SolvePuzzleAES == scheme \in {"aes", "sha"} /\ Decrypt
SolvePuzzleRSA == scheme = "rsa" /\ Decrypt
SolvePuzzleECIES == scheme = "ecies" /\ Decrypt

Next ==
    \/ CreatePuzzleRC5 \/ CreatePuzzleRC6 \/ CreatePuzzleAES \/ CreatePuzzleRSA \/ CreatePuzzleECIES
    \/ Iterate
    \/ SolvePuzzleRC5 \/ SolvePuzzleRC6 \/ SolvePuzzleAES \/ SolvePuzzleRSA \/ SolvePuzzleECIES

Spec == Init /\ [][Next]_vars

-----------------------------------------------------------------------------
(* "It should return the same answer that was the result of                   *)
(* SetupTimelockPuzzle": squaring t times comes to what the exponentiations    *)
(* with phi came to, for every pair of primes, number of steps and key.        *)
SameAnswer == phase = "solved" => solution = answer

(* A puzzle that could be made opens, also if its key starts with a zero byte: *)
(* the block ciphers refuse such a key when the puzzle is made.  The one        *)
(* exception is ecies, which encrypts with the whole key and is not given the   *)
(* zero back.                                                                 *)
MessageRecovered ==
    phase = "solved" => outcome = "message" \/ (scheme = "ecies" /\ timelock.key[1] = 0)
=============================================================================
