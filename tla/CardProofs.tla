----------------------------- MODULE CardProofs -----------------------------
(***************************************************************************)
(* The cryptography of poker_protocol: ElGamal ciphertexts and the proofs  *)
(* that travel with them, computed in the integers modulo a prime Q with   *)
(* addition, a group whose generator is any number but 0 (here 3) and      *)
(* where a scalar multiplication is a product: what an honest prover sends *)
(* and what a verifier recomputes are the same linear combinations as on   *)
(* the curve.  Nothing is said of how hard it is to forge a proof, which   *)
(* such a group cannot show.                                               *)
(*                                                                         *)
(* A transcript is the running state of the Fiat-Shamir hash.  The labels  *)
(* are constant bytes, the same on both sides, and are left out; what is   *)
(* kept is which values are hashed, and in which order.  A random scalar   *)
(* is a fixed function of who draws it and for what.                       *)
(***************************************************************************)
EXTENDS Integers, Sequences

CONSTANT Q      \* the order of the group
ASSUME QAssumption == Q \in Nat /\ Q > 3

G == 3
Identity == 0

Add(a, b) == (a + b) % Q
Sub(a, b) == (a - b) % Q
Mul(a, b) == (a * b) % Q

SumOf(s) ==
    LET sum[low, high \in 1..Len(s)] ==
            LET middle == (low + high) \div 2
            IN  IF low = high THEN s[low] % Q
                ELSE Add(sum[low, middle], sum[middle + 1, high])
    IN  IF s = <<>> THEN 0 ELSE sum[1, Len(s)]

Each(s, Op(_)) == [i \in 1..Len(s) |-> Op(s[i])]

\* vartime_multiscalar_mul
Combine(scalars, points) ==
    SumOf([i \in 1..Len(points) |-> Mul(scalars[i], points[i])])

Random(seed, i) == 1 + ((seed * 6997 + i * 31013 + 1213) % (Q - 1))

Randoms(seed, n) == [i \in 1..n |-> Random(seed, i)]

-----------------------------------------------------------------------------
(* Ciphertexts.                                                            *)

Encrypt(m, pk, r) == [c1 |-> Mul(G, r), c2 |-> Add(m, Mul(pk, r))]
Decrypt(ct, sk) == Sub(ct.c2, Mul(ct.c1, sk))
ReEncrypt(ct, pk, r) == [c1 |-> Add(ct.c1, Mul(G, r)), c2 |-> Add(ct.c2, Mul(pk, r))]
Valid(ct) == ct.c1 # Identity /\ ct.c2 # Identity
Token(ct, sk) == Mul(ct.c1, sk)

\* remask_ciphertext and leave_ciphertext; both refuse a blank c1.
Remask(ct, sk) == [ct EXCEPT !.c2 = Add(@, Token(ct, sk))]
Unmask(ct, sk) == [ct EXCEPT !.c2 = Sub(@, Token(ct, sk))]
Maskable(cts) == \A i \in 1..Len(cts) : cts[i].c1 # Identity

C1s(cts) == Each(cts, LAMBDA ct : ct.c1)
C2s(cts) == Each(cts, LAMBDA ct : ct.c2)
Flatten(cts) == [i \in 1..(2 * Len(cts)) |->
                    IF i % 2 = 1 THEN cts[(i + 1) \div 2].c1 ELSE cts[i \div 2].c2]

-----------------------------------------------------------------------------
(* The transcript.                                                         *)

Append1(t, x) == (t * 31 + x + 7) % Q

\* Where a value stands among those appended counts.
AppendAll(t, xs) ==
    Append1(t, SumOf([i \in 1..Len(xs) |-> Mul((i * 7919 + 13) % Q, xs[i])]))

\* challenge: the state moves on and its hash is the scalar.
Drawn(t) == Append1(t, 1)
Scalar(t) == (Drawn(t) * 1789 + 331) % Q
Draw(t) == [scalar |-> Scalar(t), t |-> Drawn(t)]

ChallengeVec(t, n) ==
    LET state[i \in 0..n] == IF i = 0 THEN t ELSE Drawn(Append1(state[i - 1], i - 1))
    IN  [scalars |-> [i \in 1..n |-> Scalar(Append1(state[i - 1], i - 1))],
         t |-> state[n]]

\* A prover that gives up, and a verifier's answer.
Refused == [ok |-> FALSE]
Verdict(ok, t) == [ok |-> ok, t |-> t]

-----------------------------------------------------------------------------
(* PKOwnershipProof.                                                       *)

ProvePk(sk, pk, seed) ==
    LET w == Random(seed, 1)
        commitment == Mul(G, w)
        c == Scalar(AppendAll(0, <<G, pk, commitment>>))
    IN  [commitment |-> commitment, response |-> Add(w, Mul(c, sk))]

VerifyPk(proof, pk) ==
    LET c == Scalar(AppendAll(0, <<G, pk, proof.commitment>>))
    IN  /\ pk # Identity \/ proof.commitment # Identity
        /\ Mul(G, proof.response) = Add(proof.commitment, Mul(pk, c))

-----------------------------------------------------------------------------
(* DLEqProof: one secret turned every card of a deck.                      *)

\* compute_d2: what the secret put on a card, or took off it.
D2(kind, input, output) ==
    [i \in 1..Len(input) |-> IF kind = "Remask" THEN Sub(output[i].c2, input[i].c2)
                             ELSE Sub(input[i].c2, output[i].c2)]

\* append_dleq_context
DLEqContext(t, kind, input, output, pk, proof) ==
    AppendAll(t, <<pk>> \o Flatten(input) \o Flatten(output) \o proof.perCard
                 \o <<proof.commitment>> \o D2(kind, input, output) \o <<proof.nonce>>)

ProveDLEq(kind, input, output, sk, pk, t, seed) ==
    LET omega == Random(seed, 1)
        blank == [perCard |-> Each(input, LAMBDA ct : Mul(ct.c1, omega)),
                  commitment |-> Mul(G, omega), nonce |-> Random(seed, 2)]
        proof(drawn) == [ok |-> TRUE, t |-> drawn.t, perCard |-> blank.perCard,
                         commitment |-> blank.commitment, nonce |-> blank.nonce,
                         response |-> Add(omega, Mul(drawn.scalar, sk))]
    IN  proof(Draw(DLEqContext(t, kind, input, output, pk, blank)))

VerifyDLEq(kind, proof, input, output, pk, t) ==
    LET n == Len(proof.perCard)
        d2 == D2(kind, input, output)
        context == DLEqContext(t, kind, input, output, pk, proof)
        c == Scalar(context)
    IN  Verdict(/\ n # 0 /\ n = Len(input) /\ n = Len(output)
                /\ pk # Identity
                /\ \A i \in 1..n : /\ Valid(input[i])
                                   /\ kind = "Remask" => Valid(output[i])
                                   /\ input[i].c1 = output[i].c1
                /\ proof.commitment # Identity
                /\ Mul(G, proof.response) = Add(proof.commitment, Mul(pk, c))
                /\ \A i \in 1..n : Mul(input[i].c1, proof.response) =
                                       Add(proof.perCard[i], Mul(d2[i], c)),
                Drawn(context))

-----------------------------------------------------------------------------
(* RevealTokenProof: the token of a card comes from its sender's secret.   *)

RevealContext(t, pk, ct, token, proof) ==
    AppendAll(t, <<proof.nonce, pk, ct.c1, ct.c2, token, proof.t1, proof.t2>>)

ProveReveal(sk, pk, ct, t, seed) ==
    LET omega == Random(seed, 1)
        blank == [nonce |-> Random(seed, 2), t1 |-> Mul(G, omega), t2 |-> Mul(ct.c1, omega)]
        c == Scalar(RevealContext(t, pk, ct, Token(ct, sk), blank))
    IN  [pk |-> pk, nonce |-> blank.nonce, t1 |-> blank.t1, t2 |-> blank.t2,
         response |-> Add(omega, Mul(c, sk))]

VerifyReveal(proof, ct, token, pk, t) ==
    LET c == Scalar(RevealContext(t, proof.pk, ct, token, proof))
    IN  /\ Valid(ct)
        /\ token # Identity
        /\ proof.pk = pk
        /\ proof.t1 # Identity /\ proof.t2 # Identity
        /\ Mul(G, proof.response) = Add(proof.t1, Mul(pk, c))
        /\ Mul(ct.c1, proof.response) = Add(proof.t2, Mul(token, c))

-----------------------------------------------------------------------------
(* GeneralizedSchnorrProof: a point is a known combination of others.      *)

SchnorrContext(t, bases, R, commitment) ==
    AppendAll(t, <<Len(bases)>> \o bases \o <<R, commitment>>)

ProveSchnorr(bases, secrets, R, t, seed) ==
    LET r == Randoms(seed, Len(bases))
        commitment == Combine(r, bases)
        proof(drawn) ==
            [ok |-> TRUE, t |-> drawn.t, commitment |-> commitment,
             responses |-> [i \in 1..Len(bases) |-> Add(r[i], Mul(drawn.scalar, secrets[i]))]]
    IN  IF \/ Len(secrets) # Len(bases) \/ R = Identity \/ commitment = Identity
           \/ \E i \in 1..Len(bases) : bases[i] = Identity
        THEN Refused
        ELSE proof(Draw(SchnorrContext(t, bases, R, commitment)))

VerifySchnorr(proof, bases, R, t) ==
    LET context == SchnorrContext(t, bases, R, proof.commitment)
        c == Scalar(context)
    IN  Verdict(/\ Len(proof.responses) = Len(bases)
                /\ R # Identity /\ proof.commitment # Identity
                /\ \A i \in 1..Len(bases) : bases[i] # Identity
                /\ Combine(proof.responses, bases) = Add(proof.commitment, Mul(R, c)),
                Drawn(context))

\* Three of them in a row bind the two halves of a list of cards to one list
\* of secrets: both halves together, then each half alone.
Doubled(s) == [i \in 1..(2 * Len(s)) |-> s[(i + 1) \div 2]]

ProveHalves(cts, secrets, R1, R2, t, seed) ==
    LET all(both, first, second) ==
            IF ~second.ok THEN Refused
            ELSE [ok |-> TRUE, t |-> second.t,
                  both |-> both, first |-> first, second |-> second]
        afterFirst(both, first) ==
            IF ~first.ok THEN Refused
            ELSE all(both, first, ProveSchnorr(C2s(cts), secrets, R2, first.t, seed + 2))
        afterBoth(both) ==
            IF ~both.ok THEN Refused
            ELSE afterFirst(both, ProveSchnorr(C1s(cts), secrets, R1, both.t, seed + 1))
    IN  afterBoth(ProveSchnorr(Flatten(cts), Doubled(secrets), Add(R1, R2), t, seed))

VerifyHalves(proof, cts, R1, R2, t) ==
    LET both == VerifySchnorr(proof.both, Flatten(cts), Add(R1, R2), t)
        first == VerifySchnorr(proof.first, C1s(cts), R1, both.t)
        second == VerifySchnorr(proof.second, C2s(cts), R2, first.t)
    IN  Verdict(both.ok /\ first.ok /\ second.ok, second.t)

-----------------------------------------------------------------------------
(* ZKShuffleProof.                                                         *)

\* The key, the nonce, both decks; then one coefficient for every card.
ShuffleContext(t, input, output, pk, nonce) ==
    ChallengeVec(AppendAll(t, <<pk, nonce>> \o Flatten(input) \o Flatten(output)),
                 Len(input))

\* The base points are the output cards and, last, the generator and the key.
ShuffleBases(output, pk) == Append(output, [c1 |-> G, c2 |-> pk])

\* Mutation of Secrets: each coefficient stays at the place of its input.
SecretsInPlace(rho, permute) == rho

\* The coefficient of output[j], which is input[permute[j]].
Secrets(rho, permute) == [j \in 1..Len(rho) |-> rho[permute[j]]]

ProveShuffle(input, output, permute, r, pk, t, seed) ==
    LET nonce == Random(seed, 1)
        all(R1, R2, halves) ==
            IF ~halves.ok THEN Refused
            ELSE [ok |-> TRUE, t |-> halves.t, nonce |-> nonce,
                  R1 |-> R1, R2 |-> R2, halves |-> halves]
        summed(secrets, R1, R2, at) ==
            all(R1, R2, ProveHalves(ShuffleBases(output, pk),
                                    Append(secrets, Sub(0, Combine(r, secrets))),
                                    R1, R2, at, seed + 3))
        weighed(rho, at) ==
            summed(Secrets(rho, permute), Combine(rho, C1s(input)),
                   Combine(rho, C2s(input)), at)
        started(drawn) == weighed(drawn.scalars, drawn.t)
    IN  IF \/ input[1].c1 = Identity
           \/ \E i \in 1..Len(input) : input[i].c2 = Identity \/ ~Valid(output[i])
        THEN Refused
        ELSE started(ShuffleContext(t, input, output, pk, nonce))

VerifyShuffle(proof, input, output, pk, t) ==
    LET drawn == ShuffleContext(t, input, output, pk, proof.nonce)
        halves == VerifyHalves(proof.halves, ShuffleBases(output, pk),
                               proof.R1, proof.R2, drawn.t)
    IN  /\ Len(input) = Len(output) /\ Len(input) # 0
        /\ \A i \in 1..Len(output) : Valid(output[i])
        /\ proof.R1 = Combine(drawn.scalars, C1s(input))
        /\ proof.R2 = Combine(drawn.scalars, C2s(input))
        /\ halves.ok
=============================================================================
