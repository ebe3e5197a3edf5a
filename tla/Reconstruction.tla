--------------------------- MODULE Reconstruction ---------------------------
(***************************************************************************)
(* zk_shuffle/reconstruction: a player's deck for the hand that goes on    *)
(* after somebody left.  Every card of the deck comes under the player's   *)
(* own key, the ones in the player's hand blanked out, and the proof shows *)
(* that what was blanked is what the hand holds.                           *)
(***************************************************************************)
EXTENDS CardProofs

Holds(s, x) == \E i \in 1..Len(s) : s[i] = x
IndexOf(s, x) == CHOOSE i \in 1..Len(s) : s[i] = x

-----------------------------------------------------------------------------
(* ChaumPedersenDLEQProof: P1 and P2 are the same multiple of G1 and G2.   *)

CPContext(t, G1, G2, P1, P2, A, B) == AppendAll(t, <<G1, G2, P1, P2, A, B>>)

ProveCP(G1, G2, s, P1, P2, t, seed) ==
    LET w == Random(seed, 1)
        A == Mul(G1, w)
        B == Mul(G2, w)
        proof(drawn) == [ok |-> TRUE, t |-> drawn.t, A |-> A, B |-> B,
                         response |-> Add(w, Mul(s, drawn.scalar))]
    IN  IF Identity \in {G1, G2, P1, P2, A, B} THEN Refused
        ELSE proof(Draw(CPContext(t, G1, G2, P1, P2, A, B)))

VerifyCP(proof, G1, G2, P1, P2, t) ==
    LET context == CPContext(t, G1, G2, P1, P2, proof.A, proof.B)
        c == Scalar(context)
    IN  Verdict(/\ Identity \notin {G1, G2, P1, P2, proof.A, proof.B}
                /\ Mul(G1, proof.response) = Add(proof.A, Mul(P1, c))
                /\ Mul(G2, proof.response) = Add(proof.B, Mul(P2, c)),
                Drawn(context))

-----------------------------------------------------------------------------
(* SwapOutCardProof: a swapped card differs from the one it stands for by  *)
(* an encryption of nothing under the player's key.                        *)

Delta(swap, card) == [c1 |-> Sub(swap.c1, card.c1), c2 |-> Sub(swap.c2, card.c2)]

ProveSwaps(readable, swaps, sk, pk, t, seed) ==
    LET step(i, at) == LET d == Delta(swaps[i], readable[i])
                       IN  ProveCP(d.c1, G, sk, d.c2, pk, at, seed + i)
        chain[i \in 0..Len(readable)] ==
            IF i = 0 THEN [ok |-> TRUE, t |-> t]
            ELSE LET before == chain[i - 1]
                 IN  IF before.ok THEN step(i, before.t) ELSE Refused
    IN  IF ~chain[Len(readable)].ok THEN Refused
        ELSE [ok |-> TRUE, t |-> chain[Len(readable)].t,
              proofs |-> [i \in 1..Len(readable) |->
                            [card |-> readable[i], swap |-> swaps[i], cp |-> chain[i]]]]

VerifySwaps(proofs, readable, swaps, pk, t) ==
    LET step(i, at) == LET d == Delta(proofs[i].swap, proofs[i].card)
                       IN  VerifyCP(proofs[i].cp, d.c1, G, d.c2, pk, at)
        chain[i \in 0..Len(proofs)] ==
            IF i = 0 THEN Verdict(TRUE, t)
            ELSE LET now == step(i, chain[i - 1].t)
                 IN  Verdict(/\ chain[i - 1].ok /\ now.ok
                             /\ proofs[i].swap = swaps[i]
                             /\ proofs[i].card = readable[i], now.t)
    IN  IF Len(proofs) # Len(readable) \/ Len(swaps) # Len(proofs)
        THEN Verdict(FALSE, t) ELSE chain[Len(proofs)]

-----------------------------------------------------------------------------
(* ReconstructionDLEQProof: two points multiplied by one blinding factor.  *)

BlindBase(t, nonce, in, out) == AppendAll(t, <<nonce>> \o in \o out)

ProveBlind(in, out, a, t, seed) ==
    LET nonce == Random(seed, 1)
        w == Random(seed, 2)
        proof(commitment, drawn) ==
            [ok |-> TRUE, t |-> drawn.t, nonce |-> nonce, commitment |-> commitment,
             response |-> Add(w, Mul(a, drawn.scalar))]
        committed(commitment, at) == proof(commitment, Draw(Append1(at, commitment)))
        based(base, at) == IF a = 0 \/ base = Identity THEN Refused
                           ELSE committed(Mul(base, w), at)
        started(drawn) == based(Combine(<<1, drawn.scalar>>, in), drawn.t)
    IN  started(Draw(BlindBase(t, nonce, in, out)))

VerifyBlind(proof, in, out, t) ==
    LET start == BlindBase(t, proof.nonce, in, out)
        weights == <<1, Scalar(start)>>
        context == Append1(Drawn(start), proof.commitment)
    IN  Verdict(/\ proof.commitment # Identity
                /\ Mul(Combine(weights, in), proof.response) =
                       Add(proof.commitment,
                           Mul(Combine(weights, out), Scalar(context))),
                Drawn(context))

-----------------------------------------------------------------------------
(* reconstruct_deck.                                                       *)

\* exp_iter: the powers of the coefficient everybody uses.
Powers(x, n) ==
    LET power[i \in 1..n] == IF i = 1 THEN x ELSE Mul(power[i - 1], x)
    IN  power

ReconstructDeck(cards, readable, sk, pk, coefficient) ==
    LET held == Each(readable, LAMBDA ct : Decrypt(ct, sk))
        s == Powers(coefficient, Len(cards) + Len(readable))
        output(i) == LET ct == Encrypt(cards[i], pk, s[i])
                     IN  IF Holds(held, cards[i])
                         THEN [ct EXCEPT !.c2 = Sub(@, cards[i])] ELSE ct
    IN  IF \/ readable = <<>> \/ coefficient \in {0, 1}
           \/ \E i \in 1..Len(held) : ~Holds(cards, held[i])
        THEN Refused
        ELSE [ok |-> TRUE, s |-> s,
              output |-> [i \in 1..Len(cards) |-> output(i)],
              swaps |-> [i \in 1..Len(held) |->
                            Encrypt(held[i], pk, s[Len(cards) + i])],
              at |-> [i \in 1..Len(held) |-> IndexOf(cards, held[i])]]

\* The cards and both halves of the output are hashed, then one coefficient
\* is drawn for every card, and both halves are summed under them.
RhoContext(t, cards, output) ==
    ChallengeVec(AppendAll(t, cards \o C1s(output) \o C2s(output)), Len(output))

Sums(rho, cards, output) ==
    <<Combine(rho, C1s(output)),
      Combine(rho, [i \in 1..Len(output) |-> Sub(output[i].c2, cards[i])])>>

\* What the third and later parts of the proof are about: the sums blinded, the
\* secrets of the swaps, the sums over the swaps, and the one secret of both.
Blinded(cards, made, rho, blind) ==
    LET secrets == Each(made.at, LAMBDA i : Mul(rho[i], blind))
        n == Len(cards)
    IN  [sums |-> Sums(rho, cards, made.output),
         commits |-> Each(Sums(rho, cards, made.output), LAMBDA x : Mul(x, blind)),
         secrets |-> secrets,
         S1 |-> Combine(secrets, C1s(made.swaps)),
         S2 |-> Combine(secrets, C2s(made.swaps)),
         s |-> Mul(blind, Add(Combine(rho, SubSeq(made.s, 1, n)),
                              SumOf([i \in 1..Len(made.at) |->
                                       Mul(made.s[n + i], rho[made.at[i]])])))]

ProveReconstruct(cards, readable, made, sk, pk, t, seed) ==
    LET blind == Random(seed, 40)
        all(swapped, b, blinded, halves, total) ==
            IF ~total.ok THEN Refused
            ELSE [ok |-> TRUE, swapped |-> swapped.proofs, commits |-> b.commits,
                  S1 |-> b.S1, S2 |-> b.S2, blinded |-> blinded, halves |-> halves,
                  total |-> total]
        afterHalves(swapped, b, blinded, halves) ==
            IF ~halves.ok THEN Refused
            ELSE all(swapped, b, blinded, halves,
                     ProveCP(G, pk, b.s, Add(b.commits[1], b.S1), Add(b.commits[2], b.S2),
                             halves.t, seed + 30))
        afterBlind(swapped, b, blinded) ==
            IF ~blinded.ok THEN Refused
            ELSE afterHalves(swapped, b, blinded,
                     ProveHalves(made.swaps, b.secrets, b.S1, b.S2, blinded.t, seed + 20))
        summed(swapped, b, at) ==
            afterBlind(swapped, b, ProveBlind(b.sums, b.commits, blind, at, seed + 10))
        weighed(swapped, drawn) ==
            summed(swapped, Blinded(cards, made, drawn.scalars, blind), drawn.t)
        afterSwaps(swapped) ==
            IF ~swapped.ok THEN Refused
            ELSE weighed(swapped, RhoContext(swapped.t, cards, made.output))
    IN  afterSwaps(ProveSwaps(readable, made.swaps, sk, pk, t, seed))

VerifyReconstruct(proof, cards, output, swaps, readable, pk, t) ==
    LET swapped == VerifySwaps(proof.swapped, readable, swaps, pk, t)
        drawn == RhoContext(swapped.t, cards, output)
        sums == Sums(drawn.scalars, cards, output)
        blinded == VerifyBlind(proof.blinded, sums, proof.commits, drawn.t)
        halves == VerifyHalves(proof.halves, swaps, proof.S1, proof.S2, blinded.t)
        total == VerifyCP(proof.total, G, pk, Add(proof.commits[1], proof.S1),
                          Add(proof.commits[2], proof.S2), halves.t)
    IN  /\ swapped.ok /\ blinded.ok
        /\ proof.S1 # Identity /\ proof.S2 # Identity
        /\ halves.ok /\ total.ok
=============================================================================
