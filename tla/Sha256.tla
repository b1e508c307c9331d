------------------------------- MODULE Sha256 -------------------------------
(***************************************************************************)
(* SHA-256, which is external: the library takes it from a package, for    *)
(* ConvertPeerID and for the search of generate/main.go.  Only messages    *)
(* that fit in one block, up to 55 bytes, are hashed here.                 *)
(*                                                                         *)
(* A word of 32 bits is a pair of its halves, as a number of 32 bits is    *)
(* beyond the integers of TLC.                                             *)
(***************************************************************************)
EXTENDS Integers, Sequences

\* Table[256 * a + b + 1] is the conjunction, or the exclusive or, of the
\* bytes a and b.  (Appending to a sequence makes TLC compute all of it once.)
AndTable ==
    [k \in 1..65536 |->
        LET a == (k - 1) \div 256
            b == (k - 1) % 256
            and[i \in 0..8] ==
                IF i = 0 THEN 0
                ELSE 2 * and[i - 1]
                        + ((a \div 2^(8 - i)) % 2) * ((b \div 2^(8 - i)) % 2)
        IN  and[8]] \o <<>>

XorTable ==
    [k \in 1..65536 |-> ((k - 1) \div 256) + ((k - 1) % 256) - 2 * AndTable[k]] \o <<>>

AndHalf(a, b) ==
    256 * AndTable[256 * (a \div 256) + (b \div 256) + 1]
        + AndTable[256 * (a % 256) + (b % 256) + 1]

XorHalf(a, b) ==
    256 * XorTable[256 * (a \div 256) + (b \div 256) + 1]
        + XorTable[256 * (a % 256) + (b % 256) + 1]

And(x, y) == <<AndHalf(x[1], y[1]), AndHalf(x[2], y[2])>>

Xor(x, y) == <<XorHalf(x[1], y[1]), XorHalf(x[2], y[2])>>

Plus(x, y) ==
    LET low == x[2] + y[2]
    IN  <<(x[1] + y[1] + (low \div 65536)) % 65536, low % 65536>>

\* A shift, and a rotation, to the right; a shift by less than 16.
Shift(x, n) ==
    <<x[1] \div 2^n, (x[2] \div 2^n) + (x[1] % 2^n) * 2^(16 - n)>>

Rotate(x, n) ==
    IF n >= 16 THEN LET y == <<x[2], x[1]>>
                    IN  <<(y[1] \div 2^(n - 16)) + (y[2] % 2^(n - 16)) * 2^(32 - n),
                          (y[2] \div 2^(n - 16)) + (y[1] % 2^(n - 16)) * 2^(32 - n)>>
    ELSE <<(x[1] \div 2^n) + (x[2] % 2^n) * 2^(16 - n),
           (x[2] \div 2^n) + (x[1] % 2^n) * 2^(16 - n)>>

\* The round constants, and the hash to start with.
RoundConstant == <<
    <<17034, 12184>>, <<28983, 17553>>, <<46528, 64463>>, <<59829, 56229>>,
    <<14678, 49755>>, <<23025, 4593>>, <<37439, 33444>>, <<43804, 24277>>,
    <<55303, 43672>>, <<4739, 23297>>, <<9265, 34238>>, <<21772, 32195>>,
    <<29374, 23924>>, <<32990, 45566>>, <<39900, 1703>>, <<49563, 61812>>,
    <<58523, 27073>>, <<61374, 18310>>, <<4033, 40390>>, <<9228, 41420>>,
    <<11753, 11375>>, <<19060, 33962>>, <<23728, 43484>>, <<30457, 35034>>,
    <<38974, 20818>>, <<43057, 50797>>, <<45059, 10184>>, <<48985, 32711>>,
    <<50912, 3059>>, <<54695, 37191>>, <<1738, 25425>>, <<5161, 10599>>,
    <<10167, 2693>>, <<11803, 8504>>, <<19756, 28156>>, <<21304, 3347>>,
    <<25866, 29524>>, <<30314, 2747>>, <<33218, 51502>>, <<37490, 11397>>,
    <<41663, 59553>>, <<43034, 26187>>, <<49739, 35696>>, <<51052, 20899>>,
    <<53650, 59417>>, <<54937, 1572>>, <<62478, 13701>>, <<4202, 41072>>,
    <<6564, 49430>>, <<7735, 27656>>, <<10056, 30540>>, <<13488, 48309>>,
    <<14620, 3251>>, <<20184, 43594>>, <<23452, 51791>>, <<26670, 28659>>,
    <<29839, 33518>>, <<30885, 25455>>, <<33992, 30740>>, <<36039, 520>>,
    <<37054, 65530>>, <<42064, 27883>>, <<48889, 41975>>, <<50801, 30962>> >>

InitialHash == <<
    <<27145, 58983>>, <<47975, 44677>>, <<15470, 62322>>, <<42319, 62778>>,
    <<20750, 21119>>, <<39685, 26764>>, <<8067, 55723>>, <<23520, 52505>> >>

\* One round: state is a, b, ..., h, and schedule the next 16 words.
Mixed(state, word, constant) ==
    LET a  == state[1]
        e  == state[5]
        S0 == Xor(Rotate(a, 2), Xor(Rotate(a, 13), Rotate(a, 22)))
        S1 == Xor(Rotate(e, 6), Xor(Rotate(e, 11), Rotate(e, 25)))
        choice   == Xor(state[7], And(e, Xor(state[6], state[7])))
        majority == Xor(And(a, Xor(state[2], state[3])), And(state[2], state[3]))
        t1 == Plus(Plus(state[8], S1), Plus(choice, Plus(constant, word)))
    IN  <<Plus(t1, Plus(S0, majority)), a, state[2], state[3],
          Plus(state[4], t1), e, state[6], state[7]>>

Scheduled(schedule) ==
    LET v  == schedule[2]
        w  == schedule[15]
        s0 == Xor(Rotate(v, 7), Xor(Rotate(v, 18), Shift(v, 3)))
        s1 == Xor(Rotate(w, 17), Xor(Rotate(w, 19), Shift(w, 10)))
    IN  Append(Tail(schedule), Plus(Plus(s1, schedule[10]), Plus(s0, schedule[1])))

\* The 64 rounds.  (The set of one pair, rather than a LET, makes TLC compute
\* the pair of one round before it goes on to the next.)
Compressed(block) ==
    LET round[t \in 0..64] ==
            IF t = 0 THEN <<InitialHash, block>>
            ELSE CHOOSE next \in
                    {<<Mixed(r[1], r[2][1], RoundConstant[t]), Scheduled(r[2])>> :
                        r \in {round[t - 1]}} : TRUE
    IN  round[64][1]

\* A message, a 1, as many 0 as it takes, and the message's length in bits.
Padded(message) ==
    message \o <<128>> \o [i \in 1..(61 - Len(message)) |-> 0]
        \o <<(8 * Len(message)) \div 256, (8 * Len(message)) % 256>>

Sha256(message) ==
    LET bytes == Padded(message)
        block == [i \in 1..16 |->
                     <<256 * bytes[4 * i - 3] + bytes[4 * i - 2],
                       256 * bytes[4 * i - 1] + bytes[4 * i]>>] \o <<>>
        last  == Compressed(block)
    IN  [i \in 1..8 |-> Plus(InitialHash[i], last[i])]
=============================================================================
