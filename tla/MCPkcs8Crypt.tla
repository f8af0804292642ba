---------------------------- MODULE MCPkcs8Crypt ----------------------------
(***************************************************************************)
(* Blocks of three bytes, plaintexts of one to five bytes that look like   *)
(* padding, and for the other passphrase every last block of the bytes 0   *)
(* to 4: no padding, all three paddings, and more than a block.  Foreign   *)
(* files have every length, key length and structure the guards look at.   *)
(***************************************************************************)
EXTENDS Pkcs8Crypt

CONSTANTS k1, p1

MCKey == {k1}

MCPass == {p1, NoPass}

MCQuirk == [c \in {} |-> {}]

LastBlocks == [1..BlockSize -> 0..4]

Plaintexts == {[i \in 1..n |-> b] : n \in 1..5, b \in {1, 2}}

Scrambled(n, last) == [i \in 1..n |-> IF i + BlockSize <= n THEN 1 ELSE last[i + BlockSize - n]]

OwnFiles ==
    UNION {{EncryptPKCS8(d, PKCS8(k1), p1, [q \in MCPass |-> Scrambled(Len(Pad(d)), last)])
            : last \in LastBlocks} : d \in Plaintexts}

(* Another program's files: a wrong PRF gives the right passphrase noise.  *)
OtherFiles ==
    {[form |-> "pbes2", keyLength |-> l, iv |-> v, pass |-> p1, plain |-> <<1, 1>>,
      inner |-> PKCS8(k1), yields |-> [q \in MCPass |-> IF q = p1 THEN y ELSE z]]
     : l \in {Omitted, 0, 16, 32, 33}, v \in {BlockSize, BlockSize - 1},
       y \in {<<1, 1, 1>>, <<1, 3, 2>>, <<3, 3, 3>>}, z \in {<<4, 4, 4>>, <<2, 2, 2>>}}

RaggedFiles ==
    {[form |-> f, keyLength |-> 32, iv |-> BlockSize, pass |-> p1, plain |-> <<2>>,
      inner |-> Noise, yields |-> [q \in MCPass |-> [i \in 1..n |-> 1]]]
     : f \in {"pbes2", "other"}, n \in 0..7}

MCFiles == {f \in OwnFiles \cup OtherFiles \cup RaggedFiles : f.yields[NoPass] # Pad(f.plain)}

=============================================================================
