-------------------------------- MODULE Bcrypt --------------------------------
(***************************************************************************)
(* src/bcrypt as include/bcrypt/bcrypt.hh uses it: salts and their base64,  *)
(* the key schedule with the safety measure against an old sign extension   *)
(* bug, the crypt() calls, and bcrypt_hash() and bcrypt_check().            *)
(* A char is a number from 0 to 255, a 32-bit word four of them, a letter   *)
(* of BF_itoa64 its index.  A setting is a record of its fields.            *)
(* Eksblowfish itself is a one-way function of the salt, the cost and the   *)
(* expanded key, so a hash is the record of these.                          *)
(***************************************************************************)
EXTENDS Integers, FiniteSets, SequencesExt, Functions

CONSTANT
  KeyWords, \* words of an expanded key: BF_N + 2, of which a run takes fewer
  NULL      \* a null pointer

ASSUME BcryptAssumption == KeyWords \in Nat \ {0}

NoLetter == 64    \* what BF_atoi64 has for other characters

(* BF_encode(): three bytes to four letters; what is left of them to two or *)
(* three.  A letter takes its bits of byte i and of the next one.           *)
BFEncode(src) ==
  LET At(i) == IF i <= Len(src) THEN src[i] ELSE 0
      Letter(k) ==
        LET i == 3 * ((k - 1) \div 4) + ((k - 1) % 4)
        IN  CASE k % 4 = 1 -> At(i + 1) \div 4
              [] k % 4 = 2 -> (At(i) % 4) * 16 + At(i + 1) \div 16
              [] k % 4 = 3 -> (At(i) % 16) * 4 + At(i + 1) \div 64
              [] k % 4 = 0 -> At(i) % 64
  IN  [k \in 1..(Len(src) + (Len(src) + 2) \div 3) |-> Letter(k)]

(* BF_decode(): `size' bytes from as many letters as they take; the bits    *)
(* that the last letter has too many are dropped.  NULL where it returns -1. *)
BFDecode(src, size) ==
  LET used == SubSeq(src, 1, size + (size + 2) \div 3)
      Byte(i) ==
        LET k == 4 * ((i - 1) \div 3) + ((i - 1) % 3) + 1
        IN  CASE i % 3 = 1 -> used[k] * 4 + used[k + 1] \div 16
              [] i % 3 = 2 -> (used[k] % 16) * 16 + used[k + 1] \div 4
              [] i % 3 = 0 -> (used[k] % 4) * 64 + used[k + 1]
  IN  IF NoLetter \in Range(used) THEN NULL ELSE [i \in 1..size |-> Byte(i)]
------------------------------------------------------------------------------
(* flags_by_subtype: 2 asks for the safety measure, 1 for the bug. *)
Flags == [t \in {"a", "b", "x", "y"} |->
            CASE t = "a" -> 2 [] t = "x" -> 1 [] OTHER -> 4]

(* A slip to compare with: the password is repeated without its NUL.        *)
KeyCharUnended(key, j) == IF key = <<>> THEN 0 ELSE key[1 + ((j - 1) % Len(key))]

(* The j-th char that BF_set_key() takes of the password, which it repeats  *)
(* with its terminating NUL.                                                *)
KeyChar(key, j) == Append(key, 0)[1 + ((j - 1) % (Len(key) + 1))]

Shift(word, c) == <<word[2], word[3], word[4], c>>
SignExtend(word, c) == IF c >= 128 THEN <<255, 255, 255, c>> ELSE Shift(word, c)

(* The i-th word of the key, correct and with the bug. *)
Chars(key, i) == [j \in 1..4 |-> KeyChar(key, 4 * (i - 1) + j)]
ZeroWord == <<0, 0, 0, 0>>
Word(key, i) ==
  LET c == Chars(key, i) IN Shift(Shift(Shift(Shift(ZeroWord, c[1]), c[2]), c[3]), c[4])
BuggyWord(key, i) ==
  LET c == Chars(key, i)
  IN  SignExtend(SignExtend(SignExtend(SignExtend(ZeroWord, c[1]), c[2]), c[3]), c[4])

(* Some char but the first of a word was extended over the ones before it.  *)
Sign(key, words) ==
  \E i \in 1..words : \E j \in 2..4 : Chars(key, i)[j] >= 128

(* A slip to compare with: without the safety measure.                      *)
BFSetKeyUnsafe(key, flags, words) ==
  LET right == [i \in 1..words |-> Word(key, i)]
      buggy == [i \in 1..words |-> BuggyWord(key, i)]
  IN  [expanded |-> IF flags % 2 = 1 THEN buggy ELSE right, flipped |-> FALSE]

(* BF_set_key(): the expanded key, and whether bit 16 of the initial one is *)
(* flipped (the initial key is otherwise the expanded one under an xor with *)
(* constants).                                                              *)
BFSetKey(key, flags, words) ==
  LET right == [i \in 1..words |-> Word(key, i)]
      buggy == [i \in 1..words |-> BuggyWord(key, i)]
      diff  == right # buggy
  IN  [expanded |-> IF flags % 2 = 1 THEN buggy ELSE right,
       flipped  |-> (flags \div 2) % 2 = 1 /\ ~diff /\ Sign(key, words)]
------------------------------------------------------------------------------
(* What a null pointer is told from: salts, and settings with or without a  *)
(* hash behind them.                                                        *)
Salts == [1..16 -> 0..255]
Settings ==
  [prefix : {"$2"}, subtype : DOMAIN Flags, cost : 0..31, salt : [1..22 -> 0..63],
   hash : {NULL} \cup
          [salt : Salts, cost : 0..31,
           key : [expanded : [1..KeyWords -> [1..4 -> 0..255]], flipped : BOOLEAN]]]

ASSUME NullAssumption == NULL \notin Salts \cup Settings

OutputSize == 7 + 22 + 31 + 1

(* The letters of a salt without the bits that no byte takes.               *)
Trimmed(salt) == [salt EXCEPT ![22] = (@ \div 16) * 16]

(* BF_crypt(): a setting's prefix, subtype, cost and salt letters; the      *)
(* output repeats them, but for the bits of the last letter that the salt   *)
(* has no room for.  The least count is 2^minCost.                  *)
BFCrypt(key, setting, size, minCost) ==
  IF size < OutputSize THEN NULL
  ELSE IF ~(setting.prefix = "$2" /\ setting.subtype \in DOMAIN Flags
            /\ setting.cost \in 0..31) THEN NULL
  ELSE IF setting.cost < minCost \/ BFDecode(setting.salt, 16) = NULL THEN NULL
  ELSE [setting EXCEPT
          !.salt = Trimmed(@),
          !.hash = [salt |-> BFDecode(setting.salt, 16), cost |-> setting.cost,
                    key |-> BFSetKey(key, Flags[setting.subtype], KeyWords)]]

(* A slip to compare with: the output does not depend on the setting.       *)
OutputMagicFixed(setting) == [prefix |-> "*0"]

(* _crypt_output_magic(): never the same as the setting. *)
OutputMagic(setting) ==
  [prefix |-> IF setting.prefix = "*0" THEN "*1" ELSE "*0"]

(* The part of the self-test that does not compare with known hashes.       *)
SelfTest ==
  LET k  == <<255, 163, 51, 52, 255, 255, 255, 163, 51, 52, 53>>
      a  == BFSetKey(k, 2, 18)
      y  == BFSetKey(k, 4, 18)
  IN  /\ a.expanded = y.expanded
      /\ a.flipped # y.flipped
      /\ y.expanded[18] = <<51, 52, 53, 0>>

(* _crypt_blowfish_rn(), which is crypt_rn(): what it leaves in the output  *)
(* and what it returns.                                                     *)
CryptRn(key, setting, size) ==
  LET r == BFCrypt(key, setting, size, 4)
  IN  IF SelfTest /\ r # NULL THEN [output |-> r, returned |-> r]
      ELSE [output |-> IF size < 3 THEN NULL ELSE OutputMagic(setting), returned |-> NULL]

(* crypt_r() and crypt() return the output even then. *)
Crypt(key, setting) ==
  LET r == CryptRn(key, setting, OutputSize)
  IN  IF r.returned # NULL THEN r.returned ELSE r.output

(* _crypt_gensalt_blowfish_rn() for the prefix of a subtype.                *)
GensaltBlowfish(subtype, count, input, outputSize) ==
  IF Len(input) < 16 \/ outputSize < 7 + 22 + 1 THEN NULL
  ELSE IF count # 0 /\ count \notin 4..31 THEN NULL
  ELSE IF subtype \notin {"a", "b", "y"} THEN NULL
  ELSE [prefix |-> "$2", subtype |-> subtype, cost |-> IF count = 0 THEN 5 ELSE count,
        salt |-> BFEncode(SubSeq(input, 1, 16)), hash |-> NULL]

(* crypt_gensalt_rn() for the prefixes of bcrypt. *)
CryptGensaltRn(prefix, count, input, size) ==
  LET subtype == [p \in {"$2a$", "$2b$", "$2y$"} |->
                    CASE p = "$2a$" -> "a" [] p = "$2b$" -> "b" [] p = "$2y$" -> "y"]
  IN  IF input = NULL \/ prefix \notin DOMAIN subtype THEN NULL
      ELSE GensaltBlowfish(subtype[prefix], count, input, size)

(* bcrypt_hash(), NULL where it throws, and bcrypt_check(). *)
BcryptHash(pw, rand, work) ==
  LET w == IF work < 4 \/ 31 < work THEN 10 ELSE work
      s == CryptGensaltRn("$2a$", w, rand, 64)
  IN  IF s = NULL THEN NULL ELSE CryptRn(pw, s, 64).returned

BcryptCheck(pw, hash0) ==
  LET r == CryptRn(pw, hash0, 64).returned
  IN  IF r = NULL THEN "throws" ELSE IF r = hash0 THEN "yes" ELSE "no"
------------------------------------------------------------------------------
(* The chars of a password that its hash depends on: all of them and the    *)
(* terminating NUL, cut after 4 * KeyWords chars.                           *)
Significant(key) ==
  SubSeq(Append(key, 0), 1, IF Len(key) < 4 * KeyWords THEN Len(key) + 1 ELSE 4 * KeyWords)

(* A stored hash lets in the password it was made of, whatever the cost and *)
(* the salt's bytes, and another one only if the two agree on every char    *)
(* that counts.                                                             *)
HashTellsPasswords(pw, other, rand, work) ==
  LET h == BcryptHash(pw, rand, work)
  IN  /\ BFDecode(BFEncode(rand), Len(rand)) = rand
      /\ h # NULL
      /\ BcryptCheck(pw, h) = "yes"
      /\ BcryptCheck(other, h) = IF Significant(pw) = Significant(other) THEN "yes" ELSE "no"

(* What the comment in BF_set_key() promises of the safety measure: no hash *)
(* that the correct algorithm makes under $2a$ is also made by the buggy    *)
(* one, $2x$, of a password whose chars were lost to the sign extension;    *)
(* and the measure changes only hashes of passwords with a char 0xff.       *)
SafetyMeasure(pw, buggy) ==
  LET a == BFSetKey(pw, Flags["a"], KeyWords)
      x == BFSetKey(buggy, Flags["x"], KeyWords)
      y == BFSetKey(pw, Flags["y"], KeyWords)
  IN  /\ a = x => Significant(pw) = Significant(buggy) /\ ~Sign(buggy, KeyWords)
      /\ a # y => 255 \in Range(pw)
      /\ y = BFSetKey(pw, Flags["b"], KeyWords)

(* A call that fails leaves an output that is no hash and not the setting,  *)
(* so that who compares it with a stored hash never lets anyone in; a call  *)
(* that succeeds returns a hash which, as the setting, gives itself again.  *)
FailureNeverMatches(pw, setting, size) ==
  LET r == CryptRn(pw, setting, size)
  IN  /\ r.returned = NULL /\ size >= 3 => r.output.prefix # setting.prefix
      /\ Crypt(pw, setting).prefix \in {"*0", "*1"} <=>
           CryptRn(pw, setting, OutputSize).returned = NULL
      /\ r.returned # NULL => CryptRn(pw, r.returned, size).returned = r.returned
==============================================================================
