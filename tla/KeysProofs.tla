----------------------------- MODULE KeysProofs -----------------------------
(***************************************************************************)
(* The keys and ciphers for integers of every size, every set of passwords, *)
(* costs and salts: no context is lost, and the password alone decides.     *)
(***************************************************************************)
EXTENDS Keys, FiniteSetTheorems, SequenceTheorems, TLAPS

-----------------------------------------------------------------------------
(***************************************************************************)
(* The bytes of an integer.                                                 *)
(***************************************************************************)
Byte == 0..(Base - 1)

LEMMA TwoBytes ==
    ASSUME NEW a \in Byte, NEW b \in Byte
    PROVE  /\ a * Base + b \in Integer
           /\ (a * Base + b) \div Base = a
           /\ (a * Base + b) % Base = b
  <1>1. Base \in Nat /\ Base > 0 /\ a \in Int /\ b \in Int
    BY KeysAssumption DEF Byte
  <1> DEFINE n == a * Base + b
             q == n \div Base
             r == n % Base
  <1>2. n \in Nat
    BY <1>1, SMT DEF Byte
  <1>3. q \in Int /\ r \in Int /\ 0 <= r /\ r < Base /\ n = q * Base + r
    BY <1>1, <1>2, SMT
  <1>4. 0 <= b /\ b < Base
    BY <1>1 DEF Byte
  <1>5. (a - q) * Base = r - b
    BY <1>1, <1>3, SMT
  <1>6. a = q
    <2>1. CASE a >= q + 1
      <3>1. (a - q) * Base >= Base
        BY <1>1, <1>3, <2>1, SMT
      <3> QED BY <3>1, <1>1, <1>3, <1>4, <1>5, SMT
    <2>2. CASE a + 1 <= q
      <3>1. (q - a) * Base >= Base
        BY <1>1, <1>3, <2>2, SMT
      <3>2. (q - a) * Base = b - r
        BY <1>1, <1>3, SMT
      <3> QED BY <3>1, <3>2, <1>1, <1>3, <1>4, SMT
    <2> QED BY <2>1, <2>2, <1>1, <1>3, SMT
  <1>7. b = r
    BY <1>5, <1>6, <1>1, <1>3, SMT
  <1>8. n \in Integer
    <2>1. a * Base <= (Base - 1) * Base
      BY <1>1, SMT DEF Byte
    <2>2. (Base - 1) * Base = Base * Base - Base
      BY <1>1, SMT
    <2> QED BY <2>1, <2>2, <1>1, <1>2, <1>4, SMT DEF Integer
  <1> QED BY <1>6, <1>7, <1>8

LEMMA BytesOf ==
    ASSUME NEW i \in Integer
    PROVE  /\ i \div Base \in Byte /\ i % Base \in Byte
           /\ (i \div Base) * Base + (i % Base) = i
  <1>1. Base \in Nat /\ Base > 0 /\ i \in Nat /\ i < Base * Base
    BY KeysAssumption, SMT DEF Integer
  <1> DEFINE q == i \div Base
             r == i % Base
  <1>2. q \in Int /\ r \in Int /\ 0 <= r /\ r < Base /\ i = q * Base + r
    BY <1>1, SMT
  <1>3. q >= 0
    BY <1>1, SMT
  <1>4. q < Base
    <2>1. CASE q >= Base
      <3>1. q * Base >= Base * Base
        BY <1>1, <1>2, <2>1, SMT
      <3> QED BY <3>1, <1>1, <1>2, SMT
    <2> QED BY <2>1, <1>1, <1>2
  <1>5. Byte = 0..(Base - 1)
    BY DEF Byte
  <1> HIDE DEF q, r
  <1>6. q \in Byte /\ r \in Byte /\ q * Base + r = i
    BY <1>1, <1>2, <1>3, <1>4, <1>5, SMT
  <1> QED BY <1>6 DEF q, r

\* An integer has the same bytes in a file, whoever writes it.
Stand(i) == <<i \div Base, i % Base>>

LEMMA Written ==
    ASSUME NEW i \in Integer, NEW h \in Hosts
    PROVE  Memory(h, ToODS(h, i)) = Stand(i)
  <1>1. i \div Base \in Byte /\ i % Base \in Byte
    BY BytesOf
  <1>2. CASE h = "big"
    BY <1>2 DEF Memory, ToODS, Stand
  <1>3. CASE h = "little"
    <2> DEFINE n == (i % Base) * Base + i \div Base
    <2>1. n \div Base = i % Base /\ n % Base = i \div Base
      BY <1>1, TwoBytes
    <2>2. ToODS(h, i) = n
      BY <1>3 DEF ToODS, ReverseBytes
    <2> HIDE DEF n
    <2>3. Memory(h, n) = <<n % Base, n \div Base>>
      BY <1>3 DEF Memory
    <2> QED BY <2>1, <2>2, <2>3 DEF Stand
  <1> QED BY <1>2, <1>3 DEF Hosts

LEMMA ReadBack ==
    ASSUME NEW i \in Integer, NEW h \in Hosts
    PROVE  ToHost(h, FromMemory(h, Stand(i))) = i
  <1> DEFINE q == i \div Base
             r == i % Base
  <1>1. q \in Byte /\ r \in Byte /\ q * Base + r = i
    BY BytesOf
  <1>2. Stand(i)[1] = q /\ Stand(i)[2] = r
    BY DEF Stand
  <1>3. CASE h = "big"
    BY <1>1, <1>2, <1>3 DEF ToHost, FromMemory
  <1>4. CASE h = "little"
    <2> HIDE DEF q, r
    <2> DEFINE n == r * Base + q
    <2>1. FromMemory(h, Stand(i)) = n
      BY <1>2, <1>4 DEF FromMemory
    <2>2. n \div Base = r /\ n % Base = q
      BY <1>1, TwoBytes
    <2> HIDE DEF n
    <2>3. ToHost(h, n) = (n % Base) * Base + n \div Base
      BY <1>4 DEF ToHost, ReverseBytes
    <2> QED BY <1>1, <2>1, <2>2, <2>3
  <1> QED BY <1>3, <1>4 DEF Hosts

-----------------------------------------------------------------------------
(***************************************************************************)
(* Meta data read are the meta data written, whichever the machines and the *)
(* order.                                                                   *)
(***************************************************************************)
Meta == {m \in [Names -> Integer] : m["cost"] \in Costs}

LEMMA ThreeNames == Cardinality(Names) = 3
  <1>2. IsFiniteSet({"cost"}) /\ Cardinality({"cost"}) = 1
    BY FS_Singleton
  <1>3. IsFiniteSet({"cost"} \cup {"salt1"}) /\ Cardinality({"cost"} \cup {"salt1"}) = 2
    BY <1>2, FS_AddElement
  <1>4. Cardinality(({"cost"} \cup {"salt1"}) \cup {"salt2"}) = 3
    BY <1>3, FS_AddElement
  <1>5. Names = ({"cost"} \cup {"salt1"}) \cup {"salt2"}
    BY DEF Names
  <1> QED BY <1>4, <1>5

LEMMA MetaRoundTrip ==
    ASSUME NEW g \in Hosts, NEW h \in Hosts, NEW meta \in Meta, NEW order \in Orders
    PROVE  Deserialize(h, Serialize(g, meta, order)) = meta
  <1> DEFINE items == Serialize(g, meta, order)
  <1>1. order \in [1..3 -> Names] /\ \A i, j \in 1..3 : order[i] = order[j] => i = j
    BY ThreeNames DEF Orders
  <1>2. \A n \in Names : \E i \in 1..3 : order[i] = n
    <2>1. \A i \in 1..3 : order[i] \in {"cost", "salt1", "salt2"}
      BY <1>1 DEF Names
    <2>2. order[1] # order[2] /\ order[1] # order[3] /\ order[2] # order[3]
      BY <1>1
    <2> QED BY <2>1, <2>2 DEF Names
  <1>3. DOMAIN items = 1..3
    BY <1>1 DEF Serialize
  <1>4. \A i \in 1..3 : items[i].name = order[i] /\ items[i].bytes = Stand(meta[order[i]])
    <2> TAKE i \in 1..3
    <2>1. items[i] = [name |-> order[i], bytes |-> Memory(g, ToODS(g, meta[order[i]]))]
      BY <1>1 DEF Serialize
    <2>2. meta[order[i]] \in Integer
      BY <1>1 DEF Meta
    <2>3. Memory(g, ToODS(g, meta[order[i]])) = Stand(meta[order[i]])
      BY <2>2, Written
    <2> QED BY <2>1, <2>3
  <1> HIDE DEF items
  <1>5. {items[i].name : i \in DOMAIN items} = Names
    BY <1>1, <1>2, <1>3, <1>4
  <1> DEFINE At(n) == CHOOSE i \in DOMAIN items : items[i].name = n
  <1>6. \A n \in Names : At(n) \in 1..3 /\ items[At(n)].name = n
    BY <1>2, <1>3, <1>4
  <1>7. \A n \in Names : items[At(n)].bytes = Stand(meta[n])
    <2> TAKE n \in Names
    <2>1. At(n) \in 1..3 /\ items[At(n)].name = n
      BY <1>6
    <2> HIDE DEF At
    <2> QED BY <1>4, <2>1
  <1>8. \A n \in Names : ToHost(h, FromMemory(h, items[At(n)].bytes)) = meta[n]
    BY <1>7, ReadBack DEF Meta
  <1>9. Deserialize(h, items) = [n \in Names |-> meta[n]]
    BY <1>5, <1>8 DEF Deserialize
  <1> QED BY <1>9 DEF Meta, items
-----------------------------------------------------------------------------
(***************************************************************************)
(* Keys: the same on every machine, and one for every password.             *)
(***************************************************************************)
LEMMA ParametersTyped ==
    ASSUME NEW salt \in Salts, config \in Costs
    PROVE  Parameters(salt) \in Meta
  <1>1. config \in Integer /\ salt[1] \in Integer /\ salt[2] \in Integer
    BY KeysAssumption
  <1> DEFINE P(n) == CASE n = "cost"  -> config
                       [] n = "salt1" -> salt[1]
                       [] n = "salt2" -> salt[2]
  <1>2. P("cost") = config /\ P("salt1") = salt[1] /\ P("salt2") = salt[2]
    OBVIOUS
  <1>3. Parameters(salt) = [n \in Names |-> P(n)]
    BY DEF Parameters
  <1> HIDE DEF P
  <1>4. \A n \in Names : P(n) \in Integer
    BY <1>1, <1>2 DEF Names
  <1>5. "cost" \in Names
    BY DEF Names
  <1> QED BY <1>2, <1>3, <1>4, <1>5 DEF Meta

\* The key of a password under meta data, on any machine.
LEMMA Hashed ==
    ASSUME NEW h \in Hosts, NEW password \in Passwords, NEW meta \in Meta
    PROVE  /\ Hash256(h, password, meta) = Hash256("big", password, meta)
           /\ Hash256(h, password, meta) \in KeyTypes \ {NoKey}
           /\ Hash256(h, password, meta).cipher = "aes256"
           /\ Hash256(h, password, meta).password = password
  <1>1. meta["salt1"] \in Integer /\ meta["salt2"] \in Integer /\ meta["cost"] \in Costs
    BY DEF Meta, Names
  <1> DEFINE salt == Stand(meta["salt1"]) \o Stand(meta["salt2"])
  <1>2. \A g \in Hosts : ComposeSalt(g, meta) = salt
    BY <1>1, Written DEF ComposeSalt
  <1>3. \A i \in Integer : Stand(i) \in Seq(0..(Base - 1)) /\ Len(Stand(i)) = 2
    BY BytesOf DEF Stand, Byte
  <1>4. salt \in [1..4 -> 0..(Base - 1)]
    <2> DEFINE a == Stand(meta["salt1"])
               b == Stand(meta["salt2"])
    <2>1. a \in Seq(0..(Base - 1)) /\ Len(a) = 2 /\ b \in Seq(0..(Base - 1)) /\ Len(b) = 2
      BY <1>1, <1>3
    <2> HIDE DEF a, b
    <2>2. a \o b \in Seq(0..(Base - 1)) /\ Len(a \o b) = 4
      BY <2>1, ConcatProperties
    <2>3. a \o b \in [1..4 -> 0..(Base - 1)]
      BY <2>2, LenProperties
    <2> QED BY <2>3 DEF a, b
  <1> HIDE DEF salt
  <1>5. "big" \in Hosts
    BY DEF Hosts
  <1>6. \A g \in Hosts : Hash256(g, password, meta) =
            [cipher |-> "aes256", password |-> password, cost |-> meta["cost"], salt |-> salt]
    BY <1>2 DEF Hash256
  <1>7. Hash256(h, password, meta) # NoKey
    <2>1. NoKey.cipher = "none"
      BY DEF NoKey
    <2> QED BY <1>6, <2>1
  <1> QED BY <1>1, <1>4, <1>5, <1>6, <1>7 DEF KeyTypes

LEMMA Hashed448 ==
    ASSUME NEW password \in Passwords
    PROVE  /\ Hash448(password) \in KeyTypes \ {NoKey}
           /\ Hash448(password).cipher = "blowfish"
           /\ Hash448(password).password = password
  <1>1. NoKey.cipher = "none"
    BY DEF NoKey
  <1> QED BY <1>1 DEF Hash448, KeyTypes

\* What the meta data of the file say, and the key of a password under them.
Recognized == file.format \in {"1.0", "2.0"}
FileMeta == Deserialize("big", file.meta)
KeyFor(password) == IF file.format = "1.0" THEN Hash448(password)
                    ELSE Hash256("big", password, FileMeta)

\* The meta data are the same for every reader.
MetaInv == file.format = "2.0" =>
              FileMeta \in Meta /\ \A h \in Hosts : Deserialize(h, file.meta) = FileMeta

LEMMA KeysDiffer ==
    ASSUME MetaInv, Recognized, NEW password \in Passwords, host \in Hosts
    PROVE  /\ KeyFor(password) \in KeyTypes \ {NoKey}
           /\ KeyFor(password).password = password
           /\ KeyFor(password).cipher = CipherOf(file.format)
           /\ file.format = "2.0" => Hash256(host, password, Stored) = KeyFor(password)
           /\ file.format = "1.0" => Hash448(password) = KeyFor(password)
  <1>1. CASE file.format = "1.0"
    BY <1>1, Hashed448 DEF KeyFor, CipherOf
  <1>2. CASE file.format = "2.0"
    <2>1. FileMeta \in Meta /\ Stored = FileMeta
      BY <1>2 DEF MetaInv, Stored
    <2>2. "big" \in Hosts
      BY DEF Hosts
    <2>3. KeyFor(password) = Hash256("big", password, FileMeta)
      BY <1>2 DEF KeyFor
    <2>4. Hash256(host, password, Stored) = KeyFor(password)
      BY <2>1, <2>3, Hashed
    <2> QED BY <1>2, <2>1, <2>2, <2>3, <2>4, Hashed DEF CipherOf
  <1> QED BY <1>1, <1>2 DEF Recognized

-----------------------------------------------------------------------------
(***************************************************************************)
(* The inductive invariant.                                                 *)
(***************************************************************************)
Tasks == {"newkey", "argon2", "decrypt", "encrypt"} \cup Digests
Steps == {"random", "hash", "iv", "create", "init", "keylen", "text", "update", "final"}

Calls == [purpose : Purposes, password : Asked, task : Tasks \cup {"none"},
          step : Steps \cup {"none"}, meta : Meta \cup {NoMeta}, new : KeyTypes, key : KeyTypes]

Typing ==
    /\ host \in Hosts /\ config \in Costs
    /\ factory \in KeyTypes
    /\ file = File(file.format, file.meta, file.key, file.header, file.password)
    /\ file.format \in {"none", "other", "1.0", "2.0"}
    /\ file.header \in {"missing", "short", "bare", "cut", "full"}
    /\ file.key \in KeyTypes
    /\ call \in Calls
    /\ result \in [how : Answers, purpose : Purposes, password : Asked]
    /\ contexts \in Int /\ bare \in BOOLEAN

\* The key of the file is the one of its password, and so is the key in use.
FileInv ==
    /\ MetaInv
    /\ Recognized => file.password \in Passwords
    /\ Recognized /\ file.header # "missing" => file.key = KeyFor(file.password)
    /\ factory # NoKey => /\ Recognized /\ factory.password \in Passwords
                          /\ factory = KeyFor(factory.password)

\* A task belongs to a purpose, and the keys a call has made are right.
TaskInv ==
    ~Idle =>
      /\ Task \in Tasks /\ Step \in Steps
      /\ call.purpose # "edit" => call.password \in Passwords
      /\ call.purpose \in CASE Task = "newkey"  -> {"create", "change"}
                             [] Task = "encrypt" -> {"create", "change", "edit"}
                             [] Task = "decrypt" -> {"open", "change"}
                             [] OTHER            -> {"open", "unlock", "change"}
      /\ call.purpose \in {"unlock", "change", "edit"} => factory # NoKey
      /\ call.purpose = "create" => factory = NoKey
      /\ call.purpose = "open" => Recognized
      /\ Task = "argon2" => file.format = "2.0"
      /\ Task \in Digests => file.format = "1.0"
      /\ Task = "decrypt" => Recognized /\ call.key = KeyFor(call.password)

\* The new key is the one of the new meta data.
NewInv ==
    ~Idle =>
      /\ Task = "newkey" /\ Step # "random" => call.meta \in Meta
      /\ call.purpose \in {"create", "change"} /\ Task # "newkey" =>
            call.meta \in Meta /\ call.new = Hash256("big", call.password, call.meta)

\* Steps that have a context.
Holding == {"init", "keylen", "text", "update", "final"}
Held == IF ~Idle /\ Step \in Holding THEN 1 ELSE 0

StepInv ==
    ~Idle =>
      /\ Task = "newkey" => Step \in {"random", "hash"}
      /\ Task = "argon2" => Step = "hash"
      /\ Task \notin {"newkey", "argon2"} => Step # "hash"
      /\ NoHeader => Step \in {"iv", "create"}

ContextInv ==
    /\ contexts - Held \in 0..(IF Idle THEN MaxContexts ELSE MaxContexts - 1)
    /\ ~bare => contexts = Held

ResultInv == (~Idle => result = NoResult) /\ PasswordDecides

IInv == Typing /\ FileInv /\ TaskInv /\ NewInv /\ StepInv /\ ContextInv /\ ResultInv

-----------------------------------------------------------------------------
(***************************************************************************)
(* What the actions have in common.                                         *)
(***************************************************************************)
LEMMA NoKeyTyped == NoKey \in KeyTypes
  BY DEF KeyTypes

LEMMA NoTask == NoCall.task = "none" /\ "none" \notin Tasks
  BY DEF NoCall, Tasks, Digests

LEMMA Starting ==
    ASSUME NEW c \in Calls, c.task \in Tasks
    PROVE  /\ Begins(c) \in Calls
           /\ Begins(c).purpose = c.purpose /\ Begins(c).password = c.password
           /\ Begins(c).task = c.task /\ Begins(c).meta = c.meta
           /\ Begins(c).new = c.new /\ Begins(c).key = c.key
           /\ Begins(c).step \in {"random", "hash", "iv", "create"}
           /\ c.task = "newkey" => Begins(c).step = "random"
           /\ c.task = "argon2" => Begins(c).step = "hash"
           /\ c.task \notin {"newkey", "argon2"} => Begins(c).step # "hash"
           /\ c.task = "decrypt" => Begins(c).step \in {"iv", "create"}
           /\ Begins(c) # NoCall
  <1>1. /\ FirstStep(c) \in {"random", "hash", "iv", "create"}
        /\ c.task = "newkey" => FirstStep(c) = "random"
        /\ c.task = "argon2" => FirstStep(c) = "hash"
        /\ c.task \notin {"newkey", "argon2"} => FirstStep(c) # "hash"
        /\ c.task = "decrypt" => FirstStep(c) \in {"iv", "create"}
    <2>1. CASE c.task = "newkey"
      BY <2>1 DEF FirstStep
    <2>2. CASE c.task = "argon2"
      BY <2>2 DEF FirstStep
    <2>3. CASE c.task = "decrypt"
      BY <2>3 DEF FirstStep
    <2>4. CASE c.task = "encrypt"
      BY <2>4 DEF FirstStep
    <2>5. CASE c.task \in Digests
      BY <2>5 DEF FirstStep, Digests
    <2> QED BY <2>1, <2>2, <2>3, <2>4, <2>5 DEF Tasks
  <1>2. FirstStep(c) \in Steps
    BY <1>1 DEF Steps
  <1>3. Begins(c) = [c EXCEPT !.step = FirstStep(c)]
    BY DEF Begins
  <1>4. Begins(c) \in Calls
    BY <1>2, <1>3 DEF Calls
  <1>5. Begins(c).task = c.task
    BY <1>3 DEF Calls
  <1> QED BY <1>1, <1>3, <1>4, <1>5, NoTask DEF Calls

LEMMA FileFields ==
    ASSUME NEW format, NEW meta, NEW key, NEW header, NEW password
    PROVE  LET f == File(format, meta, key, header, password)
           IN  /\ f.format = format /\ f.meta = meta /\ f.key = key
               /\ f.header = header /\ f.password = password
               /\ f = File(f.format, f.meta, f.key, f.header, f.password)
  BY DEF File

LEMMA FileKept ==
    ASSUME UNCHANGED file
    PROVE  /\ Recognized' = Recognized
           /\ \A password : KeyFor(password)' = KeyFor(password)
           /\ MetaInv => MetaInv'
  BY DEF Recognized, KeyFor, FileMeta, MetaInv

LEMMA InvKept ==
    ASSUME FileInv, UNCHANGED <<file, factory>>
    PROVE  FileInv'
  BY FileKept DEF FileInv

\* The keys in use and in the file have a password.
LEMMA InUse ==
    ASSUME Typing, FileInv, factory # NoKey
    PROVE  /\ Recognized
           /\ factory.password \in Passwords
           /\ factory = KeyFor(factory.password)
           /\ factory.cipher = CipherOf(file.format)
  BY KeysDiffer DEF FileInv, Typing

LEMMA DerivesRight ==
    ASSUME Recognized, NEW cipher, cipher = CipherOf(file.format)
    PROVE  /\ Derives(cipher) \in {"sha1", "argon2"}
           /\ Derives(cipher) = "argon2" => file.format = "2.0"
           /\ Derives(cipher) = "sha1" => file.format = "1.0"
  BY DEF Recognized, CipherOf, Derives

\* A call that is over leaves nothing to be said of it.
LEMMA Over ==
    ASSUME call' = NoCall
    PROVE  Idle' /\ TaskInv' /\ NewInv' /\ StepInv' /\ Held' = 0 /\ NoCall \in Calls
  <1>1. NoCall \in Calls
    BY NoKeyTyped DEF NoCall, Calls, Purposes, Asked
  <1> QED BY <1>1 DEF Idle, TaskInv, NewInv, StepInv, Held

LEMMA HeldNumber == Held \in {0, 1} /\ (Idle => Held = 0)
  BY DEF Held

-----------------------------------------------------------------------------
(***************************************************************************)
(* One lemma for each action.                                               *)
(***************************************************************************)
LEMMA InitInv ==
    ASSUME Init
    PROVE  IInv
  <1>1. Idle /\ NoCall \in Calls
    BY NoKeyTyped DEF Init, Idle, NoCall, Calls, Purposes, Asked
  <1>2. /\ file = File(file.format, file.meta, file.key, file.header, file.password)
        /\ file.format \in {"none", "other", "1.0"}
        /\ file.format # "1.0" => file.header = "missing" /\ file.key = NoKey
        /\ file.format = "1.0" => /\ file.password \in Passwords
                                 /\ file.key = Hash448(file.password)
                                 /\ file.header = "full"
    <2>1. CASE file \in {NoFile("none"), NoFile("other")}
      <3>1. PICK format \in {"none", "other"} : file = File(format, <<>>, NoKey, "missing", "")
        BY <2>1 DEF NoFile
      <3>2. /\ file.format = format /\ file.key = NoKey /\ file.header = "missing"
            /\ file = File(file.format, file.meta, file.key, file.header, file.password)
        BY <3>1 DEF File
      <3> QED BY <3>2
    <2>2. CASE \E p \in Passwords : file = File("1.0", <<>>, Hash448(p), "full", p)
      BY <2>2, FileFields
    <2> QED BY <2>1, <2>2 DEF Init
  <1>3. Typing
    <2>1. file.header \in {"missing", "full"} /\ file.key \in KeyTypes
      BY <1>2, NoKeyTyped, Hashed448
    <2>2. result \in [how : Answers, purpose : Purposes, password : Asked]
      BY DEF Init, NoResult, Answers, Purposes, Asked
    <2>3. call \in Calls /\ factory \in KeyTypes /\ host \in Hosts /\ config \in Costs
          /\ contexts \in Int
      BY <1>1, NoKeyTyped DEF Init, Idle
    <2>4. bare \in BOOLEAN
      BY Zenon DEF Init
    <2> QED BY <1>2, <2>1, <2>2, <2>3, <2>4 DEF Typing
  <1>4. FileInv
    BY <1>2 DEF Init, FileInv, MetaInv, Recognized, KeyFor
  <1>5. ResultInv
    BY <1>1 DEF Init, ResultInv, NoResult, PasswordDecides
  <1>6. ContextInv
    BY <1>1, KeysAssumption DEF Init, ContextInv, Held
  <1> QED BY <1>1, <1>3, <1>4, <1>5, <1>6 DEF IInv, TaskInv, NewInv, StepInv

\* A task that a call may begin with.
May(purpose, password, task) ==
    /\ purpose \in Purposes /\ password \in Asked
    /\ purpose # "edit" => password \in Passwords
    /\ \/ task = "newkey" /\ purpose \in {"create", "change"}
       \/ task = "encrypt" /\ purpose = "edit"
       \/ task = "argon2" /\ purpose \in {"open", "unlock"} /\ file.format = "2.0"
       \/ task = "sha1" /\ purpose \in {"open", "unlock"} /\ file.format = "1.0"
    /\ purpose \in {"unlock", "change", "edit"} => factory # NoKey
    /\ purpose = "create" => factory = NoKey
    /\ purpose = "open" => Recognized

LEMMA BeginKeeps ==
    ASSUME IInv, NEW purpose, NEW password, NEW task, NEW new \in KeyTypes,
           May(purpose, password, task), Begin(purpose, password, task, new)
    PROVE  IInv'
  <1> DEFINE c == [NoCall EXCEPT !.purpose = purpose, !.password = password,
                                 !.task = task, !.new = new]
  <1>1. task \in Tasks /\ task # "decrypt"
    BY DEF May, Tasks, Digests
  <1>2. c \in Calls /\ c.task = task /\ c.purpose = purpose /\ c.password = password
    BY <1>1, NoKeyTyped DEF May, NoCall, Calls, Purposes, Asked
  <1>3. call' = Begins(c)
    BY DEF Begin
  <1> HIDE DEF c
  <1>4. /\ call' \in Calls /\ call'.task = task /\ call'.purpose = purpose
        /\ call'.password = password /\ call' # NoCall
        /\ call'.step \in {"random", "hash", "iv", "create"}
        /\ task = "newkey" => call'.step = "random"
        /\ task = "argon2" => call'.step = "hash"
        /\ task \notin {"newkey", "argon2"} => call'.step # "hash"
    BY <1>1, <1>2, <1>3, Starting
  <1>5. Idle /\ ~Idle' /\ contexts < MaxContexts
    BY <1>4 DEF Begin, Idle
  <1>6. UNCHANGED <<host, config, factory, file, contexts, bare>> /\ result' = NoResult
    BY DEF Begin
  <1>7. Typing'
    BY <1>4, <1>6 DEF IInv, Typing, NoResult, Answers, Purposes, Asked, File
  <1>8. FileInv'
    BY <1>6, InvKept DEF IInv
  <1>9. TaskInv'
    <2>1. /\ Recognized' = Recognized
      BY <1>6, FileKept
    <2>2. task \in Digests => task = "sha1"
      BY DEF May, Digests
    <2> QED BY <1>1, <1>4, <1>6, <2>1, <2>2 DEF TaskInv, Task, Step, May, Steps, Digests
  <1>10. NewInv'
    BY <1>4 DEF NewInv, May, Task, Step
  <1>11. StepInv'
    BY <1>1, <1>4 DEF StepInv, Task, Step, NoHeader
  <1>12. ContextInv'
    <2>1. Held = 0 /\ Held' = 0
      BY <1>4, <1>5 DEF Held, Holding, Step
    <2> QED BY <1>5, <1>6, <2>1, KeysAssumption DEF IInv, ContextInv, Typing
  <1>13. ResultInv'
    BY <1>6 DEF ResultInv, NoResult, PasswordDecides
  <1> QED BY <1>7, <1>8, <1>9, <1>10, <1>11, <1>12, <1>13 DEF IInv

LEMMA NotRecognizedKeeps ==
    ASSUME IInv, NotRecognized
    PROVE  IInv'
  <1>1. Idle /\ UNCHANGED <<host, config, factory, file, call, contexts, bare>>
    BY DEF NotRecognized
  <1>2. result' = [NoResult EXCEPT !.how = "unrecognized"]
    BY DEF NotRecognized
  <1>3. result' \in [how : Answers, purpose : Purposes, password : Asked]
        /\ result'.how = "unrecognized"
    BY <1>2 DEF NoResult, Answers, Purposes, Asked
  <1>4. Idle' /\ Held' = Held
    BY <1>1 DEF Idle, Held, Step
  <1>5. Typing'
    BY <1>1, <1>3 DEF IInv, Typing, File
  <1>6. ContextInv'
    BY <1>1, <1>4 DEF IInv, ContextInv
  <1>7. ResultInv'
    BY <1>3, <1>4 DEF ResultInv, PasswordDecides
  <1> QED BY <1>1, <1>4, <1>5, <1>6, <1>7, InvKept DEF IInv, TaskInv, NewInv, StepInv

LEMMA RestartKeeps ==
    ASSUME IInv, Restart
    PROVE  IInv'
  <1>1. Idle /\ Idle' /\ UNCHANGED <<file, call>> /\ factory' = NoKey /\ result' = NoResult
        /\ contexts' = 0 /\ bare' = FALSE /\ host' \in Hosts /\ config' \in Costs
    BY DEF Restart, Idle
  <1>2. Held' = 0
    BY <1>1 DEF Held
  <1>3. Typing'
    <2>1. result' \in [how : Answers, purpose : Purposes, password : Asked]
      BY <1>1 DEF NoResult, Answers, Purposes, Asked
    <2>2. /\ file' = File(file.format, file.meta, file.key, file.header, file.password)'
          /\ file'.format \in {"none", "other", "1.0", "2.0"}
          /\ file'.header \in {"missing", "short", "bare", "cut", "full"}
          /\ file'.key \in KeyTypes /\ call' \in Calls
      BY <1>1 DEF IInv, Typing
    <2>3. bare' \in BOOLEAN
      BY <1>1, Zenon
    <2>4. contexts' \in Int /\ factory' \in KeyTypes
      BY <1>1, NoKeyTyped
    <2> QED BY <1>1, <2>1, <2>2, <2>3, <2>4 DEF Typing
  <1>4. FileInv'
    BY <1>1, FileKept DEF IInv, FileInv
  <1>5. ContextInv'
    BY <1>1, <1>2, KeysAssumption DEF ContextInv
  <1>6. ResultInv'
    BY <1>1 DEF ResultInv, NoResult, PasswordDecides
  <1> QED BY <1>1, <1>3, <1>4, <1>5, <1>6 DEF IInv, TaskInv, NewInv, StepInv

LEMMA DamageKeeps ==
    ASSUME IInv, Damage
    PROVE  IInv'
  <1>1. Idle /\ factory = NoKey /\ file.header = "full"
        /\ UNCHANGED <<host, config, factory, call, result, contexts, bare>>
    BY DEF Damage
  <1>2. PICK header \in {"short", "bare", "cut"} : file' = [file EXCEPT !.header = header]
    BY DEF Damage
  <1>3. file' = File(file.format, file.meta, file.key, header, file.password)
    BY <1>2 DEF IInv, Typing, File
  <1>4. /\ file'.format = file.format /\ file'.meta = file.meta /\ file'.key = file.key
        /\ file'.header = header /\ file'.password = file.password
    BY <1>3 DEF File
  <1>5. Idle' /\ Held' = Held
    BY <1>1 DEF Idle, Held, Step
  <1>6. Typing'
    BY <1>1, <1>2, <1>3, <1>4 DEF IInv, Typing
  <1>7. FileInv'
    BY <1>1, <1>2, <1>4 DEF IInv, FileInv, MetaInv, Recognized, KeyFor, FileMeta
  <1>8. ContextInv'
    BY <1>1, <1>5 DEF IInv, ContextInv
  <1>9. ResultInv'
    BY <1>1, <1>2, <1>4, <1>5 DEF IInv, ResultInv, PasswordDecides
  <1> QED BY <1>1, <1>5, <1>6, <1>7, <1>8, <1>9 DEF IInv, TaskInv, NewInv, StepInv

\* A step within a task.
LEMMA NextStep ==
    ASSUME IInv, ~Idle, ~Last, ~MustFail
    PROVE  /\ StepAfter(Step) \in Steps
           /\ Task = "newkey" => Step = "random" /\ StepAfter(Step) = "hash"
           /\ Task # "argon2"
           /\ Task \notin {"newkey", "argon2"} => StepAfter(Step) # "hash"
           /\ Step = "create" => StepAfter(Step) = "init"
           /\ Step \in Holding => StepAfter(Step) \in Holding
           /\ Step \in {"random", "iv"} => StepAfter(Step) \in {"hash", "create"}
           /\ Step \in {"random", "iv", "create"} \cup Holding
  <1>1. /\ Step \in {"random", "iv", "create", "init", "keylen", "text", "update"}
        /\ Task = "newkey" => Step = "random"
        /\ Task # "argon2"
    BY DEF IInv, TaskInv, StepInv, Steps, Last, LastSteps
  <1>2. CASE Step = "random"
    <2>1. CASE Task = "newkey"
      BY <1>1, <1>2, <2>1 DEF StepAfter, Task, Steps, Holding
    <2>2. CASE Task # "newkey"
      BY <1>1, <1>2, <2>2 DEF StepAfter, Task, Steps, Holding
    <2> QED BY <2>1, <2>2
  <1>3. CASE Step = "iv"
    BY <1>1, <1>3 DEF StepAfter, Task, Steps, Holding
  <1>4. CASE Step = "create"
    BY <1>1, <1>4 DEF StepAfter, Task, Steps, Holding
  <1>5. CASE Step = "init"
    BY <1>1, <1>5 DEF StepAfter, Task, Steps, Holding
  <1>6. CASE Step = "keylen"
    BY <1>1, <1>6 DEF StepAfter, Task, Steps, Holding
  <1>7. CASE Step = "text"
    BY <1>1, <1>7 DEF StepAfter, Task, Steps, Holding
  <1>8. CASE Step = "update"
    BY <1>1, <1>8 DEF StepAfter, Task, Steps, Holding
  <1> QED BY <1>1, <1>2, <1>3, <1>4, <1>5, <1>6, <1>7, <1>8

LEMMA AdvanceKeeps ==
    ASSUME IInv, Advance
    PROVE  IInv'
  <1>1. ~Idle /\ ~Last /\ ~MustFail /\ UNCHANGED <<host, config, factory, file, result, bare>>
        /\ contexts' = IF Step = "create" THEN contexts + 1 ELSE contexts
    BY DEF Advance
  <1>2. PICK meta \in IF Task = "newkey" THEN {Parameters(salt) : salt \in Salts} ELSE {call.meta} :
           call' = [call EXCEPT !.step = StepAfter(Step), !.meta = meta]
    BY DEF Advance
  <1>3. meta \in Meta \cup {NoMeta} /\ (Task = "newkey" => meta \in Meta)
        /\ (Task # "newkey" => meta = call.meta)
    <2>1. CASE Task = "newkey"
      BY <2>1, <1>2, ParametersTyped DEF IInv, Typing
    <2>2. CASE Task # "newkey"
      BY <2>2, <1>2 DEF IInv, Typing, Calls
    <2> QED BY <2>1, <2>2
  <1>4. call \in Calls /\ StepAfter(Step) \in Steps
    BY <1>1, NextStep DEF IInv, Typing
  <1>5. /\ call' \in Calls
        /\ call'.purpose = call.purpose /\ call'.password = call.password
        /\ call'.task = Task /\ call'.step = StepAfter(Step) /\ call'.meta = meta
        /\ call'.new = call.new /\ call'.key = call.key
    BY <1>2, <1>3, <1>4 DEF Calls, Task
  <1>6. ~Idle'
    BY <1>1, <1>5, NoTask DEF IInv, TaskInv, Idle
  <1>7. Typing'
    BY <1>1, <1>5 DEF IInv, Typing, File
  <1>8. FileInv'
    BY <1>1, InvKept DEF IInv
  <1>9. TaskInv'
    <2>1. Recognized' = Recognized /\ \A password : KeyFor(password)' = KeyFor(password)
      BY <1>1, FileKept
    <2>2. Task' = Task /\ Step' \in Steps
      BY <1>4, <1>5 DEF Task, Step
    <2>3. KeyFor(call.password)' = KeyFor(call.password)
      BY <1>1, <1>5 DEF KeyFor, FileMeta
    <2> QED BY <1>1, <1>5, <2>1, <2>2, <2>3 DEF IInv, TaskInv
  <1>10. NewInv'
    BY <1>1, <1>3, <1>5 DEF IInv, NewInv, Task, Step
  <1>11. StepInv'
    <2>1. ~NoHeader /\ NoHeader' = NoHeader
      BY <1>1, <1>5 DEF MustFail, NoHeader, Task
    <2> QED BY <1>1, <1>5, <2>1, NextStep DEF StepInv, Task, Step
  <1>12. ContextInv'
    <2>1. Held' = IF Step = "create" THEN Held + 1 ELSE Held
      <3>1. CASE Step = "create"
        BY <3>1, <1>1, <1>5, <1>6, NextStep DEF Held, Holding, Step
      <3>2. CASE Step \in Holding
        BY <3>2, <1>1, <1>5, <1>6, NextStep DEF Held, Holding, Step
      <3>3. CASE Step \in {"random", "iv"}
        BY <3>3, <1>1, <1>5, <1>6, NextStep DEF Held, Holding, Step
      <3> QED BY <3>1, <3>2, <3>3, <1>1, NextStep
    <2>2. contexts' - Held' = contexts - Held /\ (contexts = Held => contexts' = Held')
      BY <1>1, <2>1, HeldNumber DEF IInv, Typing
    <2> QED BY <1>1, <1>6, <2>2 DEF IInv, ContextInv
  <1>13. ResultInv'
    BY <1>1 DEF IInv, ResultInv, NoResult, PasswordDecides
  <1> QED BY <1>7, <1>8, <1>9, <1>10, <1>11, <1>12, <1>13 DEF IInv

-----------------------------------------------------------------------------
\* The end of a task, and of a call.
LEMMA Finishing ==
    ASSUME IInv, NEW task, Finishes(task)
    PROVE  /\ ~Idle /\ Task = task /\ Task \in Tasks
           /\ UNCHANGED <<host, config, bare>>
           /\ Task \in {"newkey", "argon2"} => Step = "hash" /\ Held = 0
           /\ Task \notin {"newkey", "argon2"} => Step = "final" /\ Held = 1
  BY DEF IInv, Finishes, TaskInv, StepInv, Last, LastSteps, Held, Holding

LEMMA Settles ==
    ASSUME IInv, ~Idle, Held' = 0, contexts' = contexts - Held, bare' = bare
    PROVE  ContextInv'
  <1>1. /\ contexts \in Int /\ contexts - Held \in 0..(MaxContexts - 1)
        /\ ~bare => contexts = Held
    BY DEF IInv, Typing, ContextInv
  <1> QED BY <1>1, HeldNumber, KeysAssumption DEF ContextInv

LEMMA Ending ==
    ASSUME IInv, ~Idle, NEW how \in Answers, Ends(how)
    PROVE  /\ call' = NoCall /\ call' \in Calls
           /\ result' \in [how : Answers, purpose : Purposes, password : Asked]
           /\ result'.how = how /\ result'.purpose = call.purpose
           /\ result'.password = call.password
           /\ Idle' /\ TaskInv' /\ NewInv' /\ StepInv' /\ Held' = 0
  BY Over DEF Ends, IInv, Typing, Calls

\* The next task suits the purpose and the file.
LEMMA NextTaskFits ==
    ASSUME IInv, ~Idle, Task # "encrypt",
           Task \in {"argon2", "ivec"} => call.purpose # "unlock",
           Task = "decrypt" => call.purpose = "change"
    PROVE  /\ TaskAfter(Task) \in Tasks \ {"newkey"}
           /\ call.purpose \in CASE TaskAfter(Task) = "newkey"  -> {"create", "change"}
                                  [] TaskAfter(Task) = "encrypt" -> {"create", "change", "edit"}
                                  [] TaskAfter(Task) = "decrypt" -> {"open", "change"}
                                  [] OTHER -> {"open", "unlock", "change"}
           /\ TaskAfter(Task) = "argon2" => file.format = "2.0"
           /\ TaskAfter(Task) \in Digests => file.format = "1.0"
           /\ TaskAfter(Task) = "decrypt" => Recognized /\ Task \in {"argon2", "ivec"}
  <1>1. TaskInv
    BY DEF IInv
  <1>2. CASE Task = "newkey" /\ call.purpose = "create"
    BY <1>2 DEF TaskAfter, Tasks, Digests
  <1>3. CASE Task = "newkey" /\ call.purpose = "change"
    <2>1. /\ Derives(factory.cipher) \in {"sha1", "argon2"}
          /\ Derives(factory.cipher) = "argon2" => file.format = "2.0"
          /\ Derives(factory.cipher) = "sha1" => file.format = "1.0"
      BY <1>1, <1>3, InUse, DerivesRight DEF IInv, TaskInv
    <2>2. TaskAfter(Task) = Derives(factory.cipher)
      BY <1>3 DEF TaskAfter
    <2> QED BY <1>3, <2>1, <2>2 DEF Tasks, Digests
  <1>4. CASE Task = "decrypt"
    BY <1>4 DEF TaskAfter, Tasks, Digests
  <1>5. CASE Task = "argon2"
    BY <1>1, <1>5 DEF TaskInv, TaskAfter, Tasks, Digests, Recognized
  <1>6. CASE Task = "sha1"
    BY <1>1, <1>6 DEF TaskInv, TaskAfter, Tasks, Digests
  <1>7. CASE Task = "md5"
    BY <1>1, <1>7 DEF TaskInv, TaskAfter, Tasks, Digests
  <1>8. CASE Task = "ripemd160"
    BY <1>1, <1>8 DEF TaskInv, TaskAfter, Tasks, Digests
  <1>9. CASE Task = "ivec"
    BY <1>1, <1>9 DEF TaskInv, TaskAfter, Tasks, Digests, Recognized
  <1> QED BY <1>1, <1>2, <1>3, <1>4, <1>5, <1>6, <1>7, <1>8, <1>9 DEF TaskInv, Tasks, Digests

LEMMA NextTaskKeeps ==
    ASSUME IInv, ~Idle, NEW c \in Calls, NextTask(c),
           c.purpose = call.purpose, c.password = call.password, c.meta = call.meta,
           UNCHANGED <<host, config, factory, file, bare>>, contexts' = contexts - Held,
           Task # "encrypt",
           Task \in {"argon2", "ivec"} => call.purpose # "unlock" /\ c.key = KeyFor(call.password),
           Task = "decrypt" => call.purpose = "change",
           call.purpose \in {"create", "change"} =>
              call.meta \in Meta /\ c.new = Hash256("big", call.password, call.meta)
    PROVE  IInv'
  <1> DEFINE t == TaskAfter(Task)
             d == [c EXCEPT !.task = t]
  <1>1. t \in Tasks \ {"newkey"}
    BY NextTaskFits
  <1>2. /\ d \in Calls /\ d.task = t /\ d.purpose = c.purpose /\ d.password = c.password
        /\ d.meta = c.meta /\ d.new = c.new /\ d.key = c.key
    BY <1>1 DEF Calls
  <1>3. call' = Begins(d) /\ result' = result
    BY DEF NextTask
  <1> HIDE DEF t, d
  <1>4. /\ call' \in Calls /\ call'.task = t /\ call'.purpose = call.purpose
        /\ call'.password = call.password /\ call'.meta = call.meta
        /\ call'.new = c.new /\ call'.key = c.key /\ call' # NoCall
        /\ call'.step \in {"random", "hash", "iv", "create"}
        /\ t = "argon2" => call'.step = "hash"
        /\ t \notin {"newkey", "argon2"} => call'.step # "hash"
        /\ t = "decrypt" => call'.step \in {"iv", "create"}
    BY <1>1, <1>2, <1>3, Starting
  <1>5. ~Idle'
    BY <1>4 DEF Idle
  <1>6. Typing'
    <2>1. /\ host' \in Hosts /\ config' \in Costs /\ factory' \in KeyTypes /\ call' \in Calls
          /\ file'.format \in {"none", "other", "1.0", "2.0"}
          /\ file'.header \in {"missing", "short", "bare", "cut", "full"}
          /\ file'.key \in KeyTypes /\ contexts' \in Int
          /\ file' = File(file.format, file.meta, file.key, file.header, file.password)'
      BY <1>4, HeldNumber DEF IInv, Typing, File
    <2>2. result' \in [how : Answers, purpose : Purposes, password : Asked]
      BY <1>3 DEF IInv, Typing
    <2>3. bare' \in BOOLEAN
      BY DEF IInv, Typing
    <2> QED BY <2>1, <2>2, <2>3 DEF Typing
  <1>7. FileInv'
    BY InvKept DEF IInv
  <1>8. TaskInv'
    <2>1. Recognized' = Recognized
      BY FileKept
    <2>2. KeyFor(call.password)' = KeyFor(call.password)
      BY <1>4 DEF KeyFor, FileMeta
    <2>3. Task' = t /\ Step' = call'.step /\ Step' \in Steps
      BY <1>4 DEF Task, Step, Steps
    <2>4. /\ call.purpose \in CASE t = "newkey"  -> {"create", "change"}
                                 [] t = "encrypt" -> {"create", "change", "edit"}
                                 [] t = "decrypt" -> {"open", "change"}
                                 [] OTHER -> {"open", "unlock", "change"}
          /\ t = "argon2" => file.format = "2.0"
          /\ t \in Digests => file.format = "1.0"
          /\ t = "decrypt" => Recognized /\ Task \in {"argon2", "ivec"}
      BY NextTaskFits DEF t
    <2>5. t = "decrypt" => call'.key = KeyFor(call.password)
      BY <1>4, <2>4
    <2>6. /\ call.purpose # "edit" => call.password \in Passwords
          /\ call.purpose \in {"unlock", "change", "edit"} => factory # NoKey
          /\ call.purpose = "create" => factory = NoKey
          /\ call.purpose = "open" => Recognized
      BY DEF IInv, TaskInv
    <2> QED BY <1>1, <1>4, <2>1, <2>2, <2>3, <2>4, <2>5, <2>6 DEF TaskInv
  <1>9. NewInv'
    BY <1>1, <1>4 DEF NewInv, Task
  <1>10. StepInv'
    BY <1>1, <1>4 DEF StepInv, Task, Step, NoHeader
  <1>11. Held' = 0
    BY <1>4 DEF Held, Holding, Step
  <1>12. ContextInv'
    BY <1>11, Settles
  <1>13. ResultInv'
    BY <1>3 DEF IInv, ResultInv, NoResult, PasswordDecides
  <1> QED BY <1>6, <1>7, <1>8, <1>9, <1>10, <1>12, <1>13 DEF IInv

LEMMA NewKeyKeeps ==
    ASSUME IInv, NewKey
    PROVE  IInv'
  <1> DEFINE key == Hash256(host, call.password, call.meta)
             c == [call EXCEPT !.new = key]
  <1>1. /\ ~Idle /\ Task = "newkey" /\ UNCHANGED <<host, config, bare>>
        /\ Step = "hash" /\ Held = 0
    BY Finishing DEF NewKey
  <1>2. call \in Calls /\ call.meta \in Meta /\ call.purpose \in {"create", "change"}
        /\ call.password \in Passwords
    BY <1>1 DEF IInv, Typing, TaskInv, NewInv
  <1>3. key \in KeyTypes /\ key = Hash256("big", call.password, call.meta)
    BY <1>2, Hashed DEF IInv, Typing
  <1>4. NextTask(c) /\ UNCHANGED <<factory, file, contexts>>
    BY DEF NewKey
  <1> HIDE DEF key
  <1>5. /\ c \in Calls /\ c.purpose = call.purpose /\ c.password = call.password
        /\ c.meta = call.meta /\ c.new = key
    BY <1>2, <1>3 DEF Calls
  <1> HIDE DEF c
  <1>6. contexts' = contexts - Held
    BY <1>1, <1>4 DEF IInv, Typing
  <1> QED BY <1>1, <1>2, <1>3, <1>4, <1>5, <1>6, NextTaskKeeps

LEMMA DerivedKeeps ==
    ASSUME IInv, ~Idle, Task \in {"argon2", "ivec"}, NEW key, key = KeyFor(call.password),
           Derived(key), UNCHANGED <<host, config, bare>>, contexts' = contexts - Held
    PROVE  IInv'
  <1>1. UNCHANGED <<factory, file>>
    BY DEF Derived
  <1>2. /\ call \in Calls /\ call.purpose \in {"open", "unlock", "change"}
        /\ call.password \in Passwords
        /\ Recognized
    BY DEF IInv, Typing, TaskInv, Digests, Recognized
  <1>3. key \in KeyTypes /\ key.password = call.password
    BY <1>2, KeysDiffer DEF IInv, Typing, FileInv
  <1>4. CASE call.purpose = "unlock"
    <2> DEFINE how == IF key = factory THEN "match" ELSE "nomatch"
    <2>1. Ends(how) /\ how \in Answers
      BY <1>4 DEF Derived, Answers
    <2>2. how = "match" => call.password = factory.password
      BY <1>3
    <2>3. how = "nomatch" => call.password # factory.password
      <3>1. factory # NoKey
        BY <1>4 DEF IInv, TaskInv
      <3> QED BY <3>1, InUse DEF IInv
    <2>4. how \in {"match", "nomatch"}
      OBVIOUS
    <2> HIDE DEF how
    <2>5. /\ call' \in Calls /\ result' \in [how : Answers, purpose : Purposes, password : Asked]
          /\ result'.how = how /\ result'.password = call.password
          /\ Idle' /\ TaskInv' /\ NewInv' /\ StepInv' /\ Held' = 0
      BY <2>1, Ending
    <2>6. ResultInv'
      BY <1>1, <2>2, <2>3, <2>4, <2>5 DEF ResultInv, PasswordDecides
    <2>7. Typing'
      BY <1>1, <2>5, HeldNumber DEF IInv, Typing, File
    <2>8. FileInv'
      BY <1>1, InvKept DEF IInv
    <2> QED BY <2>5, <2>6, <2>7, <2>8, Settles DEF IInv
  <1>5. CASE call.purpose # "unlock"
    <2> DEFINE c == [call EXCEPT !.key = key]
    <2>1. NextTask(c)
      BY <1>5 DEF Derived
    <2>2. /\ c \in Calls /\ c.purpose = call.purpose /\ c.password = call.password
          /\ c.meta = call.meta /\ c.new = call.new /\ c.key = key
      BY <1>2, <1>3 DEF Calls
    <2> HIDE DEF c
    <2>3. call.purpose \in {"create", "change"} =>
              call.meta \in Meta /\ call.new = Hash256("big", call.password, call.meta)
      BY DEF IInv, NewInv
    <2> QED BY <1>1, <1>2, <1>5, <2>1, <2>2, <2>3, NextTaskKeeps
  <1> QED BY <1>4, <1>5

LEMMA Argon2Keeps ==
    ASSUME IInv, Argon2
    PROVE  IInv'
  <1>1. /\ ~Idle /\ Task = "argon2" /\ UNCHANGED <<host, config, bare>> /\ Held = 0
    BY Finishing DEF Argon2
  <1>2. file.format = "2.0" /\ Recognized /\ call.password \in Passwords
    BY <1>1 DEF IInv, TaskInv, Recognized
  <1>3. Hash256(host, call.password, Stored) = KeyFor(call.password)
    BY <1>2, KeysDiffer DEF IInv, Typing, FileInv
  <1>4. contexts' = contexts - Held
    BY <1>1 DEF Argon2, IInv, Typing
  <1> QED BY <1>1, <1>3, <1>4, DerivedKeeps DEF Argon2

LEMMA DigestKeeps ==
    ASSUME IInv, Digest
    PROVE  IInv'
  <1>1. PICK task \in Digests :
           /\ Finishes(task)
           /\ IF task = "ivec" THEN Derived(Hash448(call.password))
              ELSE NextTask(call) /\ UNCHANGED <<factory, file>>
    BY DEF Digest
  <1>2. /\ ~Idle /\ Task = task /\ UNCHANGED <<host, config, bare>> /\ Held = 1
        /\ Task \in {"sha1", "md5", "ripemd160", "ivec"}
    BY <1>1, Finishing DEF Digests
  <1>3. contexts' = contexts - Held
    BY <1>2 DEF Digest
  <1>4. /\ file.format = "1.0" /\ Recognized /\ call.password \in Passwords /\ call \in Calls
        /\ call.purpose \in {"open", "unlock", "change"}
    BY <1>1, <1>2 DEF IInv, Typing, TaskInv, Recognized, Digests
  <1>5. CASE task = "ivec"
    <2>1. Hash448(call.password) = KeyFor(call.password)
      BY <1>4, KeysDiffer DEF IInv, Typing, FileInv
    <2> QED BY <1>1, <1>2, <1>3, <1>5, <2>1, DerivedKeeps
  <1>6. CASE task # "ivec"
    <2>1. NextTask(call) /\ UNCHANGED <<factory, file>>
      BY <1>1, <1>6
    <2>2. call.purpose \in {"create", "change"} =>
              call.meta \in Meta /\ call.new = Hash256("big", call.password, call.meta)
      BY <1>2 DEF IInv, NewInv
    <2> QED BY <1>2, <1>3, <1>4, <1>6, <2>1, <2>2, NextTaskKeeps
  <1> QED BY <1>5, <1>6

-----------------------------------------------------------------------------
LEMMA AnOrder == (CHOOSE o \in Orders : TRUE) \in Orders
  <1> DEFINE o == [i \in 1..3 |-> IF i = 1 THEN "cost" ELSE IF i = 2 THEN "salt1" ELSE "salt2"]
  <1>1. o \in [1..3 -> Names] /\ \A i, j \in 1..3 : o[i] = o[j] => i = j
    BY DEF Names
  <1>2. o \in Orders
    BY <1>1, ThreeNames DEF Orders
  <1> QED BY <1>2

\* The file of a new key.
LEMMA NewFile ==
    ASSUME IInv, ~Idle, Task = "encrypt", call.purpose \in {"create", "change"},
           NEW order \in Orders, NEW key \in KeyTypes,
           NEW header \in {"missing", "short", "bare", "cut", "full"},
           header # "missing" => key = call.new,
           file' = File("2.0", Serialize(host, call.meta, order), key, header, call.password),
           factory' \in {NoKey, call.new}
    PROVE  /\ FileInv' /\ factory' \in KeyTypes
           /\ file' = File(file.format, file.meta, file.key, file.header, file.password)'
           /\ file'.format = "2.0" /\ file'.header = header /\ file'.key = key
           /\ file'.password = call.password
  <1>1. /\ call.meta \in Meta /\ call.new = Hash256("big", call.password, call.meta)
        /\ call.password \in Passwords /\ host \in Hosts
    BY DEF IInv, Typing, NewInv, TaskInv
  <1>2. "big" \in Hosts
    BY DEF Hosts
  <1>3. /\ file' = File(file.format, file.meta, file.key, file.header, file.password)'
        /\ file'.format = "2.0" /\ file'.header = header /\ file'.key = key
        /\ file'.password = call.password
        /\ file'.meta = Serialize(host, call.meta, order)
    BY DEF File
  <1>4. \A h \in Hosts : Deserialize(h, file'.meta) = call.meta
    BY <1>1, <1>3, MetaRoundTrip
  <1>5. FileMeta' = call.meta
    BY <1>2, <1>4 DEF FileMeta
  <1>6. MetaInv' /\ Recognized'
    BY <1>1, <1>3, <1>4, <1>5 DEF MetaInv, Recognized
  <1>7. \A password : KeyFor(password)' = Hash256("big", password, call.meta)
    BY <1>3, <1>5 DEF KeyFor
  <1>8. /\ call.new \in KeyTypes \ {NoKey} /\ call.new.password = call.password
    BY <1>1, <1>2, Hashed
  <1>9. KeyFor(file.password)' = call.new
    BY <1>1, <1>3, <1>5 DEF KeyFor
  <1>10. factory' # NoKey => KeyFor(factory.password)' = call.new
    BY <1>1, <1>3, <1>5, <1>8 DEF KeyFor
  <1> QED BY <1>1, <1>3, <1>6, <1>8, <1>9, <1>10, NoKeyTyped DEF FileInv

\* The end of a call, when the file and the key in use are as they should be.
LEMMA EndKeeps ==
    ASSUME IInv, ~Idle, NEW how \in Answers, Ends(how),
           UNCHANGED <<host, config>>, bare' \in BOOLEAN, contexts' \in Int,
           FileInv', factory' \in KeyTypes, file'.key \in KeyTypes,
           file' = File(file.format, file.meta, file.key, file.header, file.password)',
           file'.format \in {"none", "other", "1.0", "2.0"},
           file'.header \in {"missing", "short", "bare", "cut", "full"},
           how \in {"ok", "same"} /\ call.purpose # "edit" => call.password = file'.password,
           how = "wrong" => call.password # file'.password \/ file'.header # "full",
           how \notin {"match", "nomatch"},
           contexts' \in 0..MaxContexts, ~bare' => contexts' = 0
    PROVE  IInv'
  <1>1. /\ call' \in Calls /\ result' \in [how : Answers, purpose : Purposes, password : Asked]
        /\ result'.how = how /\ result'.purpose = call.purpose
        /\ result'.password = call.password
        /\ Idle' /\ TaskInv' /\ NewInv' /\ StepInv' /\ Held' = 0
    BY Ending
  <1>2. host' \in Hosts /\ config' \in Costs
    BY DEF IInv, Typing
  <1>3. Typing'
    BY <1>1, <1>2 DEF Typing
  <1>4. ResultInv'
    BY <1>1 DEF ResultInv, PasswordDecides
  <1>5. ContextInv'
    BY <1>1, KeysAssumption DEF ContextInv
  <1> QED BY <1>1, <1>3, <1>4, <1>5 DEF IInv

LEMMA HeldGone ==
    ASSUME IInv, ~Idle, contexts' = contexts - Held, bare' = bare
    PROVE  /\ contexts' \in Int /\ contexts' \in 0..MaxContexts /\ bare' \in BOOLEAN
           /\ ~bare' => contexts' = 0
  <1>1. /\ contexts \in Int /\ contexts - Held \in 0..(MaxContexts - 1)
        /\ ~bare => contexts = Held
    BY DEF IInv, Typing, ContextInv
  <1>2. contexts' \in 0..MaxContexts /\ (~bare' => contexts' = 0)
    BY <1>1, HeldNumber, KeysAssumption
  <1>3. bare' \in BOOLEAN
    BY DEF IInv, Typing
  <1> QED BY <1>2, <1>3

LEMMA FileTyped ==
    ASSUME IInv, UNCHANGED file
    PROVE  /\ file'.key \in KeyTypes
           /\ file' = File(file.format, file.meta, file.key, file.header, file.password)'
           /\ file'.format \in {"none", "other", "1.0", "2.0"}
           /\ file'.header \in {"missing", "short", "bare", "cut", "full"}
  BY DEF IInv, Typing, File

LEMMA EncryptedKeeps ==
    ASSUME IInv, Encrypted
    PROVE  IInv'
  <1>1. /\ ~Idle /\ Task = "encrypt" /\ UNCHANGED <<host, config, bare>> /\ Held = 1
        /\ contexts' = contexts - Held
    BY Finishing DEF Encrypted
  <1>2. Ends("ok") /\ "ok" \in Answers
    BY DEF Encrypted, Answers
  <1>3. call.purpose \in {"create", "change", "edit"} /\ call \in Calls
    BY <1>1 DEF IInv, Typing, TaskInv
  <1>4. CASE call.purpose = "edit"
    <2>1. UNCHANGED <<factory, file>>
      BY <1>4 DEF Encrypted
    <2>2. FileInv' /\ factory' \in KeyTypes
      BY <2>1, InvKept DEF IInv, Typing
    <2> QED BY <1>1, <1>2, <1>4, <2>1, <2>2, FileTyped, HeldGone, EndKeeps
  <1>5. CASE call.purpose # "edit"
    <2>1. PICK order \in Orders :
             file' = File("2.0", Serialize(host, call.meta, order), call.new, "full", call.password)
      BY <1>5 DEF Encrypted
    <2>2. factory' = call.new /\ call.new \in KeyTypes
      BY <1>3, <1>5 DEF Encrypted, Calls
    <2>3. /\ FileInv' /\ factory' \in KeyTypes
          /\ file' = File(file.format, file.meta, file.key, file.header, file.password)'
          /\ file'.format = "2.0" /\ file'.header = "full" /\ file'.key = call.new
          /\ file'.password = call.password
      BY <1>1, <1>3, <1>5, <2>1, <2>2, NewFile
    <2> QED BY <1>1, <1>2, <2>2, <2>3, HeldGone, EndKeeps
  <1> QED BY <1>4, <1>5

\* What a call knows that decrypts the header.
LEMMA Decrypting ==
    ASSUME IInv, ~Idle, Task = "decrypt"
    PROVE  /\ Recognized /\ call.password \in Passwords
           /\ call.key = KeyFor(call.password) /\ call.key \in KeyTypes
           /\ call.purpose \in {"open", "change"}
           /\ Readable => call.password = file.password
           /\ file.header = "full" /\ ~Readable => call.password # file.password
           /\ UNCHANGED file /\ factory' \in {factory, call.key} =>
                 FileInv' /\ factory' \in KeyTypes
  <1>1. /\ Recognized /\ call.key = KeyFor(call.password)
        /\ call.purpose \in {"open", "change"} /\ call.password \in Passwords
    BY DEF IInv, TaskInv
  <1>2. /\ file.password \in Passwords
        /\ file.header # "missing" => file.key = KeyFor(file.password)
    BY <1>1 DEF IInv, FileInv
  <1>3. \A p \in Passwords : KeyFor(p) \in KeyTypes /\ KeyFor(p).password = p
    BY <1>1, KeysDiffer DEF IInv, Typing, FileInv
  <1>4. Readable => call.password = file.password
    BY <1>1, <1>2, <1>3 DEF Readable
  <1>5. file.header = "full" /\ ~Readable => call.password # file.password
    BY <1>1, <1>2 DEF Readable
  <1>6. ASSUME UNCHANGED file, factory' \in {factory, call.key}
        PROVE  FileInv' /\ factory' \in KeyTypes
    <2>1. CASE factory' = factory
      BY <1>6, <2>1, InvKept DEF IInv, Typing
    <2>2. CASE factory' = call.key
      <3>1. MetaInv' /\ Recognized' /\ file'.password \in Passwords
        BY <1>1, <1>2, <1>6, FileKept DEF IInv, FileInv
      <3>2. file'.header # "missing" => file'.key = KeyFor(file.password)'
        BY <1>2, <1>6 DEF KeyFor, FileMeta
      <3>3. factory'.password = call.password /\ factory' \in KeyTypes
        BY <1>1, <1>3, <2>2
      <3>4. factory' = KeyFor(factory.password)'
        BY <1>1, <1>6, <2>2, <3>3 DEF KeyFor, FileMeta
      <3> QED BY <1>1, <3>1, <3>2, <3>3, <3>4 DEF FileInv
    <2> QED BY <1>6, <2>1, <2>2
  <1> QED BY <1>1, <1>3, <1>4, <1>5, <1>6

LEMMA DecryptedKeeps ==
    ASSUME IInv, Decrypted
    PROVE  IInv'
  <1>1. /\ ~Idle /\ Task = "decrypt" /\ UNCHANGED <<host, config, bare>> /\ Held = 1
        /\ contexts' = contexts - Held /\ UNCHANGED file /\ Readable
    BY Finishing DEF Decrypted
  <1>2. factory' \in {factory, call.key} /\ (Ends("ok") \/ Ends("same"))
    BY DEF Decrypted
  <1>3. FileInv' /\ factory' \in KeyTypes /\ call.password = file'.password
    BY <1>1, <1>2, Decrypting
  <1>4. "ok" \in Answers /\ "same" \in Answers
    BY DEF Answers
  <1> QED BY <1>1, <1>2, <1>3, <1>4, FileTyped, HeldGone, EndKeeps

LEMMA GarbageKeeps ==
    ASSUME IInv, Garbage
    PROVE  IInv'
  <1>1. /\ ~Idle /\ Task = "decrypt" /\ UNCHANGED <<host, config, bare>> /\ Held = 1
        /\ contexts' = contexts - Held /\ UNCHANGED file
    BY Finishing DEF Garbage
  <1>2. factory' \in {factory, call.key} /\ Ends("garbage")
    BY DEF Garbage
  <1>3. FileInv' /\ factory' \in KeyTypes
    BY <1>1, <1>2, Decrypting
  <1>4. "garbage" \in Answers
    BY DEF Answers
  <1> QED BY <1>1, <1>2, <1>3, <1>4, FileTyped, HeldGone, EndKeeps

-----------------------------------------------------------------------------
\* A failure releases the context, but for the one after which bare is set.
LEMMA FaultReleases ==
    ASSUME IInv, Fault
    PROVE  /\ ~Idle /\ UNCHANGED <<host, config>>
           /\ Step # "text" => contexts' = contexts - Held /\ bare' = bare
           /\ contexts' \in Int /\ contexts' \in 0..MaxContexts /\ bare' \in BOOLEAN
           /\ ~bare' => contexts' = 0
  <1>1. /\ ~Idle /\ UNCHANGED <<host, config>>
        /\ contexts' = IF ~NoHeader /\ Destroys(Step) THEN contexts - 1 ELSE contexts
        /\ bare' = (bare \/ Step = "text")
    BY DEF Fault
  <1>2. Step \in Steps /\ (NoHeader => Step \in {"iv", "create"}) /\ contexts \in Int
    BY <1>1 DEF IInv, Typing, TaskInv, StepInv
  <1>3. CASE Step # "text"
    <2>1. contexts' = contexts - Held
      BY <1>1, <1>2, <1>3 DEF Destroys, Held, Holding, Steps
    <2>2. bare' = bare
      BY <1>1, <1>3 DEF IInv, Typing
    <2> QED BY <1>1, <1>3, <2>1, <2>2, HeldGone
  <1>4. CASE Step = "text"
    <2>1. contexts' = contexts /\ Held = 1
      BY <1>1, <1>4 DEF Destroys, Held, Holding
    <2>2. contexts - Held \in 0..(MaxContexts - 1)
      BY <1>1 DEF IInv, ContextInv
    <2>3. contexts' \in 0..MaxContexts
      BY <1>2, <2>1, <2>2, KeysAssumption
    <2>4. bare' \in BOOLEAN /\ bare'
      BY <1>1, <1>4
    <2> QED BY <1>1, <1>2, <1>4, <2>1, <2>3, <2>4
  <1> QED BY <1>3, <1>4

LEMMA DiffersKeeps ==
    ASSUME IInv, Differs
    PROVE  IInv'
  <1>1. /\ Fault /\ Task = "decrypt" /\ Step # "text" /\ call.purpose = "change"
        /\ NextTask(call) /\ UNCHANGED <<factory, file>>
    BY DEF Differs, Wrong
  <1>2. ~Idle /\ UNCHANGED <<host, config, bare>> /\ contexts' = contexts - Held
    BY <1>1, FaultReleases
  <1>3. call \in Calls /\ call.meta \in Meta
        /\ call.new = Hash256("big", call.password, call.meta)
    BY <1>1, <1>2 DEF IInv, Typing, NewInv
  <1> QED BY <1>1, <1>2, <1>3, NextTaskKeeps

LEMMA FailsKeeps ==
    ASSUME IInv, Fails
    PROVE  IInv'
  <1> DEFINE begun == Task = "encrypt" /\ call.purpose # "edit"
  <1>1. /\ ~Idle /\ UNCHANGED <<host, config>>
        /\ contexts' \in Int /\ contexts' \in 0..MaxContexts /\ bare' \in BOOLEAN
        /\ ~bare' => contexts' = 0
    BY FaultReleases DEF Fails
  <1>2. Failure \in {"error", "unrecognized", "wrong"} /\ Failure \in Answers
        /\ (Failure = "wrong" => Wrong)
    BY DEF Failure, Answers
  <1>3. /\ Ends(Failure) /\ Fault
        /\ file' = IF begun THEN Headless ELSE file
        /\ factory' = IF begun /\ call.purpose = "change" THEN call.new ELSE factory
    BY DEF Fails
  <1>4. CASE begun
    <2>1. call.purpose \in {"create", "change"} /\ Task = "encrypt" /\ call \in Calls
      BY <1>1, <1>4 DEF IInv, Typing, TaskInv
    <2>2. call.purpose = "create" => factory = NoKey
      BY <1>1 DEF IInv, TaskInv
    <2>3. factory' \in {NoKey, call.new}
      BY <1>3, <1>4, <2>1, <2>2
    <2>4. (CHOOSE o \in Orders : TRUE) \in Orders
      BY AnOrder
    <2>5. file' = File("2.0", Serialize(host, call.meta, CHOOSE o \in Orders : TRUE), NoKey,
                       "missing", call.password)
      BY <1>3, <1>4 DEF Headless
    <2>6. /\ FileInv' /\ factory' \in KeyTypes
          /\ file' = File(file.format, file.meta, file.key, file.header, file.password)'
          /\ file'.format = "2.0" /\ file'.header = "missing" /\ file'.key = NoKey
      BY <1>1, <2>1, <2>3, <2>4, <2>5, NoKeyTyped, NewFile
    <2> QED BY <1>1, <1>2, <1>3, <2>6, NoKeyTyped, EndKeeps
  <1>5. CASE ~begun
    <2>1. UNCHANGED <<factory, file>>
      BY <1>3, <1>5
    <2>2. FileInv' /\ factory' \in KeyTypes
      BY <2>1, InvKept DEF IInv, Typing
    <2>3. Wrong => call.password # file'.password \/ file'.header # "full"
      <3>1. SUFFICES ASSUME Wrong PROVE call.password # file'.password \/ file'.header # "full"
        OBVIOUS
      <3>2. Task = "decrypt" /\ ~Readable
        BY <1>3, <3>1 DEF Fault, MayFail, MustFail, Wrong
      <3> QED BY <1>1, <2>1, <3>2, Decrypting
    <2> QED BY <1>1, <1>2, <1>3, <2>1, <2>2, <2>3, FileTyped, EndKeeps
  <1> QED BY <1>4, <1>5

-----------------------------------------------------------------------------
(***************************************************************************)
(* The theorems.                                                            *)
(***************************************************************************)
LEMMA StepKeeps ==
    ASSUME IInv, [Next]_vars
    PROVE  IInv'
  <1>1. ASSUME NEW p \in Passwords, Create(p) PROVE IInv'
    <2>1. May("create", p, "newkey")
      BY <1>1 DEF Create, May, Purposes, Asked
    <2> QED BY <1>1, <2>1, BeginKeeps, NoKeyTyped DEF Create
  <1>2. ASSUME NEW p \in Passwords, Open(p) PROVE IInv'
    <2>1. Recognized /\ Begin("open", p, Derives(CipherOf(file.format)), NoKey)
      BY <1>2 DEF Open, Recognized
    <2>2. May("open", p, Derives(CipherOf(file.format)))
      BY <2>1, DerivesRight DEF May, Purposes, Asked
    <2> QED BY <2>1, <2>2, BeginKeeps, NoKeyTyped
  <1>3. ASSUME NEW p \in Passwords, Unlock(p) PROVE IInv'
    <2>1. Recognized /\ factory.cipher = CipherOf(file.format)
      BY <1>3, InUse DEF Unlock, IInv
    <2>2. May("unlock", p, Derives(factory.cipher))
      BY <1>3, <2>1, DerivesRight DEF Unlock, May, Purposes, Asked
    <2> QED BY <1>3, <2>2, BeginKeeps, NoKeyTyped DEF Unlock
  <1>4. ASSUME NEW p \in Passwords, Change(p) PROVE IInv'
    <2>1. May("change", p, "newkey")
      BY <1>4 DEF Change, May, Purposes, Asked
    <2> QED BY <1>4, <2>1, BeginKeeps, NoKeyTyped DEF Change
  <1>5. CASE Edit
    <2>1. May("edit", "", "encrypt") /\ factory \in KeyTypes
      BY <1>5 DEF Edit, May, Purposes, Asked, IInv, Typing
    <2> QED BY <1>5, <2>1, BeginKeeps DEF Edit
  <1>6. CASE UNCHANGED vars
    <2>1. Idle' = Idle /\ Held' = Held /\ Task' = Task /\ Step' = Step /\ NoHeader' = NoHeader
      BY <1>6 DEF vars, Idle, Held, Task, Step, NoHeader
    <2>2. Typing' /\ ResultInv' /\ ContextInv'
      BY <1>6, <2>1 DEF vars, IInv, Typing, File, ResultInv, PasswordDecides, ContextInv
    <2>3. FileInv' /\ Recognized' = Recognized
      BY <1>6, InvKept, FileKept DEF vars, IInv
    <2>4. KeyFor(call.password)' = KeyFor(call.password)
      BY <1>6 DEF vars, KeyFor, FileMeta
    <2>5. TaskInv' /\ NewInv' /\ StepInv'
      BY <1>6, <2>1, <2>3, <2>4 DEF vars, IInv, TaskInv, NewInv, StepInv
    <2> QED BY <2>2, <2>3, <2>5 DEF IInv
  <1> QED BY <1>1, <1>2, <1>3, <1>4, <1>5, <1>6, NotRecognizedKeeps, DiffersKeeps, FailsKeeps,
             AdvanceKeeps, NewKeyKeeps, Argon2Keeps, DigestKeeps, EncryptedKeeps,
             DecryptedKeeps, GarbageKeeps, RestartKeeps, DamageKeeps DEF Next

LEMMA IInvImplies ==
    ASSUME IInv
    PROVE  TypeOK /\ PasswordDecides /\ ContextsReleased
  <1>1. contexts \in 0..(MaxContexts + 1)
    <2>1. contexts - Held \in 0..MaxContexts
      BY KeysAssumption DEF IInv, ContextInv
    <2> QED BY <2>1, HeldNumber, KeysAssumption DEF IInv, Typing
  <1>2. TypeOK
    BY <1>1 DEF IInv, Typing, TaskInv, Tasks, Steps, Calls, TypeOK
  <1>3. ContextsReleased
    BY HeldNumber DEF IInv, ContextInv, ContextsReleased
  <1> QED BY <1>2, <1>3 DEF IInv, ResultInv

\* Keys and costs of every size: a key is made of what somebody configured, and
\* every call stands before a step of its task (key256.cc, key448.cc).
THEOREM KeysTyping == Spec => []TypeOK
  <1>1. Init => IInv
    BY InitInv
  <1>2. IInv /\ [Next]_vars => IInv'
    BY StepKeeps
  <1>3. IInv => TypeOK
    BY IInvImplies
  <1> QED BY <1>1, <1>2, <1>3, PTL DEF Spec

\* The password decides over every file, whatever its meta data, and on machines
\* of either byte order (composeSaltFromIntegers, MetaData, validateExistingFile).
THEOREM KeysPassword == Spec => []PasswordDecides
  <1>1. Init => IInv
    BY InitInv
  <1>2. IInv /\ [Next]_vars => IInv'
    BY StepKeeps
  <1>3. IInv => PasswordDecides
    BY IInvImplies
  <1> QED BY <1>1, <1>2, <1>3, PTL DEF Spec

\* No context of OpenSSL outlives a call but in the one case (initializeOrThrow,
\* encrypt, decrypt, and hash of key448.cc).
THEOREM KeysContexts == Spec => []ContextsReleased
  <1>1. Init => IInv
    BY InitInv
  <1>2. IInv /\ [Next]_vars => IInv'
    BY StepKeeps
  <1>3. IInv => ContextsReleased
    BY IInvImplies
  <1> QED BY <1>1, <1>2, <1>3, PTL DEF Spec
=============================================================================
