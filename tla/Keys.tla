-------------------------------- MODULE Keys --------------------------------
(***************************************************************************)
(* From a password to a key, and from a key to what a file holds: the       *)
(* factories (crypt/aes256factory.cc, crypt/blowfishfactory.cc), the keys   *)
(* (key256.cc, key448.cc), the keying parameters as the unencrypted meta    *)
(* data of a file (metadata.cc, ods.hh), and the ciphers (crypto.cc,        *)
(* aes256.cc) with the OpenSSL contexts they hold.                          *)
(*                                                                          *)
(* One file is used by one process after the other, on machines of either   *)
(* byte order and with whatever Argon2 costs are configured there.  A call  *)
(* has one task after the other, a task one step after the other, and each  *)
(* may fail.  The hashes are injective, a ciphertext is the key it was made *)
(* with; how the file is written is PetFile's subject.                      *)
(***************************************************************************)
EXTENDS Integers, Sequences, FiniteSets

CONSTANTS
    Passwords,
    Costs,          \* the Argon2 costs that may be configured, as one number
    Salts,          \* the random salts, as pairs of integers
    Base,           \* an integer has two bytes of this base
    MaxContexts     \* bound on the contexts lost

VARIABLES
    host,       \* the byte order of the machine
    config,     \* Globals::config's Argon2 costs
    factory,    \* the key of the crypto factory in use
    file,       \* the password file
    call,       \* the call that runs
    result,     \* how the last one ended, and what it had been asked
    contexts,   \* OpenSSL contexts allocated
    bare        \* history: a ciphertext without any text was decrypted

vars == <<host, config, factory, file, call, result, contexts, bare>>

Integer == 0..(Base * Base - 1)

ASSUME KeysAssumption == /\ Base \in Nat \ {0, 1} /\ MaxContexts \in Nat
                         /\ Costs \subseteq Integer
                         /\ Salts \subseteq Integer \X Integer

(***************************************************************************)
(* The on-disk structure of an integer.                                     *)
(***************************************************************************)
Hosts == {"big", "little"}

\* The bytes of an integer in memory, and back.
Memory(h, i) == IF h = "big" THEN <<i \div Base, i % Base>> ELSE <<i % Base, i \div Base>>
FromMemory(h, b) == IF h = "big" THEN b[1] * Base + b[2] ELSE b[2] * Base + b[1]

ReverseBytes(i) == (i % Base) * Base + i \div Base

ToODS(h, i)  == IF h = "big" THEN i ELSE ReverseBytes(i)
ToHost(h, i) == IF h = "big" THEN i ELSE ReverseBytes(i)

(***************************************************************************)
(* Meta data: a map without an order, which is serialized in any.           *)
(***************************************************************************)
Names  == {"cost", "salt1", "salt2"}
NoMeta == [n \in {} |-> 0]

Orders == {o \in [1..Cardinality(Names) -> Names] : \A i, j \in DOMAIN o : o[i] = o[j] => i = j}

Serialize(h, meta, order) ==
    [i \in DOMAIN order |-> [name |-> order[i], bytes |-> Memory(h, ToODS(h, meta[order[i]]))]]

\* Mutant: the value is taken as it comes from the file.
DeserializeRaw(h, items) ==
    [n \in {items[i].name : i \in DOMAIN items} |->
        FromMemory(h, items[CHOOSE i \in DOMAIN items : items[i].name = n].bytes)]

Deserialize(h, items) ==
    [n \in {items[i].name : i \in DOMAIN items} |->
        ToHost(h, FromMemory(h, items[CHOOSE i \in DOMAIN items : items[i].name = n].bytes))]

(***************************************************************************)
(* Keys.                                                                    *)
(***************************************************************************)
NoKey == [cipher |-> "none"]

\* Mutant: the bytes as they are in memory.
ComposeSaltInMemory(h, meta) == Memory(h, meta["salt1"]) \o Memory(h, meta["salt2"])

\* composeSaltFromIntegers: the same bytes on every machine.
ComposeSalt(h, meta) == Memory(h, ToODS(h, meta["salt1"])) \o Memory(h, ToODS(h, meta["salt2"]))

Hash256(h, password, meta) ==
    [cipher |-> "aes256", password |-> password, cost |-> meta["cost"], salt |-> ComposeSalt(h, meta)]

\* Neither costs nor a salt.
Hash448(password) == [cipher |-> "blowfish", password |-> password]

\* newDefaultKeyingParameters
Parameters(salt) == [n \in Names |-> CASE n = "cost"  -> config
                                       [] n = "salt1" -> salt[1]
                                       [] n = "salt2" -> salt[2]]

(***************************************************************************)
(* The file.  header tells how much of the encrypted header is there: none, *)
(* less than an initialization vector, exactly one, or a part of the text;  *)
(* password is a history variable, the one its key was made from.           *)
(***************************************************************************)
File(format, meta, key, header, password) ==
    [format |-> format, meta |-> meta, key |-> key, header |-> header, password |-> password]

NoFile(format) == File(format, <<>>, NoKey, "missing", "")

Stored == Deserialize(host, file.meta)

(***************************************************************************)
(* Calls.  meta and new are the parameters and the key a call makes, or the *)
(* key it encrypts with; key is the one tried on the file.                  *)
(***************************************************************************)
Purposes == {"none", "create", "open", "unlock", "change", "edit"}
Answers  == {"none", "ok", "same", "match", "nomatch", "wrong", "garbage", "unrecognized", "error"}

Asked == Passwords \cup {""}

NoCall == [purpose |-> "none", password |-> "", task |-> "none", step |-> "none",
           meta |-> NoMeta, new |-> NoKey, key |-> NoKey]

Idle == call = NoCall

NoResult == [how |-> "none", purpose |-> "none", password |-> ""]

Digests == {"sha1", "md5", "ripemd160", "ivec"}

\* The first task of the factory of a cipher.
Derives(cipher) == IF cipher = "blowfish" THEN "sha1" ELSE "argon2"

CipherOf(format) == IF format = "1.0" THEN "blowfish" ELSE "aes256"

\* The tasks of a call, one after the other.
TaskAfter(task) ==
    CASE task = "newkey"    -> IF call.purpose = "create" THEN "encrypt"
                               ELSE Derives(factory.cipher)
      [] task = "sha1"      -> "md5"
      [] task = "md5"       -> "ripemd160"
      [] task = "ripemd160" -> "ivec"
      [] task \in {"argon2", "ivec"} -> "decrypt"
      [] OTHER              -> "encrypt"

\* AES has an initialization vector of its own in front of every text.
FirstStep(c) ==
    CASE c.task = "newkey" \/ (c.task = "encrypt" /\ c.new.cipher = "aes256") -> "random"
      [] c.task = "argon2" -> "hash"
      [] c.task = "decrypt" /\ c.key.cipher = "aes256" -> "iv"
      [] OTHER -> "create"

\* The steps of a task: the context, its initialization, the length of the key,
\* the text, and what OpenSSL does with it.
StepAfter(step) ==
    CASE step = "random" /\ call.task = "newkey" -> "hash"
      [] step \in {"random", "iv"} /\ call.task # "newkey" -> "create"
      [] step = "create" -> "init"
      [] step = "init"   -> IF call.task \in Digests THEN "update" ELSE "keylen"
      [] step = "keylen" -> IF call.task = "decrypt" /\ call.key.cipher = "aes256"
                            THEN "text" ELSE "update"
      [] step = "text"   -> "update"
      [] OTHER           -> "final"

LastSteps == {"hash", "final"}

Begins(c) == [c EXCEPT !.step = FirstStep(c)]

Begin(purpose, password, task, new) ==
    /\ Idle /\ contexts < MaxContexts
    /\ call' = Begins([NoCall EXCEPT !.purpose = purpose, !.password = password,
                                     !.task = task, !.new = new])
    /\ result' = NoResult
    /\ UNCHANGED <<host, config, factory, file, contexts, bare>>

\* A new file, in place of what is there: CreateFile, LoadFileCmdLine, csv2yapet.
Create(password) == factory = NoKey /\ Begin("create", password, "newkey", NoKey)

\* getCryptoFactoryForFile, and the File of the factory.
Open(password) ==
    /\ factory = NoKey /\ file.format \in {"1.0", "2.0"}
    /\ Begin("open", password, Derives(CipherOf(file.format)), NoKey)

\* A file of another kind: no factory.
NotRecognized == /\ Idle /\ factory = NoKey /\ file.format = "other"
                 /\ result' = [NoResult EXCEPT !.how = "unrecognized"]
                 /\ UNCHANGED <<host, config, factory, file, call, contexts, bare>>

\* matchPasswordWithCurrent: the factory in use makes another of its kind.
Unlock(password) == /\ factory # NoKey
                    /\ Begin("unlock", password, Derives(factory.cipher), NoKey)

\* ChangePassword: the new key, then whether the new password is the old one.
Change(password) ==
    /\ factory # NoKey
    /\ Begin("change", password, "newkey", NoKey)

\* A record is encrypted.
Edit == factory # NoKey /\ Begin("edit", "", "encrypt", factory)

-----------------------------------------------------------------------------
Task == call.task
Step == call.step
Last == Step \in LastSteps

Ends(how) == /\ call' = NoCall
             /\ result' = [how |-> how, purpose |-> call.purpose, password |-> call.password]

NextTask(c) == /\ call' = Begins([c EXCEPT !.task = TaskAfter(Task)])
               /\ UNCHANGED result

\* The header gives its text back.
Readable == file.header = "full" /\ file.key = call.key

\* Nothing to decrypt: no header, no initialization vector, no text after it.
NoHeader == Task = "decrypt" /\ file.header = "missing"
MustFail == \/ NoHeader
            \/ Step = "iv" /\ file.header = "short"
            \/ Step = "text" /\ file.header = "bare"

\* Wrong: an EncryptionError while a password is tried.
Wrong == ~NoHeader /\ Task = "decrypt" /\ Step \in {"update", "final"}

\* Every step of OpenSSL may fail, but for the decryption of what is readable.
MayFail == \/ MustFail
           \/ Wrong /\ ~Readable
           \/ ~Wrong /\ Step \notin {"iv", "text"}

\* Mutant: a context that was set up halfway stays.
DestroysLate(step) == step \in {"update", "final"}

\* destroyContext on the way out.
Destroys(step) == step \in {"init", "keylen", "update", "final"}

\* A file whose header could not be encrypted any more.
Headless == File("2.0", Serialize(host, call.meta, CHOOSE o \in Orders : TRUE), NoKey, "missing",
                 call.password)

Fault == /\ ~Idle /\ MayFail
         /\ contexts' = IF ~NoHeader /\ Destroys(Step) THEN contexts - 1 ELSE contexts
         /\ bare' = (bare \/ Step = "text")
         /\ UNCHANGED <<host, config>>

\* A wrong password lets ChangePassword go on with the new key.
Differs == /\ Fault /\ Wrong /\ call.purpose = "change"
           /\ NextTask(call)
           /\ UNCHANGED <<factory, file>>

\* Any other exception ends the call.  getCryptoFactoryForFile takes it for the
\* sign of a file that is not one of YAPET.
Failure == IF call.purpose # "open" THEN "error"
           ELSE IF Task # "decrypt" THEN "unrecognized"
           ELSE IF Wrong THEN "wrong" ELSE "error"

\* The new file has its meta data, the main window the new key.
Fails ==
    /\ Fault /\ ~(Wrong /\ call.purpose = "change")
    /\ Ends(Failure)
    /\ LET begun == Task = "encrypt" /\ call.purpose # "edit"
       IN  /\ file' = IF begun THEN Headless ELSE file
           /\ factory' = IF begun /\ call.purpose = "change" THEN call.new ELSE factory

-----------------------------------------------------------------------------
\* A step that is not the last of its task.
Advance ==
    /\ ~Idle /\ ~Last /\ ~MustFail
    /\ contexts' = IF Step = "create" THEN contexts + 1 ELSE contexts
    /\ \E meta \in IF Task = "newkey" THEN {Parameters(salt) : salt \in Salts} ELSE {call.meta} :
          call' = [call EXCEPT !.step = StepAfter(Step), !.meta = meta]
    /\ UNCHANGED <<host, config, factory, file, result, bare>>

Finishes(task) == ~Idle /\ Last /\ Task = task /\ UNCHANGED <<host, config, bare>>

\* The key of a new file, or of a new password.
NewKey == /\ Finishes("newkey")
          /\ NextTask([call EXCEPT !.new = Hash256(host, call.password, call.meta)])
          /\ UNCHANGED <<factory, file, contexts>>

\* The key of a password that is tried; unlocking compares it.
Derived(key) ==
    /\ IF call.purpose = "unlock"
       THEN Ends(IF key = factory THEN "match" ELSE "nomatch")
       ELSE NextTask([call EXCEPT !.key = key])
    /\ UNCHANGED <<factory, file>>

Argon2 == /\ Finishes("argon2")
          /\ Derived(Hash256(host, call.password, Stored))
          /\ UNCHANGED contexts

\* The digests of sha1, md5 and ripemd160 make the key, another one the
\* initialization vector.
Digest == /\ \E task \in Digests :
                /\ Finishes(task)
                /\ IF task = "ivec" THEN Derived(Hash448(call.password))
                   ELSE NextTask(call) /\ UNCHANGED <<factory, file>>
          /\ contexts' = contexts - 1

\* The header of the new file.
Encrypted ==
    /\ Finishes("encrypt")
    /\ contexts' = contexts - 1
    /\ Ends("ok")
    /\ IF call.purpose = "edit" THEN UNCHANGED <<factory, file>>
       ELSE /\ factory' = call.new
            /\ \E order \in Orders :
                  file' = File("2.0", Serialize(host, call.meta, order), call.new, "full",
                               call.password)

\* The file opens; ChangePassword has nothing to do.
Decrypted ==
    /\ Finishes("decrypt") /\ Readable
    /\ contexts' = contexts - 1
    /\ IF call.purpose = "open" THEN factory' = call.key /\ Ends("ok")
       ELSE UNCHANGED factory /\ Ends("same")
    /\ UNCHANGED file

\* What is not readable may decrypt to something: an unknown version ends the
\* call, anything else passes for a header (PetFile tells what then).
Garbage ==
    /\ Finishes("decrypt") /\ ~NoHeader /\ ~Readable
    /\ contexts' = contexts - 1
    /\ Ends("garbage")
    /\ factory' \in IF call.purpose = "open" THEN {factory, call.key} ELSE {factory}
    /\ UNCHANGED file

-----------------------------------------------------------------------------
\* The next process, on the same machine or on another one.
Restart == /\ Idle /\ (factory # NoKey \/ result # NoResult)
           /\ factory' = NoKey /\ result' = NoResult
           /\ host' \in Hosts /\ config' \in Costs
           /\ UNCHANGED <<file, call>>
           /\ contexts' = 0 /\ bare' = FALSE

\* Between two processes the file loses the end of its header.
Damage == /\ Idle /\ factory = NoKey /\ file.header = "full"
          /\ \E header \in {"short", "bare", "cut"} : file' = [file EXCEPT !.header = header]
          /\ UNCHANGED <<host, config, factory, call, result, contexts, bare>>

\* A file of an earlier version, of another program, or none yet.
Init == /\ host \in Hosts /\ config \in Costs
        /\ factory = NoKey /\ call = NoCall /\ result = NoResult
        /\ file \in {NoFile("none"), NoFile("other")}
                    \cup {File("1.0", <<>>, Hash448(p), "full", p) : p \in Passwords}
        /\ contexts = 0 /\ bare = FALSE

Next == \/ \E p \in Passwords : Create(p) \/ Open(p) \/ Unlock(p) \/ Change(p)
        \/ NotRecognized \/ Edit
        \/ Differs \/ Fails \/ Advance
        \/ NewKey \/ Argon2 \/ Digest \/ Encrypted \/ Decrypted \/ Garbage
        \/ Restart \/ Damage

Spec == Init /\ [][Next]_vars

-----------------------------------------------------------------------------
\* Types: the costs of a key are costs that somebody configured, its salt has
\* the bytes of two integers, and a call stands before a step of its task.
KeyTypes == {NoKey} \cup [cipher : {"blowfish"}, password : Passwords]
                    \cup [cipher : {"aes256"}, password : Passwords, cost : Costs,
                          salt : [1..4 -> 0..(Base - 1)]]

TypeOK == /\ host \in Hosts /\ config \in Costs
          /\ {factory, file.key, call.key, call.new} \subseteq KeyTypes
          /\ file.format \in {"none", "other", "1.0", "2.0"}
          /\ file.header \in {"missing", "short", "bare", "cut", "full"}
          /\ result \in [how : Answers, purpose : Purposes, password : Asked]
          /\ call.purpose \in Purposes /\ call.password \in Asked
          /\ ~Idle => /\ Task \in {"newkey", "argon2", "decrypt", "encrypt"} \cup Digests
                      /\ Step \in {"random", "hash", "iv", "create", "init", "keylen", "text",
                                  "update", "final"}
          /\ contexts \in 0..MaxContexts + 1 /\ bare \in BOOLEAN

\* The password decides, and nothing else: whichever machine of either byte
\* order wrote the file, whatever costs are configured where it is read, in
\* whatever order its meta data are.  A file opens, or ChangePassword finds the
\* new password to be the old, with the password of the file only; the password
\* of the file is never wrong, unless its header is damaged.  Unlocking takes
\* the password of the key in use, after a change of it too.
PasswordDecides ==
    /\ result.how \in {"ok", "same"} /\ result.purpose # "edit" =>
          result.password = file.password
    /\ result.how = "wrong" => result.password # file.password \/ file.header # "full"
    /\ result.how = "match" => result.password = factory.password
    /\ result.how = "nomatch" => result.password # factory.password

\* No context of OpenSSL outlives the call that made it, whichever step failed.
\* The exception is a record of an initialization vector and nothing else:
\* Aes256::decrypt extracts the text when it has the context already.
ContextsReleased == Idle /\ ~bare => contexts = 0
=============================================================================
