# TLA+ models of YAPET

YAPET keeps password records in an encrypted file and shows them on a text
screen. Two converters, `csv2yapet` and `yapet2csv`, exchange records with CSV
files. This directory holds TLA+ models of the parts of YAPET in which the order
of steps, failures and other processes matter, the TLC configurations that check
them on small instances, and proofs, checked by TLAPS, that most of the
properties hold for every instance.

To check a model: `tlc -config PetFileSingle.cfg MCPetFileCalls`. To check a proof:
`tlapm PetFileProofs.tla`. `PROJECT.json` lists runs, mutants, theorems and, for
every definition, the source lines it models.


## 1. Inventory

Paths are below `src/src/` of the repository; `libs/` is left out in front of the
library directories.

| component | state | operations | interacts with |
|---|---|---|---|
| `File` (`crypt/file.cc`) | crypto factory, file name, modification time stamp, `_yapetFile` | constructor (open, create), `save`, `read`, `setNewKey` | opens and replaces `Yapet10File`/`Yapet20File`; used by the main window, glue objects and converters |
| `Yapet10File`, `Yapet20File`, `YapetFile`, `RawFile`, headers (`file/`) | a stdio stream, create/secure flags | identifier, meta data, header, passwords | the file system, shared with other processes |
| keys, ciphers, meta data (`crypt/`, `metadata/`, `utils/ods.hh`) | key bytes, Argon2 parameters, contexts of OpenSSL | derive, compare, encrypt, decrypt, serialise parameters | owned by crypto factories, shared by pointer; parameters travel in the file |
| main window (`ui/mainwindow.cc`) | `_yapetFile`, `_cryptoFactory`, record list, `records_changed`, `record_index`, search, dialogs | load, save, change key, add, edit, delete, sort, search, quit | calls `File`; receives `EVT_APOPTOSIS` |
| record dialog (`ui/passwordrecord.cc`) and records (`passwordrecord/`) | fields, read-only, changed by the generator, closing by force | type, generate, confirm, OK, cancel | hands an entry to the main window |
| glue objects (`glue/`) | the dialogs they show, `ignore_unsaved_file`, file name, prompt | load, create, change password, open the file of the command line | call the main window; delete each other by `EVT_APOPTOSIS` |
| lock screen (`ui/yapetlockscreen.cc`, `ui/yapetunlockdialog.cc`) | timers | lock, unlock, quit | asks the main window to match a password |
| configuration (`cfg/`) and `main()` (`yapet/main.cc`) | 16 options with bounds and locks | command line, configuration file, unlocking | read by all, written by `CreateFile` and the generator dialog |
| generator dialog (`ui/pwgendialog.cc`) | a password generator, pools, size | select pools, regenerate | configuration, `pwgen/` |
| password generator (`pwgen/`) | pools; random engines with a descriptor and a cache | construct, copy, move, draw, generate | `/dev/urandom`, the descriptor table of the process |
| CSV code (`converters/csv`) | fields, lines | quote, unquote, parse | both converters |
| `csv2yapet`, `yapet2csv` | line number, record list, error log | command line, prompt, import, export | `File`, CSV files, other programs |
| secure arrays (`utils/securearray.cc`) | bytes with one owner | copy, wipe | everywhere |
| other dialogs, `YACURS` | | | `YACURS` is a library outside of the repository |

What is hard here, and what makes the components correct:

* **File.** A save rewrites the file in place and a key change renames it away,
  creates it anew and copies the records; every system call may fail and the
  process may die in between. Two processes see each other only by modification
  times of one second, and a reading that ends early may pass for the end of the
  file. Correct means: what was reported stored can be read again from the file
  or its backup, a call that returns leaves a whole file, and a complete one but
  for a key change whose reading was cut short, nobody overwrites what somebody
  else did in between, and a caller needs to know few outcomes of a call,
  wherever it fails.
* **Keys.** The parameters of a key are made from one process's configuration,
  pass through a file of fixed byte order, and are used by another process with
  another configuration, perhaps on a machine of the other byte order. Every
  call of OpenSSL may fail half way. Correct means: the password alone decides
  whether a file opens, and no context is left behind.
* **Main window and glue.** Four pieces of state (factory, `File`, list,
  `records_changed`) are changed one by one in functions that may throw half
  way; dialogs return through callbacks and event queue, and the objects behind
  them delete themselves; the screen may lock during any dialog. Correct means:
  the four agree, saving does not lose records, unsaved changes go only by
  agreement, objects are deleted exactly once.
* **List and record dialog.** Only `record_index` says which entry an open dialog
  is about while the highlighted row moves; the name of an entry is stored
  twice; a search goes on over a list that changes. Correct means: an answer
  changes the entry it was about, nothing that was entered is lost unasked (but
  by the crash and the lock screen of section 4), and a search comes by every
  match.
* **Configuration.** Each value comes from up to five places, with locks that
  make later ones ineffective. Correct means: the command line wins over the
  file, creating a file uses the name asked for, the generator always has a pool.
* **Password generator.** Engines own descriptors that the kernel reuses, are
  copied and moved, and are bytes that are read in advance; a password is made
  anew until it has a character of each pool. Correct means: each descriptor
  has one owner, a password has what was asked for, and making it ends.
* **Converters.** Quoting, reading of quoted line ends and the limit on the
  length of lines are three scanners that must agree, and the main functions look
  for the destination long before they write it. Correct means: what is exported
  can be imported, what other programs quote is understood or reported (but for
  the files of section 4), a torn file never yields half a record, and files of
  others stay.

`PROJECT.json` lists each hazard at its line, with the properties that would
catch it going wrong. Where the code does go wrong, no property can hold: the
models have the case as a step, the properties next to it except it by name, and
the hazard has a note instead.


## 2. Modules

```
PetFile --- PetFileInv --- MCPetFile                     (PetFileShared/WrongKey.cfg)
   |            |     \--- PetFileCalls --- MCPetFileCalls (PetFileSingle.cfg)
   |            |              implements RecordStore
   |            \--------- PetFileSingleProofs
   \---------------------- PetFileProofs

FileOutcomes -- RecordStore
   \----------- Session -- MCSession                     (Session/SessionGlue/SessionCommitted.cfg)
                    \----- SessionProofs

RecordWindow ------------- MCRecordWindow                (RecordWindow/RecordWindowStored.cfg)
   |    implements RecordList
   \---------------------- RecordWindowProofs

Keys --------------------- MCKeys, KeysProofs            (Keys.cfg)
Rng --- Pwgen ------------ MCPwgen, PwgenProofs          (Pwgen.cfg)
Config ------------------- MCConfig, ConfigProofs        (Config.cfg)
Csv --- Converters ------- MCConverters, ConvertersProofs (Converters.cfg)
```

The models meet where the components do. `Session` uses each member function of
`File` as a single step, and takes what it leaves from `FileOutcomes`;
`RecordStore` is a specification of `File` made of the same outcomes; `PetFile`
implements `RecordStore`. `RecordList` is the list as `Session` sees it, and
`RecordWindow` implements it. `Converters` takes opening and saving a file as
single steps, `Keys` a header that decrypts to garbage as the end of a call and
`PetFile` goes on from there. `Config` opens the generator that `Pwgen` is.

### PetFile

One action is one system call of `File` and the layers below it, or a run of
calls between which no other process can make a difference. `obj[p]` is the
`File` of process `p` (`raw` is `_yapetFile` and the state of its stream, `fd`
the file the stream refers to, `stamp` is `_fileModificationTime`), `call[p]`
the member function that is running and where it is, `disk` what the names
`file` and `file.bak` denote.

| code | actions |
|---|---|
| `File::File`, `openAsExisting`, `createNew`, `validateExistingFile` | `OpenRaw`, `HeaderAccepted`, `HeaderRejected`, `CreateRaw`, `CreateRawFails`, `WritePart`, `WritePartFails` |
| `File::save` | `SaveCheck`, `CheckRefuses`, `Truncate`, `ReadHeaderFails`, `Reopen`, `WriteRecord`, `WriteFails`, `Flushed`, `Stamp` |
| `File::setNewKey` | `KeyCheck`, `Rename`, `OpenBackup`, `NewFile`, `Convert` and their failures, then as in `save` |
| `File::read` | `Read`, `ReadFails` |
| destructor, death of the process | `Stop`, at any point |

Abstractions: a record is a model value, an encrypted record the pair of record
and key, a key is a crypto factory with its salt and file version. The record
area is a set: order never matters, and `RawFile::read` drops a torn tail.
`fopen`, `chmod` and the test of the size are one step. `RawFile::read` takes a
length it cannot read for the end of the file (`file/rawfile.cc:153`), whatever
the reason, so a reading delivers any part of the records (`ReadsOf`).
`File::read` then leaves the stream in error ("bad"), through which nothing is
saved any more; `setNewKey`, which reads the backup, notices nothing. A record
under another key than the header's is garbage after a key change, or fails it:
`setNewKey` encrypts again whatever bytes the old key decrypts to
(`Reencrypted`, the key is `NoKey` then). `File::read` decrypts each record
into a `PasswordRecord`, whose check of the size (`passwordrecord.cc:79`) refuses
garbage: there a wrong key fails. The header under a wrong key sometimes
does not (that is the run `wrongkey`). `lost` says that a key change has dropped
or spoilt records, and its result is "damaged", which the caller cannot tell
from "rekeyed". A stream whose file lost its name may read anything. Not
modelled: writes that the kernel loses after they were reported (a power
failure), a clock that is set back, tools that set modification times, the
`forcewrite` argument, which the program never uses.

Histories: `promised` is what the caller was last told is stored; `foreign[p]`
is the last second another process changed the file since the stamp of `p`.

### FileOutcomes, RecordStore, PetFileCalls

`RecordStore` is `File` for those who call it: each member function is one step,
from the states of file, backup and object before the call to one of a few after
it. A save that fails after it truncated the file leaves some of the new records
and none of the old; a key change that fails leaves a file that cannot be read,
or one with some of the records under the new key, and always the file as it was
under the name of the backup; a key change that returns normally leaves all of
the records, or some of them, or garbage for some of them, and the same backup
(`Rekeyings`); a reading may leave the object in error (`Spoil`); a constructor
that fails leaves a file that cannot be read or is empty. What is killed leaves
the same files and no object, so `Close` also stands for the death of the
process between two calls.

`PetFileCalls` adds a history variable to `PetFile`: `before` keeps file, backup
and object as they were when the running call began. Under the refinement
mapping, `RecordStore` sees this picture while a call runs and the present state
when none does; so all steps inside a call stutter and the last one has to be a
step of `RecordStore`. The mapping holds for one process: with two, the
files change inside a call.

### Session

One run of `yapet`. A step is a key press or the answer to a dialog, with the
whole handler behind it, an event from the queue, the lock alarm, or a key
change by another process. `glue` is the object that walks the user through its
dialogs, `dialog` the dialog on top, `queue` the `EVT_APOPTOSIS` events.

| code | actions |
|---|---|
| `MainWindow::load_password_file` | `load_password_file` = `Loads`, `LoadFails` |
| `save_records`, `change_password` | `SaveSucceeds`, `SaveFails`, `SaveCrashes`; `change_password` |
| `window_close_handler` of the main window | `ChangeList`, `ConfirmQuit`, `CloseError` |
| `LoadFile`, `CreateFile`, `LoadFileCmdLine`, `ChangePassword`, `PromptPassword` | `Start`, `ConfirmSaveYes/No/Cancel`, `ChooseFile`, `PromptPassword`, `CreateNewFile`, `OldPassword`, `ChangeKey`, ... one action for each dialog and answer |
| `apoptosis_handler`s | `PromptApoptosis`, `GlueApoptosis` |
| lock screen | `Lock`, `Unlock`, `UnlockRefused`, `UnlockFails`, `LockQuit` |

Abstractions: a member function of `File` is one step with the outcomes of
`FileOutcomes`: a list that is read may be short (`ReadInto`), and then no save
goes through, and a key change may leave part of the records. A wrong key is
rejected and a foreign change noticed; `PetFile`
says when they are not, and `fresh` is whether the stamp still is the time of
the file. Only the creation of a file over the one that is open may leave it so,
when both fall into one second. Dialogs are modal, input waits
until the event queue is empty, and so does the alarm; this is `YACURS`, which
is external. A `ChangePassword` that was left alive (section 4) is forgotten
when the next dialog starts. Keys of Blowfish files, which have no salt, are not
told apart. Calls on a `File` whose `_yapetFile` is null are steps into the
state "crashed". A locked screen that no password opens stays locked: that is
`UnlockRefused`, not a deadlock.

Histories: `clean` says that no operation failed since the list was loaded,
`owed` for each path the records stored there and never edited or deleted. A key
change reduces it to what it left in the file; the rest is in the backup.

### RecordWindow and RecordList

The list of the main window, with a file open, down to the fields of the record
dialog. `list` has for each entry its name and the encrypted record, `dialog` is
the record dialog with the innermost dialog on top of it.

| code | actions |
|---|---|
| `show_password_record` | `NewRecord`, `ShowRecord` |
| `PasswordRecord` (the dialog) | `Type`, `ToggleReadonly`, `OpenGenerator`, `CloseGenerator`, `Ok`, `OkFails`, `Cancel`, `ConfirmDiscard` |
| `delete_selected` | `DeleteSelected`, `ConfirmDelete` |
| `search_first`, `search_next`, `sort_asc` | `SearchFirst`, `CloseSearch`, `SearchNext`, `SortOrder` |
| help, information, generator | `Show`, `Close` |
| `save_records` | `Saved` |
| `YapetLockScreen`, `YapetUnlockDialog` | `Lock`, `Unlock`, `LockQuit` |

`Ok` is the whole way of the answer: `on_ok_button`, `on_close`, and
the main window's handler, which replaces or adds the entry and sorts.
Abstractions: a text is its length, all texts being beginnings of one long text;
this keeps what matters of names, that they are cut, ordered, and found in
longer ones. The highlighted row is not kept, since the user and a
resized screen move it at any time: a step that uses it takes any row. Records
may fail to decrypt, as they do after a failed key change. The screen locks over
any dialog; its quit button is there while no change of the list is unsaved, and
what an open dialog holds does not count. `over` is the end of the program, by
that button or by a failed encryption. `std::sort` promises no
order among entries of equal names, and the list it leaves is any of `Sortings`,
the permutations in which no entry comes behind one it is before.

`RecordList` is the promise: a bag of entries, one of which is shown, and what
follows replaces or deletes that one or adds one, and sets the mark of unsaved
changes.

Histories: `seen` are the rows the search came by, `stale` says that the list
changed meanwhile.

### Keys

One password file that goes from process to process. `host` and `config` are the
byte order and the Argon2 costs of the present one; `file` has the meta data as
the bytes they are, and the key of its header. A call (`Create`, `Open`,
`Unlock`, `Change`, `Edit`) is a sequence of tasks (a new key, Argon2 or the
digests, decryption, encryption), a task a sequence of steps of OpenSSL, each of
which may fail. `contexts` counts the contexts of OpenSSL that are allocated.

Abstractions: hashes are injective; a ciphertext is the key it was made with and
how much of it is there; an integer has two bytes of a base; the three costs are
one. How the file is written, and what follows when garbage passes for a header,
is `PetFile`. Copies and assignments of keys and ciphers, which the program
never makes, are left out.

### Rng and Pwgen

`Rng` has the objects `RngEngine` and `Rng` with their constructors, copies,
moves, assignments and destructor over the table of descriptors of the process,
which the rest of the program uses too. The kernel gives the lowest free
descriptor or refuses. `Pwgen` runs `generatePassword` over a local `Rng`: pools
and size are given, characters are drawn one by one, and when a pool is
missing at the end everything starts again. A character is told by its pool. The
value of a byte is chosen when it is delivered, so that two copies of an engine
may differ where the code's deliver the same bytes.

### Config

Options of `Config::setup_map` with their bounds and locks, `main()` from the
command line to the main window (`phase`), creation of files, and the generator
dialog. The text of a value is abstracted to what its conversion yields (`atoi`,
a Boolean, a path in parts). Lines of the configuration file that the code skips
change nothing and are left out; an over-long line ends reading, which is
`StopReading`. An exception from the constructor of the generator dialog ends
the program since only `main()` catches it.

### Csv and Converters

`Csv` holds the scanners as functions over sequences of characters: separator,
quote, line end and letters. Every loop is a function from the number of
characters seen to the state of the loop: `Unescaping`, `Parsing` and `Reading`
are the loops, `Undouble`, `ParseChar` and `ReadChar` their bodies. `Converters`
runs `yapet2csv` and `csv2yapet` over one CSV file and one password file, which
other programs may write in their place (`writer`, `maker`). The main functions
are `Usage`, `AskPassword`, `Mismatch` and `AskExportPassword`; between the look
for the destination and its creation the password is asked, and then another
program may be quicker (`raced`). Line numbers, wording and the echo of the
terminal are left out. All fields have the same maximal length.


## 3. Runs

| run | configuration | bounds | result |
|---|---|---|---|
| single | `PetFileSingle` | 1 process, 2 records, 2 keys, 3 lists, 2 seconds | `TypeOK`, `PromiseRecoverable`, `SuccessIsComplete`, `SingleInv`, `ImplementsRecordStore` hold |
| shared | `PetFileShared` | 2 processes, 1 record, 1 key, 1 list, 2 seconds | `MtimeCoversForeign`, `SeesForeignChange` hold |
| wrongkey | `PetFileWrongKey` | as single, 3 seconds | `WrongKeyRejected` is violated |
| session | `Session` | 1 file, 2 passwords, 2 salts, 2 records, symmetry | `TypeOK`, `InSync`, `ErrorBoxAlone`, `LosesOnlyAgreed`, `SaveKeepsCommitted` hold |
| glue | `SessionGlue` | 1 file, 2 passwords, 2 salts, 1 record | `GlueEnds` holds |
| committed | `SessionCommitted` | 2 files, 1 record | `CommittedStays` is violated |
| window | `RecordWindow` | fields of 2 bytes, 2 entries | `TypeOK`, `AssertionsHold`, `NamesAgree`, `ImplementsRecordList`, `DiscardsAgreed`, `SearchVisitsAll` hold |
| generated | `RecordWindowStored` | fields of 2 bytes, 1 entry | `GeneratedIsStored` is violated |
| keys | `Keys` | 2 passwords, 2 costs, 2 salts, base 2, 2 lost contexts | `TypeOK`, `PasswordDecides`, `ContextsReleased` hold |
| pwgen | `Pwgen` | 3 objects, 3 descriptors, cache of 2, 6 byte values, 4 characters in 3 pools, passwords up to 4 | `GenTypeOK`, `DescriptorsOwned`, `MovedIsEmpty`, `GeneratedFits`, `GenerationEnds` hold |
| config | `Config` | 2 paths, 3 numbers, 10 lines | `TypeOK`, `CommandLineWins`, `CreatesAsked`, `GeneratorFollows` hold |
| csv | `Converters` | records of 2 fields of up to 3 characters, up to 2 records | `TypeOK`, `RoundTrip`, `ReadsQuoted`, `KeepsOthers` hold |

Why the bounds are enough to be of interest:

* *PetFile.* Two records and three lists (whole, partial under the other key,
  and mixed) tell a lost record and garbage from a list that was meant; two keys
  are one key change back and forth. Two seconds are the two cases the stamps
  tell apart, the same second and a later one. Two processes race for one file; a third
  would race the same way; the `VIEW` of that run leaves out `promised`, `res` and
  `lost`, which only set one another. The proofs below drop all of these bounds for
  the properties they cover.
* *Session.* Keys change when there are two passwords and two salts. Of two
  records one can be kept while the other is edited, deleted, cut off by a
  reading, or given up. There is one file, since the dialogs do not depend on
  which; loading over an open file is loading it again. The proofs hold for any
  number of files. The run committed has a second one, so that a load may fail
  with another file open. The run glue checks liveness and uses no symmetry, and
  no dialog depends on what is in the records: there is one.
* *RecordWindow.* Texts are empty, short, and so long that they are cut. Two
  entries are the fewest of which a wrong one can be changed, be out of order, or
  be passed over by the search; they may have the same name.
* *Keys.* The costs 2 and 3 and the salts are chosen so that no two of them have
  the same bytes, and the wrong byte order makes another of them. One file is
  created, changed and opened any number of times. `MaxContexts` bounds
  the contexts lost to the one known leak.
* *Pwgen.* Three descriptors and three objects let one be closed, taken by
  somebody else, and used by a former owner. The byte has values that are
  rejected; the cache empties within a password; passwords are shorter than,
  as long as, and longer than there are pools.
* *Config.* The three numbers lie below all lower bounds, inside, and above the
  longest password; the lines contradict each kind of option.
* *Converters.* With fields of up to three characters, quoting makes some lines
  longer than the limit; pairs of records can pair a quote of one line with a
  quote of the next. The disk may fill up at any character.

A deadlock is looked for in all runs. Where the program has ended, `Terminated`,
`Over` and `Ended` stutter.

**Fairness.** Nothing is assumed of the user, of other processes or of failures.

* `FairSpec` of `Session`: the event queue is emptied (`WF_vars(Apoptosis)`), because
  the event loop of `YACURS` delivers queued events before it waits for input.
  `GlueEnds` is checked under it.
* `Spec` of `Pwgen`: a running call of `generatePassword` goes on (weak fairness
  of `Generation`). The bytes of `/dev/urandom` are independent and uniform, so the
  following have probability one: it does not reject bytes for ever (strong
  fairness of `Fill`), and of infinitely many rounds in which the last characters
  are just enough for the missing pools, one goes on with a missing pool (strong
  fairness of `Helps(m)`, for each number `m`). `GenerationEnds` follows when the
  code asks for no more pools than there are characters, which is what its check
  is for.

What the properties say:

* `PromiseRecoverable`: what `File` last reported stored can be loaded from the
  file or from its backup, at every step of a key change and after its failure.
  Two things void the promise: the truncation inside `save`, which has no backup;
  and a key change begun although the file is not what it was, because the one
  before it failed in the very second of the stamp, or lost records and said
  nothing (`Deceived`): it then replaces the good backup.
* `SuccessIsComplete`: after a normal return file and stamp are as reported, so
  that the next save is accepted. A key change that lost records returns
  normally, too: then the records are in the backup.
* `ImplementsRecordStore`: a call of `File` has one of the outcomes of
  `RecordStore`, wherever it fails or is killed.
* `SeesForeignChange`: a save or key change never starts over a change another
  process made in a later second than the stamp. Within the second it may: this
  limit is in the code, which compares whole seconds.
* `InSync`: factory, key of the `File`, key on disk and key of every list entry
  agree, the lock screen opens for that password and no other, and a list without
  unsaved changes is what is on disk, unless something failed since the load or
  somebody else changed the file. A list whose reading was cut short is not what
  is on disk, and no save goes through from it.
* `SaveKeepsCommitted`, `LosesOnlyAgreed`, `ErrorBoxAlone`, `GlueEnds`: saves keep
  what the user did not give up, also when the list was read in part; unsaved
  changes of the list are dropped only by agreement, the assertions on
  `errormsgdialog` hold, glue objects delete themselves.
* `ImplementsRecordList`, `AssertionsHold`: an answer changes the entry its dialog
  was opened on, and `record_index` is set exactly as long as there is one.
* `DiscardsAgreed`: when the record dialog goes, the whole entry that was typed
  or generated, name and password, is in the list or was given up in the
  confirmation. The code has two ways around it, which the property names: a
  failed encryption ends the program, and so does the quit button of the lock
  screen (section 4). `NamesAgree`: the two copies of a name are equal,
  so that the order of the list outlives loading it again. `SearchVisitsAll`: the
  search reports its end only after all matches.
* `PasswordDecides`: whatever machine, configuration and order of the meta data,
  a file opens with its password and with no other; unlocking likewise.
  `ContextsReleased`: a failing step of OpenSSL leaves no context behind. It
  excepts the decryption of a record that is an initialisation vector and nothing
  else, which in the code leaves one (section 4).
* `DescriptorsOwned`, `MovedIsEmpty`: no descriptor has two owners, is used after
  it was closed, or is left open by a dead object; who was moved from has no
  bytes left. `GeneratedFits`: a password has the size asked for, characters of
  the selected pools and one of each if it is long enough.
* `CommandLineWins`, `CreatesAsked`, `GeneratorFollows`: locks are held exactly as
  long as needed.
* `RoundTrip`: `csv2yapet` reads what `yapet2csv` writes. Values that begin with a
  quote are excepted: they are exported bare or taken for quoted ones.
* `ReadsQuoted`: `csv2yapet` does not abort on a file another program has quoted,
  everywhere or where it must, and stores exactly the records whose line is not
  too long, in order, and reports exactly the others. This is less than its
  manual promises: the line is measured with its quotes, and files in which a
  record has a blank first field and another field beginning with a quote
  (`BlankThenQuote`) are excepted (section 4).
* `KeepsOthers`: neither converter replaces a file of another program that was
  there when it looked. A file that appears while it asks for the password is
  excepted: it is replaced.


## 4. Findings

* **wrongkey** (`crypt/file.cc:78`). The mismatch of the control string is only
  logged, so that a wrong key whose header decrypts to valid padding opens the
  file.
* **committed** (`ui/mainwindow.cc:485`). A failed load empties the list while the
  old file stays open; if there were unsaved changes, saving erases the file.
* **generated** (`passwordrecord/passwordrecord.cc:54`). A generated password of the
  maximal length, 256 characters, loses its last one in the record.

What the models show as steps:

* A save that fails after it truncated the file does not take a new stamp; the
  next save of the same object is refused as an external modification
  (`crypt/file.cc:91`).
* A length that cannot be read passes for the end of the file
  (`file/rawfile.cc:153`; the test for the error, at line 159, is never reached). A
  key change then drops the records behind it and reports success
  (`crypt/file.cc:185`). A record under another key becomes garbage in the new
  file, when its padding happens to be valid (`crypt/file.cc:186`). The backup has
  both.
* The lock screen lets the user quit over an open record dialog, since only the
  list counts as unsaved (`ui/yapetunlockdialog.cc:51`); what was typed is lost
  unasked. The manual allows it "if no changes are pending"
  (`yapet_config.adoc.in:46`).
* `csv2yapet` falls short of its manual, which limits the fields and lets them be
  blank (`csv2yapet.adoc.in:35` and 72): it measures lines with their quotes and
  leaves out those too long (`converters/csv2yapet/csvimport.cc:238`), and after a
  blank first field it misreads a quoted one behind it, up to the end of the
  import (`csvimport.cc:191`).
* Cancelling the new password leaves `ChangePassword` alive
  (`glue/changepassword.cc:171`).
* After a failed load the window has the key of one file and shows another; the
  lock screen does not open for its password (`ui/mainwindow.cc:462`).
* With all pools switched off in the configuration file, opening the generator
  ends the program (`ui/pwgendialog.cc:162`).
* The converters look for the destination, ask for the password, and then
  truncate what is there (`converters/csv2yapet/main.cc:243`).
* An error while a key is derived makes `getCryptoFactoryForFile` report a file
  that is not recognised (`crypt/cryptofactoryhelper.cc:63`).
* A failed encryption when the record dialog closes ends the program
  (`ui/mainwindow.cc:228`).
* A copy assignment of `RngEngine` duplicates its own closed descriptor
  (`pwgen/rngengine.cc:102`); `Aes256` leaves a context behind for a record
  without text (`crypt/aes256.cc:219`).

Seen while reading: the text for `-s` says file mode 0644 (`yapet/main.cc:162`)
and the code requires 0600; the manual calls Boolean values case-sensitive and
the code lowers them; an over-long line silently ends the reading of the
configuration file; the index test of `converters/csv/csvline.cc:46` is off by
one and no caller passes that index; the copy assignment of
`crypt/key256.cc:236` is wrong and never used; `utils/securearray.cc:92` keeps a
dangling pointer when `new` throws; a terminal stays without echo when a
converter is killed at its prompt; a quiet `csv2yapet` with errors exits with
success.


## 5. Proofs

| module | theorem | for all |
|---|---|---|
| `PetFileProofs` | `TypeCorrect`, `MtimeCorrect`, `ForeignChangesSeen` | processes, records, keys, lists, seconds |
| `PetFileSingleProofs` | `SingleCorrect`, `PromiseKept`, `SuccessComplete`, `FileImplementsRecordStore` | records, keys, lists, seconds, one process |
| `SessionProofs` | `TypeCorrect`, `ErrorBoxCorrect`, `LosesCorrect`, `InSyncCorrect`, `SaveKeepsCorrect` | files, passwords, salts, records |
| `RecordWindowProofs` | `WindowTyped`, `WindowAsserts`, `WindowNamesAgree`, `WindowDiscardsAgreed`, `WindowSearches`, `WindowImplementsRecordList` | lengths of fields and of the list |
| `KeysProofs` | `KeysTyping`, `KeysPassword`, `KeysContexts` | bases, passwords, costs, salts |
| `PwgenProofs` | `PwgenTyping`, `PwgenOwned`, `PwgenMoved`, `PwgenFits` | objects, descriptors, caches, bytes, pools, sizes |
| `ConfigProofs` | `TypeCorrect`, `CommandLineCorrect`, `CreationCorrect`, `GeneratorCorrect` | paths, numbers, configuration files |
| `ConvertersProofs` | `ConvertersTyped`, `ConvertersRoundTrip`, `ConvertersReadQuoted`, `ConvertersKeep` | letters, tables, numbers and lengths of fields |

Assumptions on the constants: lists hold items, there is a key, there is a second
(`PetFile`); there are files and keys, `NoKey` and `NoName` are none of them
(`Session`); a field has room for a character and its zero, and a record that does
not decrypt is none of the others (`RecordWindow`); a
byte has two values or more, costs and salts are integers of the width modelled
(`Keys`); a cache is not empty, the distributions stay in the range of a byte, and
there are fewer characters than byte values, which the code asserts (`Rng`,
`Pwgen`); numbers fit an `int`, lines set options to values of their kind, `None` is
none of the values (`Config`); letters are no separators (`Csv`); the header line of
`yapet2csv` has a field, its fields do not begin with a quote, as those of
`csvexport.cc` do not, and the records have as many fields, none longer than the
longest (`Converters`).
`PetFileSingleProofs` assumes that `Procs` has one element: the promise does not
hold when two processes save within a second.

*Modification times.* `MtimeCoversForeign` is inductive together with `TypeOK`: all
writes set the time of the file to `now`, which only grows, and `foreign` is set in
the same step; `rename` is the one step that gives a name another file, and then
the name is absent until it is created anew. `SeesForeignChange` follows because
only `SaveCheck` and `KeyCheck` lead to the writing locations, and both compare
the stamp with that time.

*One process.* `PromiseRecoverable` is not inductive: whether a failing step may
leave the file behind depends on where the operation is. `SingleInv` says for each
location which stream is open (`ControlInv`), how much of the file is there and
which records (`FileInv`), and under which name the promised records are
(`PromiseInv`): in the file outside of an operation or in its backup during a key
change. Its last part is about the next call: if the check would accept the file,
the promised records are in it, or the call before ended in "failed" or
"damaged", and then a key change voids the promise (`Deceived`). Of a conversion
`FileInv` says that unless `lost` is set, all records are on their way under the
new key (`ConvertIs`). The proof has a lemma for each
group of actions; failing and ending steps share `ThrowKeepsInv`,
`AbandonKeepsInv` and `ClosedKeepsInv`. `SuccessComplete` strengthens this by what
holds at the location where the stamp is taken: the list is written and flushed,
and after a key change with `lost` set the backup is safe.

*The refinement.* `FileImplementsRecordStore` is about `CallsSpec`, which is `Spec`
with the history variable `before`. While a call runs its caller is shown
`before`, so only the last step of a call can be visible. The invariant it needs,
`CallInv`, says what the call has made of `before` so far: a constructor found no
object, a save found a file with a header and left its key alone, a key change
found what is in the backup since `Rename`, and what it has put under the name of
the file is in `Begun`. There is a lemma for each step with which a call begins
or goes on (`StartKeepsCalls`, the lemmas named after the action that goes on) and
one for each way it ends (`CreateEnds`, `OpenEnds`, `SaveEnds`, `NewKeyEnds`,
`NewFileInsecureEnds`, `StampEnds`); `SpoiltSeen` is for a reading that leaves the
stream in error, and `BatchIsBegun` for what a conversion may have put into the
new file. `StepImplements` puts them together.

*Session.* The types include which dialogs go with which glue object and what
may be in the queue (`GlueInv`); on top of them, `BoxInv` says when the error box
may be there, `AgreedInv` that with unsaved changes a load proceeds only after
`ignore_unsaved_file` was set. `InSync` needs `KeysAgree`: as long as nothing failed
and the stamp is that of the file, all keys are equal, and a list without unsaved
changes, read to its end, is what is on disk; `SaveKeepsCommitted` needs
`OwedInv`: what is owed is on disk, and in the list unless its reading was cut
short, after which no save goes through. The outcomes of a failed call
enter by lemmas that write `FileOutcomes` out once.

*List.* `WindowInv` adds to the assertions what kind of dialog is open. `SearchInv`
says that all matches up to `last` were seen; that the next match is the least
of a set of numbers needs its existence, from the library's well-founded
induction. `ListInv` says that each entry has the name
in its record, unless that does not decrypt, that the dialog is about a row of the
list or none, and that a new record has room: every step that touches the list
makes it of entries that are in it and of the entry the dialog was answered with,
and no dialog on top of the record dialog reaches the list. `FoundInv` bounds the
row the search stands on.

*The list as a bag.* `RecordList` counts entries, `RecordWindow` has rows and sorts
them. `CopiesCount` and `BagIs` say what `BagsExt` counts; `AppendKeeps`,
`UpdateKeeps` and `RemoveKeeps` what a row more, another or less makes of the bag;
`SortingKeeps` that a permutation leaves it alone, by the bijection `Sortings`
asks for. With them each step maps to one of `RecordList` or to a stutter:
`AbstractShows`, `AbstractAdds`, `AbstractReplaces` and `AbstractDeletes` are the
visible ones, and `AbstractAnswers` splits an `Ok` by whether the list changed.
`WindowDiscardsAgreed` follows from what `Ok` stores (`OkStores`) and from that
it stays in the list however the box arranges it (`EntryStays`); every other way
out of the dialog asks first or has nothing to lose (`LeftAgreed`), and only a
failed encryption and the quit button of the lock screen end the program over an
open dialog (`EndsKnown`).

*Keys.* That integers survive their way through the file is a lemma about
quotient and remainder (`TwoBytes`, `BytesOf`) and one about maps written in any
order. The invariant then says what key a call has at each task (`TaskInv`,
`NewInv`), that header and meta data of the file belong to the password
remembered (`FileInv`), and how many contexts the present step holds
(`ContextInv`).

*Generator.* `OwnInv` adds that dead objects hold nothing. `FillInv` says that
the local `Rng` has the limit of the selected pools and what is in the password so
far is of them; it lets an index never reach the end of the string.

*Configuration.* The inductive invariant adds to the properties that until
`Unlock` an option that was given is locked, that afterwards nothing is locked,
that nothing is created or generated before the program runs, and that the open
generator has the selected pools.

*Converters.* The loops are recursive functions over texts of any length, and the
theorems on induction of the library cannot be used. `Upwards` gets induction on
the number of steps from the least number that fails, `Recursion` the existence
of the function from it, with the loop body as a function on the set of the
loop's states. One lemma per loop then says what its function is (`UnescapingIs`,
`ParsingIs`, `ReadingIs`, `ConcatIs`, `SiftedIs`), and the types follow
(`ConvertersTyped`).

What a loop does to a whole line goes up in the same steps for both scanners: a
field without quotes (`ReadBare`, `ParseBare`), the doubled quotes of a quoted one
(`ReadDoubled`, `ParseDoubled`), a field (`ReadField`, `ParseField`), the fields of
a line (`ReadFields`, `ParseFields`). `Holds` says that one text is part of another
at a place, `Offset` where the fields of a line are. With `UnescapeEnclosed`,
unquoting undoes quoting, this yields `LineBack`: `parseLine` and unquoting give
the fields back, and a line is reported if it is too long and never otherwise.
`ReadWhole` says that `readLine` reads to the end of a line, though there may be
line ends in it, and `ReadCutLine` that it delivers nothing of a line the file
ends in. `Encoded` is what these lemmas ask of a line, and it is where the
exceptions of the two properties come in: a field that begins with a quote is only
read back if it was quoted, and in a line whose first field is blank a later
quote still counts as the first character of the line.

`ExportInv` says that the file is the beginning of what is to be written, and all
of it up to a record unless the disk was full. `ReadsInv` says of any records the
file is the beginning of that `csv2yapet` stands behind one of their lines and has
collected and reported what was in front (`Imported`); it does not matter who
wrote the file, so `RoundTrip` and `ReadsQuoted` share it (`WrittenCoded`,
`OtherCoded`). `KeepsInv` says that what a main function found out stays true until
it writes, unless `raced`.

Only model-checked:

* `GlueEnds` and `GenerationEnds`: fairness, and with it liveness, is out of the
  reach of the proof system;
* the three claims that are violated.

All other properties of the runs are stated by a theorem.


## 6. Not modelled

* Strength of the ciphers and hashes: keys are equal or not.
* `SecureArray`: a container of bytes with one owner; the models take its contents
  as values.
* The byte layout of the headers: a header is accepted or rejected.
* Help, information and the other dialogs without state of their own, layout,
  hiding of passwords on the screen.
* Locale, resource limits, terminal set-up, translation.
* Power failures, clocks that are set back.
* `YACURS`, OpenSSL, Argon2, the C library: external.


## 7. Plan

Done, in this order: `PetFile` with its proofs, `Session`, `Config` with its
proofs, `Csv` and `Converters`; then `RecordWindow` with `RecordList`, `Rng` and
`Pwgen`, `Keys`, each with its proofs, the main functions of the converters, the
proof of `SuccessIsComplete`, `RecordStore` with the refinement by `PetFile` and its
proof, the proofs for `Session`, the refinement of `RecordList` by `RecordWindow`
with its proof, the types and names of `RecordWindow`, and the proofs about `Csv`
and `Converters`.

Next, most important first:

1. The key derivation and the header of the file (`Keys`) under the key of
   `PetFile`, so that the promise about passwords and the one about saved records
   are about the same file.
2. Header versions with their byte layout in `Keys`; the resource limits in the
   start-up of `yapet`.
