------------------------------ MODULE Session ------------------------------
(***************************************************************************)
(* One run of yapet: the main window (libs/ui/mainwindow.cc) with its      *)
(* File, crypto factory, record list and Globals::records_changed, the     *)
(* glue objects LoadFile, CreateFile, LoadFileCmdLine, ChangePassword and  *)
(* PromptPassword (libs/glue) that walk the user through dialogs, the      *)
(* EVT_APOPTOSIS events that end them, and the lock screen.                *)
(*                                                                         *)
(* The member functions of YAPET::File are one step each, with the         *)
(* outcomes of module RecordStore, which PetFile implements; here there    *)
(* are several files, and a list.  A wrong key is always rejected          *)
(* here (PetFile tells when it is not), and a change of the file by        *)
(* another process is always noticed.  YACURS is external: dialogs are     *)
(* modal, and input waits until the event queue is empty.                  *)
(***************************************************************************)
EXTENDS Naturals, Sequences, FiniteSets, FileOutcomes

CONSTANTS
    Files,      \* paths of password files
    Passwords,
    Salts,      \* keying parameters, drawn at random for every new key
    Records,    \* password records in the clear
    NoName      \* the empty file name

\* A crypto factory, as the key it yields.
Keys  == [pw : Passwords, salt : Salts]
Items == [rec : Records, key : Keys \cup {NoKey}]

ASSUME NoKeyAssumption    == NoKey \notin Keys
ASSUME NoNameAssumption   == NoName \notin Files
ASSUME NotEmptyAssumption == Files # {} /\ Keys # {}

VARIABLES
    disk,       \* what the paths denote
    file,       \* MainWindow::_yapetFile
    factory,    \* MainWindow::_cryptoFactory
    list,       \* MainWindow::recordlist
    changed,    \* Globals::records_changed
    glue,       \* the glue object at work
    dialog,     \* the dialog on the screen
    errormsg,   \* MainWindow::errormsgdialog is on the screen
    queue,      \* objects whose EVT_APOPTOSIS is in the event queue
    locked,     \* the lock screen is shown
    running,    \* "yes", "quit" or "crashed"
    clean,      \* history: nothing failed since the list was loaded
    owed        \* history: per path, the records stored and never given up

vars == <<disk, file, factory, list, changed, glue, dialog, errormsg, queue,
          locked, running, clean, owed>>

\* What the dialogs leave alone.
data  == <<disk, file, factory, list, changed, clean, owed>>
world == <<locked, running>>

FileContent == [state : {"absent", "broken", "good"}, key : Keys \cup {NoKey},
                items : SUBSET Items]

FileObject == [open : BOOLEAN, name : Files \cup {NoName}, key : Keys \cup {NoKey},
               inner : BOOLEAN, fresh : BOOLEAN, bad : BOOLEAN]

NoFile == [open |-> FALSE, name |-> NoName, key |-> NoKey, inner |-> FALSE, fresh |-> FALSE,
           bad |-> FALSE]

Opened(n, k) == Renewed([NoFile EXCEPT !.name = n], k)

Kinds == {"none", "load", "create", "change", "cmdline"}

\* key is the factory PromptPassword has found.
Glue == [kind : Kinds, name : Files \cup {NoName}, key : Keys \cup {NoKey},
         ignore_unsaved_file : BOOLEAN]

NewGlue(kind, name) == [kind |-> kind, name |-> name, key |-> NoKey,
                        ignore_unsaved_file |-> FALSE]
NoGlue == NewGlue("none", NoName)

Dialogs == {"none", "confirmquit", "confirmsave", "filedialog", "password", "pwerror",
            "prompterror", "oldpassword", "nonmatch", "newpassword", "generror",
            "createfile"}

TypeOK == /\ disk \in [Files -> FileContent]
          /\ file \in FileObject
          /\ factory \in Keys \cup {NoKey}
          /\ list \subseteq Items
          /\ changed \in BOOLEAN
          /\ glue \in Glue
          /\ dialog \in Dialogs
          /\ errormsg \in BOOLEAN
          /\ queue \in Seq({"prompt", "glue"}) /\ Len(queue) <= 1
          /\ locked \in BOOLEAN
          /\ running \in {"yes", "quit", "crashed"}
          /\ clean \in BOOLEAN
          /\ owed \in [Files -> SUBSET Records]

\* A good or an absent file behind every path; the program starts with or
\* without a file on its command line (window_show_handler).
CmdLineDialog(n) == IF disk[n].state = "absent" THEN "createfile" ELSE "password"

Init == /\ disk \in [Files -> {Unusable("absent")} \cup
                              {Good(k, R) : k \in Keys, R \in SUBSET Records}]
        /\ file = NoFile /\ factory = NoKey /\ list = {} /\ changed = FALSE
        /\ \/ glue = NoGlue /\ dialog = "none"
           \/ \E n \in Files : glue = NewGlue("cmdline", n) /\ dialog = CmdLineDialog(n)
        /\ errormsg = FALSE /\ queue = <<>> /\ locked = FALSE /\ running = "yes"
        /\ clean = TRUE
        /\ owed = [n \in Files |-> Recs(disk[n].items)]

-----------------------------------------------------------------------------
(***************************************************************************)
(* YACURS, as the code uses it.                                            *)
(***************************************************************************)
UserTurn == running = "yes" /\ ~locked /\ queue = <<>>

\* A hot key reaches the main window only when no dialog is open.
HotKey == UserTurn /\ dialog = "none" /\ ~errormsg

Answer(d) == UserTurn /\ dialog = d /\ ~errormsg

Submit(who) == queue' = Append(queue, who)

\* A null _yapetFile inside the File is dereferenced.
Crash == running' = "crashed" /\ UNCHANGED <<data, glue, dialog, errormsg, queue, locked>>

HasName == file.open => file.inner

-----------------------------------------------------------------------------
(***************************************************************************)
(* MainWindow::save_records.                                               *)
(***************************************************************************)
\* It returns true: the list is stored, or there is nothing to do.
SaveSucceeds ==
    /\ \/ (~file.open \/ ~changed) /\ UNCHANGED <<disk, changed, owed>>
       \/ /\ file.open /\ changed /\ Writes(disk[file.name], file)
          /\ disk' = [disk EXCEPT ![file.name] = Saved(@, list)]
          /\ changed' = FALSE
          /\ owed' = [owed EXCEPT ![file.name] = @ \cup Recs(list)]
    /\ UNCHANGED <<file, factory, list, errormsg, clean>>

\* It returns false and shows the error: File::save refused, or failed before
\* or after it truncated the file.
SaveFails ==
    /\ file.open /\ changed /\ file.inner
    /\ \/ UNCHANGED <<disk, file, owed>>
       \/ /\ Accepts(disk[file.name], file)
          /\ file' = Spoilt(file) /\ UNCHANGED <<disk, owed>>
       \/ /\ Writes(disk[file.name], file)
          /\ \E o \in SaveAborts(disk[file.name], file, list) :
                disk' = [disk EXCEPT ![file.name] = o.pet] /\ file' = o.file
          /\ owed' = [owed EXCEPT ![file.name] = {}]
    /\ errormsg' = TRUE
    /\ UNCHANGED <<factory, list, changed, clean>>

SaveCrashes == file.open /\ changed /\ ~file.inner /\ Crash

(***************************************************************************)
(* MainWindow::load_password_file.  The factory is replaced first, and a   *)
(* failure clears the list, but nothing else.                              *)
(***************************************************************************)
Constructs(n, k, create) ==
    /\ IF create THEN disk' = [disk EXCEPT ![n] = Good(k, {})]
                 ELSE disk[n].state = "good" /\ disk[n].key = k /\ disk' = disk
    /\ changed' = FALSE

\* In the second of its stamp, the File on display takes the file that replaces
\* its own for its own.
ConstructFails(n, k, create) ==
    \/ UNCHANGED <<disk, file, owed>>
    \/ /\ create
       /\ \E new \in CreationFailures(k) : disk' = [disk EXCEPT ![n] = new]
       /\ \E same \in BOOLEAN :
             file' = [file EXCEPT !.fresh = IF n # file.name THEN @
                                            ELSE same /\ (@ \/ disk[n].state = "absent")]
       /\ owed' = [owed EXCEPT ![n] = {}]

\* File::read on a File just made: a list that is short leaves the stream in
\* error, and the caller is not told.
ReadInto(newList, f, pet) ==
    \E read \in Reads(pet) : /\ Under(read.items, f.key)
                             /\ newList = read.items
                             /\ file' = IF read.bad THEN Spoilt(f) ELSE f

ReadFails(f) == file' \in {f, Spoilt(f)}

\* Mutant of Loads: the list of the file shown before stays.
LoadsKeepsList(n, k, create) ==
    /\ Constructs(n, k, create)
    /\ file' = Opened(n, k)
    /\ list' = list
    /\ owed' = [owed EXCEPT ![n] = Recs(disk'[n].items)]
    /\ clean' = TRUE
    /\ UNCHANGED errormsg

Loads(n, k, create) ==
    /\ Constructs(n, k, create)
    /\ ReadInto(list', Opened(n, k), disk'[n])
    /\ owed' = [owed EXCEPT ![n] = Recs(disk'[n].items)]
    /\ clean' = TRUE
    /\ UNCHANGED errormsg

LoadFails(n, k, create) ==
    /\ \/ Constructs(n, k, create) /\ ReadFails(Opened(n, k))
          /\ owed' = [owed EXCEPT ![n] = IF create THEN {} ELSE @]
       \/ ConstructFails(n, k, create) /\ changed' = changed
    /\ list' = {}
    /\ errormsg' = TRUE
    /\ clean' = FALSE

load_password_file(n, k, create) ==
    /\ factory' = k
    /\ Loads(n, k, create) \/ LoadFails(n, k, create)

(***************************************************************************)
(* MainWindow::change_password, on a File that is not null inside.         *)
(***************************************************************************)
\* What it lost without a word is not on disk any more, but in the backup.
KeyChanged(k) ==
    /\ Accepts(disk[file.name], file)
    /\ \E new \in Rekeyings(disk[file.name], file.key, k) :
          disk' = [disk EXCEPT ![file.name] = new]
    /\ owed' = [owed EXCEPT ![file.name] = @ \cap Recs(disk'[file.name].items)]

\* refused; or failed before anything happened, after _yapetFile.reset(), or
\* with the file renamed away and the new one in some state.
KeyChangeFails(k) ==
    \/ UNCHANGED <<disk, file, owed>>
    \/ /\ file.fresh
       /\ file' = [file EXCEPT !.inner = FALSE, !.bad = FALSE]
       /\ UNCHANGED <<disk, owed>>
    \/ /\ file.fresh
       /\ \E o \in KeyAborts(disk[file.name], file, k) :
             disk' = [disk EXCEPT ![file.name] = o.pet] /\ file' = o.file
       /\ owed' = [owed EXCEPT ![file.name] = {}]

\* Mutant of change_password: the records are not read again.
RereadForgotten(k) ==
    /\ factory' = k
    /\ \/ KeyChanged(k) /\ file' = Renewed(file, k) /\ list' = list /\ UNCHANGED <<errormsg, clean>>
       \/ KeyChangeFails(k) /\ list' = list /\ errormsg' = TRUE /\ clean' = FALSE
    /\ UNCHANGED changed

change_password(k) ==
    /\ factory' = k
    /\ \/ KeyChanged(k) /\ ReadInto(list', Renewed(file, k), disk'[file.name])
          /\ UNCHANGED <<errormsg, clean>>
       \/ /\ (KeyChanged(k) /\ ReadFails(Renewed(file, k))) \/ KeyChangeFails(k)
          /\ list' = list
          /\ errormsg' = TRUE
          /\ clean' = FALSE
    /\ UNCHANGED changed

-----------------------------------------------------------------------------
(***************************************************************************)
(* The main window's hot keys.                                             *)
(***************************************************************************)
\* show_password_record and the close of its dialog.  A record that does not
\* decrypt is shown empty, and can be overwritten.
AddRecord(r) ==
    /\ HotKey /\ file.open
    /\ list' = list \cup {[rec |-> r, key |-> factory]}
    /\ changed' = TRUE
    /\ UNCHANGED <<disk, file, factory, glue, dialog, errormsg, queue, world, clean, owed>>

EditRecord(i, r) ==
    /\ HotKey /\ file.open /\ i \in list
    /\ list' = (list \ {i}) \cup {[rec |-> r, key |-> factory]}
    /\ changed' = TRUE
    /\ owed' = [owed EXCEPT ![file.name] = @ \ {i.rec}]
    /\ UNCHANGED <<disk, file, factory, glue, dialog, errormsg, queue, world, clean>>

DeleteRecord(i) ==
    /\ HotKey /\ i \in list
    /\ list' = list \ {i}
    /\ changed' = TRUE
    /\ owed' = [owed EXCEPT ![file.name] = @ \ {i.rec}]
    /\ UNCHANGED <<disk, file, factory, glue, dialog, errormsg, queue, world, clean>>

Save == /\ HotKey
        /\ \/ SaveCrashes
           \/ (SaveSucceeds \/ SaveFails) /\ UNCHANGED <<glue, dialog, queue, world>>

Quit == /\ HotKey
        /\ IF changed THEN dialog' = "confirmquit" /\ running' = running
                      ELSE dialog' = dialog /\ running' = "quit"
        /\ UNCHANGED <<data, glue, errormsg, queue, locked>>

ConfirmQuit ==
    /\ Answer("confirmquit")
    /\ \/ SaveCrashes
       \/ SaveSucceeds /\ dialog' = "none" /\ running' = "quit" /\ UNCHANGED <<glue, queue, locked>>
       \/ SaveFails /\ dialog' = "none" /\ UNCHANGED <<glue, queue, world>>
       \/ /\ dialog' = "none" /\ running' \in {"quit", "yes"}
          /\ UNCHANGED <<data, glue, errormsg, queue, locked>>

CloseError == /\ UserTurn /\ errormsg
              /\ errormsg' = FALSE
              /\ UNCHANGED <<data, glue, dialog, queue, world>>

-----------------------------------------------------------------------------
(***************************************************************************)
(* The glue objects.                                                       *)
(***************************************************************************)
\* Mutant of RunDialog: nobody asks about unsaved changes.
RunDialogUnasked(g, unsaved) == IF g.kind = "change" THEN "oldpassword" ELSE "filedialog"

\* run() of LoadFile, CreateFile and ChangePassword.
RunDialog(g, unsaved) == IF ~g.ignore_unsaved_file /\ unsaved THEN "confirmsave"
                         ELSE IF g.kind = "change" THEN "oldpassword" ELSE "filedialog"

Start(kind) ==
    /\ HotKey /\ HasName
    /\ glue' = NewGlue(kind, IF kind = "change" /\ file.open THEN file.name ELSE NoName)
    /\ dialog' = RunDialog(glue', changed)
    /\ UNCHANGED <<data, errormsg, queue, world>>

\* The constructors ask for currentFilename().
StartCrashes == HotKey /\ ~HasName /\ Crash

Show(d) == dialog' = d /\ UNCHANGED <<data, glue, errormsg, queue, world>>

\* The dialog closes and the object submits its EVT_APOPTOSIS.
Finish(who) == dialog' = "none" /\ Submit(who) /\ UNCHANGED <<data, glue, errormsg, world>>

\* Mutant of ConfirmSaveYes: run() whatever save_records() returns.
ConfirmSaveIgnored ==
    /\ Answer("confirmsave")
    /\ \/ SaveCrashes
       \/ /\ SaveSucceeds \/ SaveFails
          /\ dialog' = RunDialog(glue, changed')
          /\ UNCHANGED <<glue, queue, world>>

\* ChangePassword runs again whether or not the list was saved; if it was not,
\* the handler deletes the question run() has just shown.
ConfirmSaveYes ==
    /\ Answer("confirmsave")
    /\ \/ SaveCrashes
       \/ SaveSucceeds /\ dialog' = RunDialog(glue, FALSE) /\ UNCHANGED <<glue, queue, world>>
       \/ /\ SaveFails /\ dialog' = "none"
          /\ IF glue.kind = "change" THEN UNCHANGED queue ELSE Submit("glue")
          /\ UNCHANGED <<glue, world>>

ConfirmSaveNo ==
    /\ Answer("confirmsave") /\ glue.kind # "change"
    /\ glue' = [glue EXCEPT !.ignore_unsaved_file = TRUE]
    /\ dialog' = RunDialog(glue', changed)
    /\ UNCHANGED <<data, errormsg, queue, world>>

ConfirmSaveCancel == Answer("confirmsave") /\ Finish("glue")

ChooseFile(n) ==
    /\ Answer("filedialog")
    /\ glue' = [glue EXCEPT !.name = n]
    /\ dialog' = IF glue.kind = "load" THEN "password" ELSE "newpassword"
    /\ UNCHANGED <<data, errormsg, queue, world>>

\* Mutant of CancelFile: the object forgets itself.
CancelFileForgotten == Answer("filedialog") /\ Show("none")

CancelFile == Answer("filedialog") /\ Finish("glue")

CreateFileAnswer ==
    Answer("createfile") /\ (Show("newpassword") \/ Finish("glue"))

\* getCryptoFactoryForFile finds the salt in the file.
Candidate(n, pw) == [pw |-> pw, salt |-> disk[n].key.salt]

Recognized(n) == n # NoName /\ disk[n].state # "absent"

\* PromptPassword.
PromptPassword(pw) ==
    /\ Answer("password")
    /\ \/ /\ Recognized(glue.name) /\ disk[glue.name].state = "good"
          /\ LET k == Candidate(glue.name, pw) IN
             IF k = disk[glue.name].key
             THEN /\ glue' = [glue EXCEPT !.key = k]
                  /\ dialog' = "none" /\ Submit("prompt")
                  /\ UNCHANGED <<data, errormsg, world>>
             ELSE Show("pwerror")
       \/ Show("prompterror")

CancelPassword == Answer("password") /\ Finish("prompt")

RetryPassword == Answer("pwerror") /\ (Show("password") \/ Finish("prompt"))

ClosePromptError == Answer("prompterror") /\ Finish("prompt")

\* The event reaches LoadFile or LoadFileCmdLine, which loads the file and
\* submits its own.
PromptApoptosis ==
    /\ running = "yes" /\ queue # <<>> /\ Head(queue) = "prompt"
    /\ queue' = Append(Tail(queue), "glue")
    /\ IF glue.key = NoKey THEN UNCHANGED <<data, errormsg>>
                           ELSE load_password_file(glue.name, glue.key, FALSE)
    /\ UNCHANGED <<glue, dialog, world>>

\* MainWindow deletes the object.
GlueApoptosis ==
    /\ running = "yes" /\ queue # <<>> /\ Head(queue) = "glue"
    /\ queue' = Tail(queue)
    /\ glue' = NoGlue
    /\ UNCHANGED <<data, dialog, errormsg, world>>

\* A salt that no key in use has.
KeysInUse == {disk[n].key : n \in Files} \cup {i.key : i \in list}
             \cup {file.key, factory, glue.key}

NewSalts == Salts \ {k.salt : k \in KeysInUse \ {NoKey}}

\* Mutant of CreateNewFile: the apoptosis is submitted in the try block and
\* once more behind it.
CreateSubmitsTwice(pw, s) ==
    /\ Answer("newpassword") /\ glue.kind \in {"create", "cmdline"}
    /\ s \in NewSalts
    /\ load_password_file(glue.name, [pw |-> pw, salt |-> s], TRUE)
    /\ dialog' = "none" /\ queue' = Append(Append(queue, "glue"), "glue")
    /\ UNCHANGED <<glue, world>>

\* NewPasswordDialog of CreateFile and LoadFileCmdLine.
CreateNewFile(pw, s) ==
    /\ Answer("newpassword") /\ glue.kind \in {"create", "cmdline"}
    /\ s \in NewSalts
    /\ load_password_file(glue.name, [pw |-> pw, salt |-> s], TRUE)
    /\ dialog' = "none" /\ Submit("glue")
    /\ UNCHANGED <<glue, world>>

CancelNewPassword ==
    /\ Answer("newpassword")
    /\ IF glue.kind = "change" THEN Show("none") ELSE Finish("glue")

\* The keying parameters cannot be generated, or, for ChangePassword, the
\* file cannot be opened.
NewPasswordFails == Answer("newpassword") /\ Show("generror")

CloseGenError == Answer("generror") /\ Finish("glue")

\* ChangePassword.
OldPassword(pw) ==
    /\ Answer("oldpassword")
    /\ \/ /\ Recognized(glue.name) /\ disk[glue.name].state = "good"
          /\ Show(IF Candidate(glue.name, pw) = disk[glue.name].key
                  THEN "newpassword" ELSE "nonmatch")
       \/ Show("generror")

CancelOldPassword == Answer("oldpassword") /\ Finish("glue")

NonMatch == Answer("nonmatch") /\ (Show(RunDialog(glue, changed)) \/ Finish("glue"))

\* A password that opens the file is the old one, and nothing happens.
ChangeKey(pw, s) ==
    /\ Answer("newpassword") /\ glue.kind = "change"
    /\ disk[glue.name].state = "good"
    /\ IF Candidate(glue.name, pw) = disk[glue.name].key
       THEN Finish("glue")
       ELSE /\ s \in NewSalts
            /\ change_password([pw |-> pw, salt |-> s])
            /\ dialog' = "none" /\ Submit("glue")
            /\ UNCHANGED <<glue, world>>

-----------------------------------------------------------------------------
(***************************************************************************)
(* The lock screen.  The alarm goes off during any dialog.                 *)
(***************************************************************************)
Lock == /\ running = "yes" /\ ~locked /\ queue = <<>> /\ file.open
        /\ IF file.inner
           THEN locked' = TRUE /\ UNCHANGED <<data, glue, dialog, errormsg, queue, running>>
           ELSE Crash

\* matchPasswordWithCurrent: the keying parameters come from the file, the
\* key from the window.
MatchPasswordWithCurrent(pw) ==
    disk[file.name].state = "good" /\ factory = Candidate(file.name, pw)

Unlock(pw) == /\ running = "yes" /\ locked
              /\ MatchPasswordWithCurrent(pw)
              /\ locked' = FALSE
              /\ UNCHANGED <<data, glue, dialog, errormsg, queue, running>>

\* The lock screen stays, perhaps for good: no password may match.
UnlockRefused(pw) == /\ running = "yes" /\ locked
                     /\ disk[file.name].state = "good"
                     /\ ~MatchPasswordWithCurrent(pw)
                     /\ UNCHANGED vars

\* The metadata cannot be read: the exception ends the program.
UnlockFails == /\ running = "yes" /\ locked
               /\ disk[file.name].state # "good"
               /\ running' = "crashed"
               /\ UNCHANGED <<data, glue, dialog, errormsg, queue, locked>>

\* The button is enabled when there are no unsaved changes (allow_lock_quit).
LockQuit == /\ running = "yes" /\ locked /\ ~changed
            /\ running' = "quit"
            /\ UNCHANGED <<data, glue, dialog, errormsg, queue, locked>>

-----------------------------------------------------------------------------
\* Another process changes the key of a file.
OtherProcess(n, pw, s) ==
    /\ running = "yes" /\ disk[n].state = "good" /\ s \in NewSalts
    /\ disk' = [disk EXCEPT ![n] = Good([pw |-> pw, salt |-> s], Recs(@.items))]
    /\ file' = [file EXCEPT !.fresh = @ /\ n # file.name]
    /\ UNCHANGED <<factory, list, changed, glue, dialog, errormsg, queue, world, clean, owed>>

Terminated == running # "yes" /\ UNCHANGED vars

ChangeList == \/ \E r \in Records : AddRecord(r)
              \/ \E i \in list, r \in Records : EditRecord(i, r)
              \/ \E i \in list : DeleteRecord(i)

Window == ChangeList \/ Save \/ Quit \/ ConfirmQuit \/ CloseError

Dialog == \/ \E kind \in {"load", "create", "change"} : Start(kind)
          \/ StartCrashes
          \/ ConfirmSaveYes \/ ConfirmSaveNo \/ ConfirmSaveCancel
          \/ (\E n \in Files : ChooseFile(n)) \/ CancelFile \/ CreateFileAnswer
          \/ (\E pw \in Passwords : PromptPassword(pw) \/ OldPassword(pw))
          \/ CancelPassword \/ RetryPassword \/ ClosePromptError
          \/ (\E pw \in Passwords, s \in Salts : CreateNewFile(pw, s) \/ ChangeKey(pw, s))
          \/ CancelNewPassword \/ NewPasswordFails \/ CloseGenError
          \/ CancelOldPassword \/ NonMatch

Apoptosis == PromptApoptosis \/ GlueApoptosis

LockScreen == Lock \/ (\E pw \in Passwords : Unlock(pw) \/ UnlockRefused(pw)) \/ UnlockFails \/ LockQuit

Next == \/ Window \/ Dialog \/ Apoptosis \/ LockScreen \/ Terminated
        \/ \E n \in Files, pw \in Passwords, s \in Salts : OtherProcess(n, pw, s)

Spec == Init /\ [][Next]_vars

\* The event queue is emptied before the program waits for the user; the user
\* need not do anything.
FairSpec == Spec /\ WF_vars(Apoptosis)

-----------------------------------------------------------------------------
\* After a load or a key change that went well, and as long as nobody else
\* touches the file, the factory new records are encrypted with, the key of
\* the File, the key of the file on disk and the key of every list entry are
\* the same (load_password_file and change_password set them one by one); a
\* list without unsaved changes is what is on disk, unless the last reading
\* was cut short, and then no save goes through; and the lock screen opens for
\* the password of that key and for no other.
InSync ==
    (clean /\ file.open /\ file.inner /\ file.fresh) =>
        LET pet == disk[file.name] IN
        /\ factory = file.key
        /\ Under(list, factory)
        /\ pet.state = "good" => /\ pet.key = factory
                                 /\ ~changed /\ ~file.bad => list = pet.items
                                 /\ \A pw \in Passwords :
                                        MatchPasswordWithCurrent(pw) <=> pw = factory.pw

\* A save that works never takes a record off the disk that the user stored
\* and neither edited nor deleted since (mainwindow.cc:516), even when the
\* reading of the list was cut short.  Not counted are the records of a list
\* after whose loading an operation failed, and those that a key change left
\* in the backup.
SaveKeepsCommitted ==
    [][(changed /\ ~changed' /\ clean /\ clean') =>
            owed'[file'.name] \subseteq Recs(disk'[file'.name].items)]_vars

\* Unsaved changes go only after the user has said so: the list is replaced
\* when ignore_unsaved_file was set (loadfile.cc:98), the program quits from
\* the confirmation dialog, and never from the lock screen
\* (yapetunlockdialog.cc:62).
LosesOnlyAgreed ==
    [][changed => /\ (list' # list /\ ~HotKey) => glue.ignore_unsaved_file
                  /\ running' = "quit" => dialog = "confirmquit"]_vars

\* The error box is alone on the screen, so that the assertions
\* errormsgdialog == nullptr (mainwindow.cc:487, 533, 560) hold when the next
\* error comes.
ErrorBoxAlone == errormsg => dialog = "none" /\ queue \in {<<>>, <<"glue">>}

\* Once its last dialog is closed, a LoadFile, CreateFile or LoadFileCmdLine
\* is deleted (globals.h:43).
GlueEnds == (glue.kind \in {"load", "create", "cmdline"} /\ dialog = "none")
                ~> (glue.kind = "none")

-----------------------------------------------------------------------------
(***************************************************************************)
(* What the source says and the code does not do.                          *)
(***************************************************************************)
\* Loading a file loses "changes not committed to disk" (mainwindow.h:109),
\* so what was committed, and not deleted since, stays on disk.
CommittedStays == \A n \in Files : owed[n] \subseteq Recs(disk[n].items)
=============================================================================
