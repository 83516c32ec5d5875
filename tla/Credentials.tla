---------------------------- MODULE Credentials ----------------------------
(***************************************************************************)
(* The fixed user name and password: the settings screen that edits them   *)
(* (UserPassStorage, SettingsFragment), the file master_password that      *)
(* keeps them (SshdSettings) and the session that reads the file           *)
(* (ikofi_get_user_password() in jni-dropbear.c), another process.  Beside  *)
(* it, authorized_keys, which ServiceViewModel imports and deletes.        *)
(*                                                                         *)
(* A line of the file is the sequence of its fields, the texts between     *)
(* colons; a user name is one too, of more than one field if it contains   *)
(* colons.                                                                 *)
(***************************************************************************)
EXTENDS Naturals, Sequences

CONSTANTS
    Part,        \* texts without a colon
    Blank,       \* the empty text
    Password,    \* non-blank passwords
    Null,        \* null, or no file
    OtherAuth,   \* is another authentication method switched on?
    MaxParts,    \* bound: fields of a user name
    MaxSaves,    \* bound: visits to the settings that save
    MaxFaults    \* bound: deaths of the application process and failed writes

ASSUME TextAssumption ==
    /\ Blank \notin Part \cup Password /\ Null \notin Part \cup Password \cup {Blank}
    /\ OtherAuth \in BOOLEAN
    /\ MaxParts \in Nat /\ MaxSaves \in Nat /\ MaxFaults \in Nat

Text     == Part \cup {Blank}
UserName == UNION {[1..n -> Text] : n \in 1..MaxParts}
hash(p)  == [sha512 |-> p]
Hash     == {hash(p) : p \in Password}

\* A hash is no empty text, and null is neither a file's content nor credentials.
ASSUME NullAssumption ==
    /\ Blank \notin Hash /\ Null \notin {"whole", "torn"}
    /\ Null \notin Seq(Text \cup Hash) /\ Null \notin [user : UserName, pass : Password]

VARIABLES
    file,     \* the fields of master_password, <<>> if empty, Null if absent
    screen,   \* where the user is, or what the main thread is in the middle of
    store,    \* UserPassStorage: currentUsername, currentPassword, passwordUpdated
    line,     \* what writeFile() is about to write
    saved,    \* history: the credentials the user was told are saved
    pops,     \* delayed popBackStack()s, of "this" visit and of "old" ones
    saves, faults,
    keys      \* authorized_keys and its .tmp: Null, "whole" or "torn"

vars == <<file, screen, store, line, saved, pops, saves, faults, keys>>

NoStore == [user |-> Null, pass |-> Null, updated |-> FALSE]
NoPops  == [this |-> 0, old |-> 0]

TypeOK ==
    /\ file \in {Null} \cup Seq(Text \cup Hash)
    /\ screen \in {"closed", "open", "writing", "checking", "warned", "stranded",
                  "importing"}
    /\ store \in [user : UserName \cup {Null}, pass : Password \cup {Blank, Null},
                  updated : BOOLEAN]
    /\ line \in Seq(Text \cup Hash)
    /\ saved \in {Null} \cup [user : UserName, pass : Password]
    /\ pops \in [this : Nat, old : Nat] /\ saves \in Nat /\ faults \in Nat
    /\ keys \in [auth : {Null, "whole", "torn"}, tmp : {Null, "whole", "torn"}]

Init ==
    /\ file = Null /\ screen = "closed" /\ store = NoStore /\ line = <<>>
    /\ saved = Null /\ pops = NoPops /\ saves = 0 /\ faults = 0
    /\ keys = [auth |-> Null, tmp |-> Null]

-----------------------------------------------------------------------------
(* Reading the file.                                                       *)

\* readPasswordFile(): the line split at colons, or null.
ReadPasswordFile == IF file \in {Null, <<>>} THEN Null ELSE file

IsBlank(u) == u = Null \/ u = <<Blank>>

\* strtok_r() passes over empty fields: the next one after field i is field j.
Strtok(s, i, j) ==
    /\ i < j /\ s[j] # Blank
    /\ \A k \in (i + 1)..(j - 1) : s[k] = Blank

\* ikofi_get_user_password(): the first two tokens of the line.
NativeReads(u, p) ==
    /\ file # Null
    /\ \E i, j \in 1..Len(file) :
          Strtok(file, 0, i) /\ Strtok(file, i, j) /\ u = file[i] /\ p = file[j]

HasAtLeastOneAuthMethod_AsTyped == OtherAuth \/ ~IsBlank(store.user)

\* hasAtLeastOneAuthMethod()
HasAtLeastOneAuthMethod ==
    \/ OtherAuth
    \/ /\ ReadPasswordFile # Null /\ Len(ReadPasswordFile) = 2
       /\ ReadPasswordFile[1] # Blank /\ ReadPasswordFile[2] # Blank

-----------------------------------------------------------------------------
(* The settings screen.                                                    *)

\* A new SettingsViewModel: the user name is read back, the password is not.
Open ==
    /\ screen = "closed" /\ saves < MaxSaves
    /\ screen' = "open"
    /\ store' = [NoStore EXCEPT !.user =
                    IF ReadPasswordFile = Null THEN Null ELSE <<ReadPasswordFile[1]>>]
    /\ UNCHANGED <<file, line, saved, pops, saves, faults, keys>>

PutUsername(u) ==
    /\ screen = "open"
    /\ store' = [store EXCEPT !.user = u]
    /\ UNCHANGED <<file, screen, line, saved, pops, saves, faults, keys>>

PutPassword(p) ==
    /\ screen = "open"
    /\ store' = [store EXCEPT !.pass = p, !.updated = TRUE]
    /\ UNCHANGED <<file, screen, line, saved, pops, saves, faults, keys>>

\* Back: storeCredentials(), in one of the rows of the table in SshdSettings.
Back ==
    /\ screen = "open" /\ saves < MaxSaves
    /\ saves' = saves + 1
    /\ UNCHANGED <<store, keys>>

Removing == IsBlank(store.user) \/ (store.updated /\ store.pass \in {Blank, Null})

\* No user name, or the password was cleared: the file is deleted.
Remove ==
    /\ Back /\ Removing
    /\ file' = Null /\ saved' = Null
    /\ screen' = "checking"
    /\ UNCHANGED <<line, pops, faults>>

\* A user name without a password, old or new, is dropped.
Drop ==
    /\ Back /\ ~Removing /\ ~store.updated /\ file = Null
    /\ screen' = "checking"
    /\ UNCHANGED <<file, line, saved, pops, faults>>

KeptHash == ReadPasswordFile[2]

CanKeep == ReadPasswordFile # Null /\ Len(ReadPasswordFile) = 2

\* The old hash under the new name.  FileWriter truncates the file first.
Rename ==
    /\ Back /\ ~Removing /\ ~store.updated /\ file # Null /\ CanKeep
    /\ file' = <<>>
    /\ line' = store.user \o <<KeptHash>>
    /\ saved' = [saved EXCEPT !.user = store.user]
    /\ screen' = "writing"
    /\ UNCHANGED <<pops, faults>>

\* An IOException: the screen is to close in a while.
SaveFailed ==
    /\ pops' = [pops EXCEPT !.this = @ + 1]
    /\ screen' = "checking"

\* "Could not read previous user/password"
RenameFails ==
    /\ Back /\ ~Removing /\ ~store.updated /\ file # Null /\ ~CanKeep
    /\ SaveFailed
    /\ UNCHANGED <<file, line, saved, faults>>

Replace_HashFirst ==
    /\ Back /\ ~Removing /\ store.updated
    /\ file' = <<>>
    /\ line' = <<hash(store.pass)>> \o store.user
    /\ saved' = [user |-> store.user, pass |-> store.pass]
    /\ screen' = "writing"
    /\ UNCHANGED <<pops, faults>>

\* A new name and password.
Replace ==
    /\ Back /\ ~Removing /\ store.updated
    /\ file' = <<>>
    /\ line' = store.user \o <<hash(store.pass)>>
    /\ saved' = [user |-> store.user, pass |-> store.pass]
    /\ screen' = "writing"
    /\ UNCHANGED <<pops, faults>>

\* createNewFile() or the FileWriter throws: the file is as it was, or new and empty.
OpenFails ==
    /\ Back /\ ~Removing /\ (store.updated \/ CanKeep) /\ faults < MaxFaults
    /\ faults' = faults + 1
    /\ file' = file \/ (file = Null /\ file' = <<>>)
    /\ SaveFailed
    /\ UNCHANGED <<line, saved>>

\* The buffered text reaches the file when the writer is closed ...
CloseWriter ==
    /\ screen = "writing"
    /\ file' = line /\ line' = <<>>
    /\ screen' = "checking"
    /\ UNCHANGED <<store, saved, pops, saves, faults, keys>>

\* ... or does not, and the file stays empty.
WriteFails ==
    /\ screen = "writing" /\ faults < MaxFaults
    /\ faults' = faults + 1
    /\ line' = <<>> /\ saved' = Null
    /\ SaveFailed
    /\ UNCHANGED <<file, store, saves, keys>>

\* The fragment is gone; what it posted is still to come.
Detached(n) == store' = NoStore /\ pops' = [this |-> 0, old |-> pops.old + n]

Closes == screen' = "closed" /\ Detached(pops.this)

\* popBackStack(), unless nobody will be able to log in.
LeaveSilently ==
    /\ screen = "checking" /\ HasAtLeastOneAuthMethod
    /\ Closes
    /\ UNCHANGED <<file, line, saved, saves, faults, keys>>

Warn ==
    /\ screen = "checking" /\ ~HasAtLeastOneAuthMethod
    /\ screen' = "warned"
    /\ UNCHANGED <<file, store, line, saved, pops, saves, faults, keys>>

\* The dialog: cancel goes on editing with what was typed so far.
Cancel ==
    /\ screen = "warned"
    /\ screen' = "open"
    /\ UNCHANGED <<file, store, line, saved, pops, saves, faults, keys>>

Accept ==
    /\ screen = "warned"
    /\ Closes
    /\ UNCHANGED <<file, line, saved, saves, faults, keys>>

\* The delayed popBackStack() after a failed save; a dialog that is up stays ...
DelayedPop ==
    /\ pops.this > 0 /\ screen \in {"open", "warned"}
    /\ screen' = IF screen = "warned" THEN "stranded" ELSE "closed"
    /\ Detached(pops.this - 1)
    /\ UNCHANGED <<file, line, saved, saves, faults, keys>>

StrandedCancel ==
    /\ screen = "stranded"
    /\ screen' = "closed"
    /\ UNCHANGED <<file, store, line, saved, pops, saves, faults, keys>>

ProcessGone ==
    /\ screen' = "closed" /\ store' = NoStore /\ line' = <<>> /\ pops' = NoPops
    /\ saved' = IF screen = "writing" THEN Null ELSE saved
    /\ UNCHANGED <<file, saves, keys>>

\* ... and its button, like a later popBackStack(), throws: no fragment manager.
PopThrows ==
    /\ screen = "stranded" \/ (pops.old > 0 /\ screen \in {"closed", "open", "warned"})
    /\ ProcessGone
    /\ UNCHANGED faults

-----------------------------------------------------------------------------
(* authorized_keys, from the main screen, in one callback.                 *)

ImportBegins_InPlace ==
    /\ screen = "closed" /\ saves < MaxSaves
    /\ saves' = saves + 1 /\ screen' = "importing"
    /\ keys' = [keys EXCEPT !.auth = "torn"]
    /\ UNCHANGED <<file, store, line, saved, pops, faults>>

\* importAuthKeys(): Files.copy() replaces the temporary file, bit by bit.
ImportBegins ==
    /\ screen = "closed" /\ saves < MaxSaves
    /\ saves' = saves + 1 /\ screen' = "importing"
    /\ keys' = [keys EXCEPT !.tmp = "torn"]
    /\ UNCHANGED <<file, store, line, saved, pops, faults>>

ImportCopied ==
    /\ screen = "importing" /\ keys.tmp = "torn"
    /\ keys' = [keys EXCEPT !.tmp = "whole"]
    /\ UNCHANGED <<file, screen, store, line, saved, pops, saves, faults>>

\* renameTo(), then the temporary file is deleted, if it is still there ...
ImportRenamed ==
    /\ screen = "importing" /\ keys.tmp = "whole"
    /\ keys' = [auth |-> keys.tmp, tmp |-> Null]
    /\ screen' = "closed"
    /\ UNCHANGED <<file, store, line, saved, pops, saves, faults>>

\* ... as it is when the copy or the renaming fails.
ImportFails ==
    /\ screen = "importing"
    /\ keys' = [keys EXCEPT !.tmp = Null]
    /\ screen' = "closed"
    /\ UNCHANGED <<file, store, line, saved, pops, saves, faults>>

DeleteAuthKeys ==
    /\ screen = "closed" /\ keys.auth # Null
    /\ keys' = [keys EXCEPT !.auth = Null]
    /\ UNCHANGED <<file, screen, store, line, saved, pops, saves, faults>>

-----------------------------------------------------------------------------
\* The application process dies; what it had not written is lost.
Die ==
    /\ faults < MaxFaults
    /\ faults' = faults + 1
    /\ ProcessGone

Next ==
    \/ Open \/ (\E u \in UserName : PutUsername(u))
    \/ (\E p \in Password \cup {Blank} : PutPassword(p))
    \/ Remove \/ Drop \/ Rename \/ RenameFails \/ Replace \/ OpenFails
    \/ CloseWriter \/ WriteFails \/ LeaveSilently \/ Warn \/ Cancel \/ Accept
    \/ DelayedPop \/ StrandedCancel \/ PopThrows
    \/ ImportBegins \/ ImportCopied \/ ImportRenamed \/ ImportFails \/ DeleteAuthKeys
    \/ Die

Spec == Init /\ [][Next]_vars

-----------------------------------------------------------------------------
(* Properties.                                                             *)

\* "the same process is repeated for incoming passwords and compared via strcmp":
\* what a session reads from the file is the user name and the hash of the
\* password that were saved, after any sequence of edits, saves and failures;
\* while a save is going on, or after it was cut short, it reads no credentials.
\* Of a user name with colons it reads the first text that is not empty, and the
\* next one, if there is one, in the place of the hash.
NativeReadsSaved ==
    \A u, p \in Text \cup Hash :
        NativeReads(u, p) <=>
            /\ saved # Null /\ screen # "writing"
            /\ \E i \in 1..Len(saved.user) :
                  /\ Strtok(saved.user, 0, i) /\ u = saved.user[i]
                  /\ \/ /\ \A k \in (i + 1)..Len(saved.user) : saved.user[k] = Blank
                        /\ p = hash(saved.pass)
                     \/ \E j \in 1..Len(saved.user) :
                           Strtok(saved.user, i, j) /\ p = saved.user[j]

\* The settings are left without a warning only if a session will have a way to
\* authenticate: the Java side and the native side agree on what a usable
\* password file is.
SilentExitIsUsable ==
    [][LeaveSilently => OtherAuth \/ \E u, p \in Text \cup Hash : NativeReads(u, p)]_vars

\* "First write to a new temp file": unlike the password file, authorized_keys is
\* never seen half written, wherever an import is cut short and whatever it left
\* behind is met by the next one.
KeysNeverTorn == keys.auth # "torn"
=============================================================================
