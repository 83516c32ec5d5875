------------------------- MODULE CredentialsProofs -------------------------
(***************************************************************************)
(* Theorems about Credentials, for all texts and passwords, user names of  *)
(* any number of fields, and any number of saves, failed writes and faults *)
(* of the application.                                                     *)
(***************************************************************************)
EXTENDS Credentials, SequenceTheorems, TLAPS

\* The line that stands for credentials.
LineOf(c) == c.user \o <<hash(c.pass)>>

\* The file is what was saved, or empty or absent; a save that is going on has
\* emptied it and holds the line.
FileIsSaved ==
    IF screen = "writing"
    THEN saved # Null /\ file = <<>> /\ line = LineOf(saved)
    ELSE IF saved = Null THEN file \in {Null, <<>>} ELSE file = LineOf(saved)

IInv == TypeOK /\ FileIsSaved
-----------------------------------------------------------------------------
(* Lines and user names.                                                   *)

\* A user name is a sequence of at least one text.
LEMMA UserNameIsSeq ==
  ASSUME NEW u \in UserName
  PROVE  u \in Seq(Text \cup Hash) /\ Len(u) \in 1..MaxParts /\ \A i \in 1..Len(u) : u[i] \in Text
  <1>1. PICK n \in 1..MaxParts : u \in [1..n -> Text]
    BY DEF UserName
  <1>2. n \in Nat \ {0}
    BY <1>1, TextAssumption
  <1>3. u \in Seq(Text \cup Hash) /\ Len(u) = n
    BY <1>1, <1>2
  <1> QED BY <1>1, <1>3

\* A single text is a user name, if user names have at least one field.
LEMMA TextIsUserName ==
  ASSUME NEW t \in Text, MaxParts \in Nat \ {0}
  PROVE  <<t>> \in UserName
  <1>1. <<t>> \in [1..1 -> Text] /\ 1 \in 1..MaxParts
    OBVIOUS
  <1> QED BY <1>1 DEF UserName

\* Null is no user name.
LEMMA NullNoName == Null \notin UserName
  BY UserNameIsSeq, NullAssumption

\* A line begins with a text and ends with a hash.
LEMMA LineFacts ==
  ASSUME NEW u \in UserName, NEW h \in Hash
  PROVE  /\ u \o <<h>> \in Seq(Text \cup Hash) /\ u \o <<h>> # Null /\ u \o <<h>> # <<>>
         /\ Len(u \o <<h>>) = Len(u) + 1 /\ (u \o <<h>>)[Len(u) + 1] = h
         /\ \A i \in 1..Len(u) : (u \o <<h>>)[i] = u[i]
         /\ (u \o <<h>>)[1] \in Text
  <1>1. /\ u \in Seq(Text \cup Hash) /\ Len(u) \in Nat \ {0} /\ u[1] \in Text
        /\ <<h>> \in Seq(Text \cup Hash) /\ Len(<<h>>) = 1 /\ <<h>>[1] = h
    BY UserNameIsSeq
  <1>2. /\ u \o <<h>> \in Seq(Text \cup Hash) /\ Len(u \o <<h>>) = Len(u) + 1
        /\ \A i \in 1..(Len(u) + 1) :
              (u \o <<h>>)[i] = IF i <= Len(u) THEN u[i] ELSE <<h>>[i - Len(u)]
    BY <1>1, ConcatProperties
  <1>3. (u \o <<h>>)[Len(u) + 1] = h /\ \A i \in 1..Len(u) : (u \o <<h>>)[i] = u[i]
    BY <1>1, <1>2
  <1>4. u \o <<h>> # Null /\ u \o <<h>> # <<>>
    BY <1>1, <1>2, NullAssumption
  <1>5. (u \o <<h>>)[1] \in Text
    BY <1>1, <1>3
  <1> QED BY <1>2, <1>3, <1>4, <1>5

\* What was saved is a user name and a password, and its line is a line.
LEMMA SavedFacts ==
  ASSUME TypeOK, saved # Null
  PROVE  /\ saved \in [user : UserName, pass : Password] /\ saved.user \in UserName
         /\ saved.pass \in Password /\ hash(saved.pass) \in Hash
         /\ LineOf(saved) \in Seq(Text \cup Hash) /\ LineOf(saved) # Null /\ LineOf(saved) # <<>>
         /\ LineOf(saved)[1] \in Text
  <1>1. saved \in [user : UserName, pass : Password]
    BY DEF TypeOK
  <1>2. saved.user \in UserName /\ saved.pass \in Password /\ hash(saved.pass) \in Hash
    BY <1>1 DEF Hash
  <1> QED BY <1>1, <1>2, LineFacts DEF LineOf

\* In an idle settings screen, a file with content is what was saved.
LEMMA FileFacts ==
  ASSUME IInv, screen # "writing", ReadPasswordFile # Null
  PROVE  /\ saved # Null /\ file = LineOf(saved) /\ ReadPasswordFile = file
  BY DEF IInv, FileIsSaved, ReadPasswordFile

\* Empty lines are lines.
LEMMA EmptyLine == <<>> \in Seq(Text \cup Hash) /\ <<>> # Null
  <1>1. <<>> \in Seq(Text \cup Hash)
    OBVIOUS
  <1> QED BY <1>1, NullAssumption, Zenon

-----------------------------------------------------------------------------
(* The steps.                                                              *)

\* Nothing has been saved yet.
LEMMA InitIInv == Init => IInv
  <1> SUFFICES ASSUME Init PROVE IInv
    OBVIOUS
  <1>1. file # <<>>
    BY EmptyLine DEF Init
  <1>2. store \in [user : UserName \cup {Null}, pass : Password \cup {Blank, Null}, updated : BOOLEAN]
    BY DEF Init, NoStore
  <1>3. TypeOK
    BY <1>2, EmptyLine DEF Init, TypeOK, NoPops
  <1> QED BY <1>1, <1>3 DEF Init, IInv, FileIsSaved

\* A new visit to the settings.
LEMMA StepOpen == ASSUME IInv, Open PROVE IInv'
  <1>1. /\ screen = "closed" /\ screen' = "open"
        /\ UNCHANGED <<file, line, saved, pops, saves, faults, keys>>
    BY DEF Open
  <1>2. (IF ReadPasswordFile = Null THEN Null ELSE <<ReadPasswordFile[1]>>) \in UserName \cup {Null}
    <2>1. CASE ReadPasswordFile # Null
      <3>1. ReadPasswordFile[1] \in Text /\ saved.user \in UserName
        BY <1>1, <2>1, FileFacts, SavedFacts DEF IInv
      <3>2. MaxParts \in Nat \ {0}
        BY <3>1, UserNameIsSeq, TextAssumption
      <3> QED BY <2>1, <3>1, <3>2, TextIsUserName
    <2>2. CASE ReadPasswordFile = Null
      BY <2>2
    <2> QED BY <2>1, <2>2
  <1>3. store' \in [user : UserName \cup {Null}, pass : Password \cup {Blank, Null}, updated : BOOLEAN]
    BY <1>2 DEF Open, NoStore
  <1>4. TypeOK'
    BY <1>1, <1>3 DEF IInv, TypeOK
  <1> QED BY <1>1, <1>4 DEF IInv, FileIsSaved

\* Typing a user name or a password.
LEMMA StepPut ==
  ASSUME IInv, \/ \E u \in UserName : PutUsername(u)
               \/ \E p \in Password \cup {Blank} : PutPassword(p)
  PROVE  IInv'
  <1>1. UNCHANGED <<file, screen, line, saved, pops, saves, faults, keys>>
    BY DEF PutUsername, PutPassword
  <1>2. store' \in [user : UserName \cup {Null}, pass : Password \cup {Blank, Null}, updated : BOOLEAN]
    BY DEF PutUsername, PutPassword, IInv, TypeOK
  <1>3. TypeOK'
    BY <1>1, <1>2 DEF IInv, TypeOK
  <1> QED BY <1>1, <1>3 DEF IInv, FileIsSaved

\* A failed save posts one more popBackStack().
LEMMA FailedTypes ==
  ASSUME TypeOK, SaveFailed
  PROVE  pops' \in [this : Nat, old : Nat] /\ screen' = "checking"
  BY DEF TypeOK, SaveFailed

\* Leaving the settings: the credentials are removed or dropped, or the save fails before
\* it has touched the old file.
LEMMA StepBack == ASSUME IInv, Remove \/ Drop \/ RenameFails \/ OpenFails PROVE IInv'
  <1> USE DEF IInv
  <1>1. screen = "open" /\ line' = line /\ saves' = saves + 1 /\ UNCHANGED <<store, keys>>
    BY DEF Remove, Drop, RenameFails, OpenFails, Back
  <1>2. \/ UNCHANGED <<file, saved>>
        \/ file' = Null /\ saved' = Null
        \/ file = Null /\ file' = <<>> /\ saved' = saved
    BY DEF Remove, Drop, RenameFails, OpenFails
  <1>3. pops' \in [this : Nat, old : Nat] /\ screen' = "checking" /\ faults' \in Nat
    <2>1. CASE Remove \/ Drop
      BY <2>1 DEF Remove, Drop, TypeOK
    <2>2. CASE RenameFails
      BY <2>2, FailedTypes DEF RenameFails, TypeOK
    <2>3. CASE OpenFails
      BY <2>3, FailedTypes DEF OpenFails, TypeOK
    <2> QED BY <2>1, <2>2, <2>3
  <1>4. TypeOK'
    <2>1. /\ file' \in {Null} \cup Seq(Text \cup Hash)
          /\ saved' \in {Null} \cup [user : UserName, pass : Password]
      BY <1>2, EmptyLine, Zenon DEF TypeOK
    <2>2. saves' \in Nat
      BY <1>1 DEF TypeOK
    <2> QED BY <1>1, <1>3, <2>1, <2>2 DEF TypeOK
  <1>5. file = Null => saved = Null
    BY <1>1, SavedFacts DEF FileIsSaved
  <1>6. screen # "writing" /\ screen' # "writing"
    BY <1>1, <1>3
  <1> QED BY <1>2, <1>4, <1>5, <1>6, EmptyLine DEF FileIsSaved, LineOf

\* A save begins: the file is emptied and the line is that of the new credentials.
LEMMA StepSave ==
  ASSUME IInv, Back, ~Removing, file' = <<>>, screen' = "writing", UNCHANGED <<pops, faults>>,
         NEW c, c \in [user : UserName, pass : Password], c.user = store.user, saved' = c,
         line' = LineOf(c)
  PROVE  IInv'
  <1> USE DEF IInv
  <1>1. c.user \in UserName /\ c.pass \in Password /\ hash(c.pass) \in Hash /\ c # Null
    BY NullAssumption DEF Hash
  <1>2. line' \in Seq(Text \cup Hash)
    BY <1>1, LineFacts DEF LineOf
  <1>3. saves' = saves + 1 /\ UNCHANGED <<store, keys>>
    BY DEF Back
  <1>4. TypeOK'
    BY <1>1, <1>2, <1>3, EmptyLine DEF TypeOK
  <1> QED BY <1>1, <1>4 DEF FileIsSaved, LineOf

\* ... with a new name for the old password,
LEMMA StepRename == ASSUME IInv, Rename PROVE IInv'
  <1>1. screen # "writing" /\ ReadPasswordFile # Null /\ Len(ReadPasswordFile) = 2
    BY DEF Rename, CanKeep, Back
  <1>2. saved # Null /\ file = LineOf(saved) /\ ReadPasswordFile = file
    BY <1>1, FileFacts
  <1>3. /\ saved \in [user : UserName, pass : Password] /\ saved.user \in UserName
        /\ hash(saved.pass) \in Hash
    BY <1>2, SavedFacts DEF IInv
  <1>4. /\ Len(LineOf(saved)) = Len(saved.user) + 1 /\ Len(saved.user) \in Nat
        /\ LineOf(saved)[Len(saved.user) + 1] = hash(saved.pass)
    BY <1>3, LineFacts, UserNameIsSeq, TextAssumption DEF LineOf
  <1>5. KeptHash = hash(saved.pass)
    BY <1>1, <1>2, <1>4 DEF KeptHash
  <1>6. store.user \in UserName
    BY DEF IInv, TypeOK, Rename, Removing, IsBlank
  <1> DEFINE c == [saved EXCEPT !.user = store.user]
  <1>7. c \in [user : UserName, pass : Password] /\ c.user = store.user /\ c.pass = saved.pass
    BY <1>3, <1>6
  <1>8. saved' = c /\ line' = LineOf(c)
    BY <1>5, <1>7 DEF Rename, LineOf
  <1> HIDE DEF c
  <1> QED BY <1>7, <1>8, StepSave DEF Rename

\* ... or with both new.
LEMMA StepReplace == ASSUME IInv, Replace PROVE IInv'
  <1>1. store.user \in UserName /\ store.pass \in Password
    BY DEF IInv, TypeOK, Replace, Removing, IsBlank
  <1> DEFINE c == [user |-> store.user, pass |-> store.pass]
  <1>2. /\ c \in [user : UserName, pass : Password] /\ c.user = store.user
        /\ saved' = c /\ line' = LineOf(c)
    BY <1>1 DEF Replace, LineOf
  <1> HIDE DEF c
  <1> QED BY <1>2, StepSave DEF Replace

\* The save is complete.
LEMMA StepCloseWriter == ASSUME IInv, CloseWriter PROVE IInv'
  <1> USE DEF IInv
  <1>1. /\ saved # Null /\ file' = LineOf(saved) /\ line' = <<>> /\ screen' = "checking"
        /\ UNCHANGED <<store, saved, pops, saves, faults, keys>>
    BY DEF CloseWriter, FileIsSaved
  <1>2. file' \in Seq(Text \cup Hash) /\ file' # <<>>
    BY <1>1, SavedFacts
  <1>3. TypeOK'
    BY <1>1, <1>2, EmptyLine DEF TypeOK
  <1> QED BY <1>1, <1>2, <1>3 DEF FileIsSaved, LineOf

\* The save is cut short: the old credentials are lost with the new ones.
LEMMA StepWriteFails == ASSUME IInv, WriteFails PROVE IInv'
  <1> USE DEF IInv
  <1>1. /\ file' = <<>> /\ line' = <<>> /\ saved' = Null /\ faults' = faults + 1
        /\ UNCHANGED <<store, saves, keys>>
    BY DEF WriteFails, FileIsSaved
  <1>2. pops' \in [this : Nat, old : Nat] /\ screen' = "checking"
    BY FailedTypes DEF WriteFails
  <1>3. TypeOK'
    BY <1>1, <1>2, EmptyLine DEF TypeOK
  <1> QED BY <1>1, <1>2, <1>3 DEF FileIsSaved

\* The screen changes, the file and what was saved do not.
LEMMA StepScreen ==
  ASSUME IInv, LeaveSilently \/ Warn \/ Cancel \/ Accept \/ DelayedPop \/ StrandedCancel
  PROVE  IInv'
  <1> USE DEF IInv
  <1>1. /\ screen # "writing" /\ screen' \in {"closed", "open", "warned", "stranded"}
        /\ store' \in {store, NoStore}
        /\ UNCHANGED <<file, line, saved, saves, faults, keys>>
    BY DEF LeaveSilently, Warn, Cancel, Accept, DelayedPop, StrandedCancel, Closes, Detached
  <1>2. NoStore \in [user : UserName \cup {Null}, pass : Password \cup {Blank, Null}, updated : BOOLEAN]
    BY DEF NoStore
  <1>3. pops' \in [this : Nat, old : Nat]
    <2>1. pops \in [this : Nat, old : Nat]
      BY DEF TypeOK
    <2>2. CASE LeaveSilently \/ Accept
      BY <2>1, <2>2 DEF LeaveSilently, Accept, Closes, Detached
    <2>3. CASE Warn \/ Cancel \/ StrandedCancel
      BY <2>1, <2>3 DEF Warn, Cancel, StrandedCancel
    <2>4. CASE DelayedPop
      BY <2>1, <2>4 DEF DelayedPop, Detached
    <2> QED BY <2>2, <2>3, <2>4
  <1>4. TypeOK'
    BY <1>1, <1>2, <1>3 DEF TypeOK
  <1> QED BY <1>1, <1>4 DEF FileIsSaved, LineOf

\* The process ends: a save that was going on is lost with the old credentials.
LEMMA StepGone == ASSUME IInv, Die \/ PopThrows PROVE IInv'
  <1> USE DEF IInv
  <1>1. /\ screen' = "closed" /\ store' = NoStore /\ line' = <<>> /\ pops' = NoPops
        /\ saved' = IF screen = "writing" THEN Null ELSE saved
        /\ UNCHANGED <<file, saves, keys>> /\ faults' \in {faults, faults + 1}
    BY DEF Die, PopThrows, ProcessGone
  <1>2. NoStore \in [user : UserName \cup {Null}, pass : Password \cup {Blank, Null}, updated : BOOLEAN]
    BY DEF NoStore
  <1>3. faults' \in Nat /\ pops' \in [this : Nat, old : Nat]
    BY <1>1 DEF TypeOK, NoPops
  <1>4. TypeOK'
    BY <1>1, <1>2, <1>3, EmptyLine DEF TypeOK
  <1> QED BY <1>1, <1>4 DEF FileIsSaved, LineOf

\* An import of authorized_keys does not touch the password file.
LEMMA StepKeys ==
  ASSUME IInv, ImportBegins \/ ImportCopied \/ ImportRenamed \/ ImportFails \/ DeleteAuthKeys
  PROVE  IInv'
  <1> USE DEF IInv
  <1>1. /\ screen # "writing" /\ screen' # "writing" /\ saves' \in {saves, saves + 1}
        /\ screen' \in {"closed", "importing"}
        /\ UNCHANGED <<file, store, line, saved, pops, faults>>
    BY DEF ImportBegins, ImportCopied, ImportRenamed, ImportFails, DeleteAuthKeys
  <1>2. keys' \in [auth : {Null, "whole", "torn"}, tmp : {Null, "whole", "torn"}]
    BY DEF TypeOK, ImportBegins, ImportCopied, ImportRenamed, ImportFails, DeleteAuthKeys
  <1>3. TypeOK'
    BY <1>1, <1>2 DEF TypeOK
  <1> QED BY <1>1, <1>3 DEF FileIsSaved

\* Every step, and every stuttering step, keeps the invariant.
LEMMA NextIInv == IInv /\ [Next]_vars => IInv'
  <1> SUFFICES ASSUME IInv, [Next]_vars PROVE IInv'
    OBVIOUS
  <1>1. CASE UNCHANGED vars
    BY <1>1 DEF vars, IInv, TypeOK, FileIsSaved
  <1> QED
    BY <1>1, StepOpen, StepPut, StepBack, StepRename, StepReplace, StepCloseWriter,
       StepWriteFails, StepScreen, StepGone, StepKeys DEF Next

\* The inductive invariant holds throughout.
LEMMA Invariant == Spec => []IInv
  BY InitIInv, NextIInv, PTL DEF Spec

-----------------------------------------------------------------------------
(* The theorems.                                                           *)

\* The state of the settings and of the files keeps its type.
THEOREM TypeCorrect == Spec => []TypeOK
  BY Invariant, PTL DEF IInv

\* importAuthKeys(): a session never finds authorized_keys half written, wherever the
\* import is cut short.
THEOREM KeysWhole == Spec => []KeysNeverTorn
  <1>1. Init => KeysNeverTorn
    BY NullAssumption DEF Init, KeysNeverTorn
  <1>2. IInv /\ KeysNeverTorn /\ [Next]_vars => KeysNeverTorn'
    <2> SUFFICES ASSUME IInv, KeysNeverTorn, [Next]_vars PROVE KeysNeverTorn'
      OBVIOUS
    <2>1. keys \in [auth : {Null, "whole", "torn"}, tmp : {Null, "whole", "torn"}]
      BY DEF IInv, TypeOK
    <2>2. \/ keys' = keys
          \/ keys' = [keys EXCEPT !.tmp = "torn"] \/ keys' = [keys EXCEPT !.tmp = "whole"]
          \/ keys' = [keys EXCEPT !.tmp = Null] \/ keys' = [keys EXCEPT !.auth = Null]
          \/ keys.tmp = "whole" /\ keys' = [auth |-> keys.tmp, tmp |-> Null]
      BY DEF Next, vars, Open, PutUsername, PutPassword, Remove, Drop, Rename, RenameFails, Replace,
             OpenFails, Back, CloseWriter, WriteFails, LeaveSilently, Warn, Cancel, Accept, DelayedPop,
             StrandedCancel, PopThrows, ProcessGone, ImportBegins, ImportCopied, ImportRenamed, ImportFails, DeleteAuthKeys, Die
    <2> QED BY <2>1, <2>2, NullAssumption DEF KeysNeverTorn
  <1> QED BY <1>1, <1>2, Invariant, PTL DEF Spec

\* The first two fields of a line, when neither is empty, are its tokens.
LEMMA TokensOfPair ==
  ASSUME file # Null, file \in Seq(Text \cup Hash), Len(file) = 2, file[1] # Blank, file[2] # Blank,
         NEW u, NEW p
  PROVE  NativeReads(u, p) <=> u = file[1] /\ p = file[2]
  <1>1. Strtok(file, 0, 1) /\ Strtok(file, 1, 2)
    BY DEF Strtok
  <1>2. ASSUME NEW i \in 1..Len(file), NEW j \in 1..Len(file), Strtok(file, 0, i), Strtok(file, i, j)
        PROVE  i = 1 /\ j = 2
    <2>1. i \in {1, 2} /\ j \in {1, 2} /\ i < j
      BY <1>2 DEF Strtok
    <2> QED BY <2>1
  <1> QED BY <1>1, <1>2 DEF NativeReads

\* hasAtLeastOneAuthMethod() and ikofi_get_user_password(): whatever the user names,
\* when the settings close without a warning a session finds a user and a password, or
\* another method is switched on.
THEOREM SilentExit == Spec => SilentExitIsUsable
  <1>1. IInv /\ [Next]_vars
          => [LeaveSilently => OtherAuth \/ \E u, p \in Text \cup Hash : NativeReads(u, p)]_vars
    <2> SUFFICES ASSUME IInv, LeaveSilently, ~OtherAuth
                 PROVE  \E u, p \in Text \cup Hash : NativeReads(u, p)
      OBVIOUS
    <2>1. /\ screen # "writing" /\ ReadPasswordFile # Null /\ Len(ReadPasswordFile) = 2
          /\ ReadPasswordFile[1] # Blank /\ ReadPasswordFile[2] # Blank
      BY DEF LeaveSilently, HasAtLeastOneAuthMethod
    <2>2. ReadPasswordFile = file /\ file # Null /\ file \in Seq(Text \cup Hash)
      BY <2>1, FileFacts, SavedFacts DEF IInv
    <2>3. NativeReads(file[1], file[2])
      BY <2>1, <2>2, TokensOfPair
    <2>4. file[1] \in Text \cup Hash /\ file[2] \in Text \cup Hash
      <3>1. Len(file) = 2 /\ 1 \in 1..2 /\ 2 \in 1..2
        BY <2>1, <2>2
      <3> QED BY <2>2, <3>1, ElementOfSeq
    <2> QED BY <2>3, <2>4
  <1> QED BY <1>1, Invariant, PTL DEF Spec, SilentExitIsUsable

\* writePasswordFile() and ikofi_get_user_password(): a session reads the name and the hash
\* that were saved last, and none while a save is going on or after it was cut short, by a
\* death or a failed write; what it makes of a colon in the name is part of the statement.
THEOREM SavedIsRead == Spec => []NativeReadsSaved
  <1>1. IInv => NativeReadsSaved
    <2> DEFINE Reads(u, p) ==
          \E i \in 1..Len(saved.user) :
             /\ Strtok(saved.user, 0, i) /\ u = saved.user[i]
             /\ \/ /\ \A k \in (i + 1)..Len(saved.user) : saved.user[k] = Blank
                   /\ p = hash(saved.pass)
                \/ \E j \in 1..Len(saved.user) : Strtok(saved.user, i, j) /\ p = saved.user[j]
    <2> SUFFICES ASSUME IInv, NEW u \in Text \cup Hash, NEW p \in Text \cup Hash
                 PROVE  NativeReads(u, p) <=> saved # Null /\ screen # "writing" /\ Reads(u, p)
      BY DEF NativeReadsSaved
    <2>1. CASE saved = Null \/ screen = "writing"
      <3>1. file \in {Null, <<>>}
        BY <2>1 DEF IInv, FileIsSaved
      <3>2. ~NativeReads(u, p)
        BY <3>1 DEF NativeReads
      <3> QED BY <2>1, <3>2
    <2>2. CASE saved # Null /\ screen # "writing"
      <3> DEFINE n == Len(saved.user)
                 h == hash(saved.pass)
      <3>1. file = LineOf(saved) /\ saved.user \in UserName /\ h \in Hash
        BY <2>2, SavedFacts DEF IInv, FileIsSaved
      <3>2. /\ n \in Nat /\ file # Null /\ Len(file) = n + 1 /\ file[n + 1] = h
            /\ \A k \in 1..n : file[k] = saved.user[k]
        <4>1. n \in Nat
          BY <3>1, UserNameIsSeq, TextAssumption
        <4>2. LineOf(saved) = saved.user \o <<h>>
          BY DEF LineOf
        <4> HIDE DEF h
        <4> DEFINE l == saved.user \o <<h>>
        <4>3. /\ l # Null /\ Len(l) = Len(saved.user) + 1 /\ l[Len(saved.user) + 1] = h
              /\ \A k \in 1..Len(saved.user) : l[k] = saved.user[k]
          BY <3>1, LineFacts, Zenon
        <4>4. file = l
          BY <3>1, <4>2
        <4> HIDE DEF l
        <4> QED BY <4>1, <4>3, <4>4
      <3>3. h # Blank
        BY <3>1, NullAssumption
      <3> HIDE DEF n, h
      <3>4. ASSUME NEW i \in 0..n, NEW j \in 1..n
            PROVE  Strtok(file, i, j) <=> Strtok(saved.user, i, j)
        BY <3>2 DEF Strtok
      <3>5. ASSUME NEW i \in 0..n
            PROVE  Strtok(file, i, n + 1) <=> \A k \in (i + 1)..n : saved.user[k] = Blank
        BY <3>2, <3>3 DEF Strtok
      <3>6. ASSUME NativeReads(u, p) PROVE Reads(u, p)
        <4>1. PICK i \in 1..(n + 1), j \in 1..(n + 1) :
                 Strtok(file, 0, i) /\ Strtok(file, i, j) /\ u = file[i] /\ p = file[j]
          BY <3>2, <3>6 DEF NativeReads
        <4>2. i < j
          BY <4>1 DEF Strtok
        <4>3. i \in 1..n /\ i \in 0..n /\ 0 \in 0..n
          BY <3>2, <4>2
        <4>4. Strtok(saved.user, 0, i) /\ u = saved.user[i]
          BY <3>2, <3>4, <4>1, <4>3
        <4>5. CASE j = n + 1
          <5>1. (\A k \in (i + 1)..n : saved.user[k] = Blank) /\ p = h
            BY <3>2, <3>5, <4>1, <4>3, <4>5
          <5> QED BY <4>3, <4>4, <5>1 DEF n, h
        <4>6. CASE j # n + 1
          <5>1. j \in 1..n
            BY <3>2, <4>6
          <5>2. Strtok(saved.user, i, j) /\ p = saved.user[j]
            BY <3>2, <3>4, <4>1, <4>3, <5>1
          <5> QED BY <4>3, <4>4, <5>1, <5>2 DEF n
        <4> QED BY <4>5, <4>6
      <3>7. ASSUME Reads(u, p) PROVE NativeReads(u, p)
        <4>1. PICK i \in 1..n :
                 /\ Strtok(saved.user, 0, i) /\ u = saved.user[i]
                 /\ \/ /\ \A k \in (i + 1)..n : saved.user[k] = Blank
                       /\ p = h
                    \/ \E j \in 1..n : Strtok(saved.user, i, j) /\ p = saved.user[j]
          BY <3>7 DEF n, h
        <4>2. i \in 1..(n + 1) /\ i \in 0..n /\ 0 \in 0..n /\ n + 1 \in 1..(n + 1)
          BY <3>2
        <4>3. Strtok(file, 0, i) /\ u = file[i]
          BY <3>2, <3>4, <4>1, <4>2
        <4>4. CASE (\A k \in (i + 1)..n : saved.user[k] = Blank) /\ p = h
          <5>1. Strtok(file, i, n + 1) /\ p = file[n + 1]
            BY <3>2, <3>5, <4>2, <4>4
          <5> QED BY <3>2, <4>2, <4>3, <5>1 DEF NativeReads
        <4>5. ASSUME NEW j \in 1..n, Strtok(saved.user, i, j), p = saved.user[j]
              PROVE  NativeReads(u, p)
          <5>1. Strtok(file, i, j) /\ p = file[j] /\ j \in 1..(n + 1)
            BY <3>2, <3>4, <4>2, <4>5
          <5> QED BY <3>2, <4>2, <4>3, <5>1 DEF NativeReads
        <4> QED BY <4>1, <4>4, <4>5
      <3> QED BY <2>2, <3>6, <3>7
    <2> QED BY <2>1, <2>2
  <1> QED BY <1>1, Invariant, PTL
=============================================================================
