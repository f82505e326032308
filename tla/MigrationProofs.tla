--------------------------- MODULE MigrationProofs ---------------------------
(***************************************************************************)
(* One call at a time encrypts a project atomically: for any calls and any *)
(* number of files, Migration implements EncryptionAtRest if MaxRunning is *)
(* 1.  What two calls at once can do is in the run migration_concurrent.   *)
(***************************************************************************)
EXTENDS Migration, FiniteSetTheorems, TLAPS

\* One call at a time is under way.
Alone == \A c, d \in Running : c = d

\* The three names refer to different files.
NamesApart ==
    /\ path \notin {tmp, bak}
    /\ tmp = bak => tmp = NoFile

\* What a call has established when it is at a step.  Every fact is needed
\* for Publish to replace a source in plain text by the exported project, with
\* the backup in place.
Progress(c) ==
    LET at == call[c].at IN
    /\ at # "idle" => content[path] \in PlainText /\ call[c].returned = "none"
    /\ at \notin {"idle", "publish"} => bak = NoFile
    /\ at \in {"open", "attach"} => tmp = NoFile
    /\ at \notin {"idle", "clear", "open"} => content[path] = "plain"
    /\ at \in {"export", "exporting"} => tmp = call[c].attached
    /\ at \in {"verify", "copy", "rename", "publish"} =>
          tmp # NoFile /\ content[tmp] = "cipher"
    /\ at = "rename" => call[c].copy = "plain"
    /\ at = "publish" => bak # NoFile /\ content[bak] = "plain"

Inv ==
    /\ TypeOK
    /\ Alone
    /\ NamesApart
    /\ content[path] \in Whole
    /\ \A c \in Calls : Progress(c)

-----------------------------------------------------------------------------

\* While c is under way, no other call is.
LEMMA OthersIdle ==
    ASSUME Inv, NEW c \in Calls, call[c].at # "idle"
    PROVE  \A d \in Calls \ {c} : call[d].at = "idle"
  BY DEF Inv, Alone, Running

\* An idle call has nothing to establish, so a step of c has to be shown to
\* keep the invariant of c only.
LEMMA OneCall ==
    ASSUME NEW c \in Calls,
           (\A d \in Calls \ {c} : call[d].at = "idle")',
           TypeOK', NamesApart', (content[path] \in Whole)', Progress(c)'
    PROVE  Inv'
<1>1. Alone'
  BY DEF Alone, Running
<1>2. ASSUME NEW d \in Calls \ {c} PROVE Progress(d)'
  BY <1>2 DEF Progress
<1>. QED BY <1>1, <1>2 DEF Inv

\* Replacing one call by a call keeps the calls calls.
LEMMA CallType ==
    ASSUME call \in [Calls -> Call], NEW c \in Calls, NEW r \in Call,
           call' = [call EXCEPT ![c] = r]
    PROVE  /\ call' \in [Calls -> Call]
           /\ call'[c] = r
           /\ \A d \in Calls \ {c} : call'[d] = call[d]
  OBVIOUS

\* Clearing the temporary file keeps the invariant: the call exports to a new file.
LEMMA KeptByClearTemp ==
    ASSUME Inv, NEW c \in Calls, ClearTemp(c)
    PROVE  Inv'
<1>. DEFINE r == [call[c] EXCEPT !.at = "open"]
<1>1. r \in Call /\ call' = [call EXCEPT ![c] = r]
  BY DEF Inv, TypeOK, Call, ClearTemp, Step
<1>2. /\ call' \in [Calls -> Call] /\ call'[c] = r
      /\ \A d \in Calls \ {c} : call'[d] = call[d] /\ call[d].at = "idle"
  BY <1>1, CallType, OthersIdle DEF Inv, TypeOK, ClearTemp, Step
<1>3. TypeOK'
  BY <1>2, FilesAssumption DEF Inv, TypeOK, Content, Call, ClearTemp, Step
<1>4. NamesApart' /\ (content[path] \in Whole)' /\ Progress(c)'
  BY <1>2, FilesAssumption DEF Inv, TypeOK, NamesApart, Progress, PlainText, Whole, Call, ClearTemp, Step
<1>. QED BY <1>2, <1>3, <1>4, OneCall

\* Opening the source leaves it in plain text, in the current schema.
LEMMA KeptByOpenSource ==
    ASSUME Inv, NEW c \in Calls, OpenSource(c)
    PROVE  Inv'
<1>. DEFINE r == [call[c] EXCEPT !.at = "attach"]
<1>1. r \in Call /\ call' = [call EXCEPT ![c] = r]
  BY DEF Inv, TypeOK, Call, OpenSource, Step
<1>2. /\ call' \in [Calls -> Call] /\ call'[c] = r
      /\ \A d \in Calls \ {c} : call'[d] = call[d] /\ call[d].at = "idle"
  BY <1>1, CallType, OthersIdle DEF Inv, TypeOK, OpenSource, Step
<1>3. TypeOK'
  BY <1>2, FilesAssumption DEF Inv, TypeOK, Content, Call, OpenSource, Step
<1>4. NamesApart' /\ (content[path] \in Whole)' /\ Progress(c)'
  BY <1>2, FilesAssumption DEF Inv, TypeOK, NamesApart, Progress, PlainText, Whole, Call, OpenSource, Step
<1>. QED BY <1>2, <1>3, <1>4, OneCall

\* The file a call exports to is a new one, which no other name refers to.
LEMMA KeptByAttach ==
    ASSUME Inv, NEW c \in Calls, Attach(c)
    PROVE  Inv'
<1>1. PICK f \in Opening(tmp) :
        /\ call' = [call EXCEPT ![c].at = "export", ![c].attached = f]
        /\ content' = [content EXCEPT ![f] = IF tmp = NoFile THEN "empty" ELSE @]
        /\ tmp' = f
  BY DEF Attach
<1>. DEFINE r == [call[c] EXCEPT !.at = "export", !.attached = f]
<1>2. f \in Files /\ f \notin {path, bak} /\ tmp = NoFile
  BY FilesAssumption DEF Inv, Progress, Attach, Opening, Free, InUse, TypeOK
<1>3. r \in Call /\ call' = [call EXCEPT ![c] = r]
  BY <1>1, <1>2 DEF Inv, TypeOK, Call
<1>4. /\ call' \in [Calls -> Call] /\ call'[c] = r
      /\ \A d \in Calls \ {c} : call'[d] = call[d] /\ call[d].at = "idle"
  BY <1>3, CallType, OthersIdle DEF Inv, TypeOK, Attach
<1>5. TypeOK'
  BY <1>1, <1>2, <1>4, FilesAssumption DEF Inv, TypeOK, Attach, Content, Call
<1>6. NamesApart' /\ (content[path] \in Whole)' /\ Progress(c)'
  BY <1>1, <1>2, <1>4 DEF Inv, TypeOK, Attach, NamesApart, Progress, Call
<1>. QED BY <1>4, <1>5, <1>6, OneCall

\* Exporting changes neither the source nor the backup.
LEMMA KeptByStartExport ==
    ASSUME Inv, NEW c \in Calls, StartExport(c)
    PROVE  Inv'
<1>. DEFINE r == [call[c] EXCEPT !.at = "exporting"]
<1>1. r \in Call /\ call' = [call EXCEPT ![c] = r]
  BY DEF Inv, TypeOK, Call, StartExport, Step
<1>2. /\ call' \in [Calls -> Call] /\ call'[c] = r
      /\ \A d \in Calls \ {c} : call'[d] = call[d] /\ call[d].at = "idle"
  BY <1>1, CallType, OthersIdle DEF Inv, TypeOK, StartExport, Step
<1>3. TypeOK'
  BY <1>2, FilesAssumption DEF Inv, TypeOK, Content, Call, StartExport, Step
<1>4. NamesApart' /\ (content[path] \in Whole)' /\ Progress(c)'
  BY <1>2, FilesAssumption DEF Inv, TypeOK, NamesApart, Progress, PlainText, Whole, Call, StartExport, Step
<1>. QED BY <1>2, <1>3, <1>4, OneCall

\* The file with the temporary name holds the project when the export is done.
LEMMA KeptByFinishExport ==
    ASSUME Inv, NEW c \in Calls, FinishExport(c)
    PROVE  Inv'
<1>. DEFINE r == [call[c] EXCEPT !.at = "verify", !.attached = NoFile]
<1>1. r \in Call /\ call' = [call EXCEPT ![c] = r]
  BY DEF Inv, TypeOK, Call, FinishExport
<1>2. /\ call' \in [Calls -> Call] /\ call'[c] = r
      /\ \A d \in Calls \ {c} : call'[d] = call[d] /\ call[d].at = "idle"
  BY <1>1, CallType, OthersIdle DEF Inv, TypeOK, FinishExport
<1>3. TypeOK'
  BY <1>2, FilesAssumption DEF Inv, TypeOK, Content, Call, FinishExport
<1>4. NamesApart' /\ (content[path] \in Whole)' /\ Progress(c)'
  BY <1>2, FilesAssumption DEF Inv, TypeOK, NamesApart, Progress, PlainText, Whole, Call, FinishExport
<1>. QED BY <1>2, <1>3, <1>4, OneCall

\* Verifying opens the exported file, and changes nothing.
LEMMA KeptByVerify ==
    ASSUME Inv, NEW c \in Calls, Verify(c)
    PROVE  Inv'
<1>. DEFINE r == [call[c] EXCEPT !.at = "copy"]
<1>1. tmp \in Files /\ tmp # NoFile /\ content[tmp] = "cipher"
  BY FilesAssumption DEF Inv, TypeOK, Progress, Verify, Step
<1>2. r \in Call /\ call' = [call EXCEPT ![c] = r]
  BY DEF Inv, TypeOK, Call, Verify, Step
<1>3. /\ call' \in [Calls -> Call] /\ call'[c] = r
      /\ \A d \in Calls \ {c} : call'[d] = call[d] /\ call[d].at = "idle"
  BY <1>2, CallType, OthersIdle DEF Inv, TypeOK, Verify, Step
<1>4. UNCHANGED <<content, path, tmp, bak>> /\ call[c].at = "verify"
  BY <1>1 DEF Inv, TypeOK, Verify, Step, Opening
<1>5. TypeOK'
  BY <1>3, <1>4 DEF Inv, TypeOK, Call
<1>6. NamesApart' /\ (content[path] \in Whole)' /\ Progress(c)'
  BY <1>1, <1>3, <1>4 DEF Inv, TypeOK, NamesApart, Progress, Call
<1>. QED BY <1>3, <1>5, <1>6, OneCall

\* The copy is of the source, in the current schema.
LEMMA KeptByCopyBackup ==
    ASSUME Inv, NEW c \in Calls, CopyBackup(c)
    PROVE  Inv'
<1>. DEFINE r == [call[c] EXCEPT !.at = "rename", !.copy = content[path]]
<1>1. r \in Call /\ call' = [call EXCEPT ![c] = r]
  BY DEF Inv, TypeOK, Call, CopyBackup
<1>2. /\ call' \in [Calls -> Call] /\ call'[c] = r
      /\ \A d \in Calls \ {c} : call'[d] = call[d] /\ call[d].at = "idle"
  BY <1>1, CallType, OthersIdle DEF Inv, TypeOK, CopyBackup
<1>3. TypeOK'
  BY <1>2, FilesAssumption DEF Inv, TypeOK, Content, Call, CopyBackup
<1>4. NamesApart' /\ (content[path] \in Whole)' /\ Progress(c)'
  BY <1>2, FilesAssumption DEF Inv, TypeOK, NamesApart, Progress, PlainText, Whole, Call, CopyBackup
<1>. QED BY <1>2, <1>3, <1>4, OneCall

\* The backup becomes a file of its own.
LEMMA KeptByRenameBackup ==
    ASSUME Inv, NEW c \in Calls, RenameBackup(c)
    PROVE  Inv'
<1>. DEFINE r == [call[c] EXCEPT !.at = "publish", !.copy = "none", !.published = TRUE]
<1>1. r \in Call /\ call' = [call EXCEPT ![c] = r]
  BY DEF Inv, TypeOK, Call, RenameBackup, Free, InUse
<1>2. /\ call' \in [Calls -> Call] /\ call'[c] = r
      /\ \A d \in Calls \ {c} : call'[d] = call[d] /\ call[d].at = "idle"
  BY <1>1, CallType, OthersIdle DEF Inv, TypeOK, RenameBackup, Free, InUse
<1>3. TypeOK'
  BY <1>2, FilesAssumption DEF Inv, TypeOK, Content, Call, RenameBackup, Free, InUse
<1>4. NamesApart' /\ (content[path] \in Whole)' /\ Progress(c)'
  BY <1>2, FilesAssumption DEF Inv, TypeOK, NamesApart, Progress, PlainText, Whole, Call, RenameBackup, Free, InUse
<1>. QED BY <1>2, <1>3, <1>4, OneCall

\* The project's name moves from the source to the exported file.
LEMMA KeptByPublish ==
    ASSUME Inv, NEW c \in Calls, Publish(c)
    PROVE  Inv'
<1>. DEFINE r == Idle("encrypted")
<1>1. r \in Call /\ call' = [call EXCEPT ![c] = r]
  BY DEF Inv, TypeOK, Call, Publish, Idle
<1>2. /\ call' \in [Calls -> Call] /\ call'[c] = r
      /\ \A d \in Calls \ {c} : call'[d] = call[d] /\ call[d].at = "idle"
  BY <1>1, CallType, OthersIdle DEF Inv, TypeOK, Publish, Idle
<1>3. TypeOK'
  BY <1>2, FilesAssumption DEF Inv, TypeOK, Content, Call, Publish, Idle
<1>4. NamesApart' /\ (content[path] \in Whole)' /\ Progress(c)'
  BY <1>2, FilesAssumption DEF Inv, TypeOK, NamesApart, Progress, PlainText, Whole, Call, Publish, Idle
<1>. QED BY <1>2, <1>3, <1>4, OneCall

\* A failure removes only what the call has made.
LEMMA KeptByFail ==
    ASSUME Inv, NEW c \in Calls, Fail(c)
    PROVE  Inv'
<1>. DEFINE r == Idle("error")
<1>1. r \in Call /\ call' = [call EXCEPT ![c] = r]
  BY DEF Inv, TypeOK, Call, Fail, Idle
<1>2. /\ call' \in [Calls -> Call] /\ call'[c] = r
      /\ \A d \in Calls \ {c} : call'[d] = call[d] /\ call[d].at = "idle"
  BY <1>1, CallType, OthersIdle DEF Inv, TypeOK, Fail, Idle
<1>3. TypeOK'
  BY <1>2, FilesAssumption DEF Inv, TypeOK, Content, Call, Fail, Idle
<1>4. NamesApart' /\ (content[path] \in Whole)' /\ Progress(c)'
  BY <1>2, FilesAssumption DEF Inv, TypeOK, NamesApart, Progress, PlainText, Whole, Call, Fail, Idle
<1>. QED BY <1>2, <1>3, <1>4, OneCall

\* A crash leaves the source where it is.
LEMMA KeptByCrash ==
    ASSUME Inv, NEW c \in Calls, Crash(c)
    PROVE  Inv'
<1>. DEFINE r == Idle("crashed")
<1>1. r \in Call /\ call' = [call EXCEPT ![c] = r]
  BY DEF Inv, TypeOK, Call, Crash, Idle
<1>2. /\ call' \in [Calls -> Call] /\ call'[c] = r
      /\ \A d \in Calls \ {c} : call'[d] = call[d] /\ call[d].at = "idle"
  BY <1>1, CallType, OthersIdle DEF Inv, TypeOK, Crash, Idle
<1>3. TypeOK'
  BY <1>2, FilesAssumption DEF Inv, TypeOK, Content, Call, Crash, Idle
<1>4. NamesApart' /\ (content[path] \in Whole)' /\ Progress(c)'
  BY <1>2, FilesAssumption DEF Inv, TypeOK, NamesApart, Progress, PlainText, Whole, Call, Crash, Idle
<1>. QED BY <1>2, <1>3, <1>4, OneCall

\* A call begins only if no other is under way.
LEMMA KeptByCheck ==
    ASSUME Inv, MaxRunning = 1, NEW c \in Calls, Check(c)
    PROVE  Inv'
<1>. DEFINE r == [Idle("none") EXCEPT !.at = "clear"]
<1>1. Running = {}
  <2>1. IsFiniteSet(Running)
    BY CallsAssumption, FS_Subset DEF Running
  <2>2. Cardinality(Running) = 0
    BY <2>1, FS_CardinalityType DEF Check
  <2>. QED BY <2>1, <2>2, FS_EmptySet
<1>2. r \in Call /\ call' = [call EXCEPT ![c] = r]
  BY DEF Call, Idle, Check
<1>3. /\ call' \in [Calls -> Call] /\ call'[c] = r
      /\ \A d \in Calls \ {c} : call'[d] = call[d] /\ call[d].at = "idle"
  BY <1>1, <1>2, CallType DEF Inv, TypeOK, Running
<1>4. TypeOK'
  BY <1>3 DEF Inv, TypeOK, Check, Idle
<1>5. NamesApart' /\ (content[path] \in Whole)' /\ Progress(c)'
  BY <1>3 DEF Inv, TypeOK, NamesApart, Progress, Check, Idle
<1>. QED BY <1>3, <1>4, <1>5, OneCall

\* Removing the backup concerns no call.
LEMMA KeptByRemoveBackup ==
    ASSUME Inv, RemoveBackup
    PROVE  Inv'
<1>1. TypeOK' /\ NamesApart' /\ (content[path] \in Whole)'
  BY FilesAssumption DEF Inv, TypeOK, NamesApart, RemoveBackup
<1>2. Alone' /\ \A c \in Calls : call'[c].at = "idle"
  BY DEF Inv, Alone, Running, RemoveBackup
<1>3. \A c \in Calls : Progress(c)'
  BY <1>2 DEF Progress
<1>. QED BY <1>1, <1>2, <1>3 DEF Inv

\* One call at a time keeps the invariant: the names stay apart, and the call
\* is where it believes to be when it publishes.
THEOREM AloneInvariant == MaxRunning = 1 /\ Spec => []Inv
<1>1. Init => Inv
  <2>. SUFFICES ASSUME Init PROVE Inv
    OBVIOUS
  <2>1. PICK f \in Files :
          /\ content \in {[g \in Files |-> IF g = f THEN p ELSE "empty"] : p \in PlainText}
          /\ path = f
          /\ tmp = NoFile /\ bak = NoFile
          /\ call = [c \in Calls |-> Idle("none")]
    BY DEF Init
  <2>2. \A c \in Calls : call[c] = Idle("none") /\ call[c] \in Call
    BY <2>1 DEF Idle, Call
  <2>3. TypeOK /\ content[path] \in Whole
    BY <2>1, <2>2 DEF TypeOK, Content, PlainText, Whole, Idle
  <2>4. Alone /\ NamesApart /\ \A c \in Calls : Progress(c)
    BY <2>1, <2>2, FilesAssumption DEF Alone, Running, NamesApart, Progress, Idle
  <2>. QED BY <2>3, <2>4 DEF Inv
<1>2. ASSUME MaxRunning = 1, Inv, [Next]_vars PROVE Inv'
  <2>1. CASE UNCHANGED vars
    BY <1>2, <2>1 DEF vars, Inv, TypeOK, Alone, Running, NamesApart, Progress
  <2>2. CASE RemoveBackup
    BY <1>2, <2>2, KeptByRemoveBackup
  <2>3. CASE \E c \in Calls :
                \/ Check(c) \/ ClearTemp(c) \/ OpenSource(c) \/ Attach(c)
                \/ StartExport(c) \/ FinishExport(c) \/ Verify(c) \/ CopyBackup(c)
                \/ RenameBackup(c) \/ Publish(c) \/ Fail(c) \/ Crash(c)
    BY <1>2, <2>3, KeptByCheck, KeptByClearTemp, KeptByOpenSource, KeptByAttach,
       KeptByStartExport, KeptByFinishExport, KeptByVerify, KeptByCopyBackup,
       KeptByRenameBackup, KeptByPublish, KeptByFail, KeptByCrash
  <2>. QED BY <1>2, <2>1, <2>2, <2>3 DEF Next
<1>. QED
  <2>1. (MaxRunning = 1)' <=> MaxRunning = 1
    OBVIOUS
  <2>. QED BY <1>1, <1>2, <2>1, PTL DEF Spec

-----------------------------------------------------------------------------
(* Implementing the abstract specification                                  *)

\* How the project and its backup look to the abstract specification.
Stored ==
    IF content[path] \in PlainText THEN "plain"
    ELSE IF content[path] = "cipher" THEN "encrypted" ELSE "lost"

BackedUp == content[path] = "cipher" /\ bak # NoFile /\ content[bak] = "plain"

\* With one call at a time, encrypting a project is atomic, whatever fails or
\* crashes (MigratePlaintextToEncrypted).
THEOREM MigrationIsAtomic == MaxRunning = 1 /\ Spec => EncryptsAtomically
<1>1. Init => Atomic!Init
  BY DEF Init, Atomic!Init, PlainText
<1>2. ASSUME Inv, Inv', [Next]_vars
      PROVE  [Atomic!Encrypt \/ Atomic!RemoveBackup]_<<Stored, BackedUp>>
  <2>1. CASE UNCHANGED vars
    BY <2>1 DEF vars, Stored, BackedUp
  <2>2. CASE RemoveBackup
    BY <1>2, <2>2 DEF RemoveBackup, Stored, BackedUp, Atomic!RemoveBackup, Inv, TypeOK,
                      PlainText, Whole
  <2>3. ASSUME NEW c \in Calls, Publish(c)
        PROVE  Atomic!Encrypt
    BY <1>2, <2>3 DEF Publish, Inv, TypeOK, NamesApart, Progress, PlainText, Atomic!Encrypt
  <2>4. ASSUME NEW c \in Calls, ~Publish(c),
               \/ Check(c) \/ ClearTemp(c) \/ OpenSource(c) \/ Attach(c)
               \/ StartExport(c) \/ FinishExport(c) \/ Verify(c) \/ CopyBackup(c)
               \/ RenameBackup(c) \/ Fail(c) \/ Crash(c)
        PROVE  UNCHANGED <<Stored, BackedUp>>
    <3>1. content[path] \in PlainText
      BY <1>2, <2>4 DEF Inv, Progress, Check, ClearTemp, OpenSource, Attach, StartExport,
         FinishExport, Verify, CopyBackup, RenameBackup, Fail, Crash, Step
    <3>2. path' = path
      BY <2>4 DEF Check, ClearTemp, OpenSource, Attach, StartExport,
         FinishExport, Verify, CopyBackup, RenameBackup, Fail, Crash
    <3>3. content'[path] \in PlainText
      <4>1. CASE content' = content
        BY <3>1, <4>1
      <4>2. CASE OpenSource(c)
        BY <1>2, <4>2 DEF OpenSource, Inv, TypeOK, PlainText
      <4>3. CASE Attach(c) \/ Verify(c)
        BY <1>2, <3>1, <4>3, FilesAssumption
           DEF Attach, Verify, Opening, Free, InUse, Inv, TypeOK, NamesApart
      <4>4. CASE StartExport(c) \/ FinishExport(c)
        BY <1>2, <3>1, <4>4
           DEF StartExport, FinishExport, Step, Inv, TypeOK, NamesApart, Progress
      <4>5. CASE RenameBackup(c)
        BY <1>2, <3>1, <4>5 DEF RenameBackup, Free, InUse, Inv, TypeOK
      <4>. QED BY <2>4, <4>1, <4>2, <4>3, <4>4, <4>5
               DEF Check, ClearTemp, CopyBackup, Fail, Crash
    <3>. QED BY <3>1, <3>2, <3>3 DEF Stored, BackedUp, PlainText
  <2>. QED BY <1>2, <2>1, <2>2, <2>3, <2>4 DEF Next
<1>3. Atomic!Spec <=> Atomic!Init /\ [][Atomic!Encrypt \/ Atomic!RemoveBackup]_<<Stored, BackedUp>>
  BY DEF Atomic!Spec, Stored, BackedUp
<1>. QED BY <1>1, <1>2, <1>3, AloneInvariant, PTL DEF Spec, EncryptsAtomically

\* With one call at a time, a call that returns an error leaves the source in
\* place and nothing in the way of the next attempt (the deferred function of
\* MigratePlaintextToEncrypted).
THEOREM FailuresLeaveSource == MaxRunning = 1 /\ Spec => FailureLeavesSource
<1>. DEFINE Clean(c) == call[c].at # "idle" /\ call'[c].returned = "error" =>
                            /\ path' = path /\ content'[path] \in PlainText
                            /\ bak' = NoFile
                            /\ call[c].at # "clear" => tmp' = NoFile
<1>1. ASSUME Inv, [Next]_vars PROVE [\A c \in Calls : Clean(c)]_vars
  <2>1. ASSUME NEW c \in Calls, Fail(c), NEW d \in Calls PROVE Clean(d)
    <3>1. CASE d = c
      BY <1>1, <2>1, <3>1 DEF Inv, TypeOK, Progress, Fail
    <3>2. CASE d # c
      BY <1>1, <2>1, <3>2, OthersIdle DEF Fail
    <3>. QED BY <3>1, <3>2
  <2>2. ASSUME NEW c \in Calls,
               \/ Check(c) \/ ClearTemp(c) \/ OpenSource(c) \/ Attach(c)
               \/ StartExport(c) \/ FinishExport(c) \/ Verify(c) \/ CopyBackup(c)
               \/ RenameBackup(c) \/ Publish(c) \/ Crash(c),
               NEW d \in Calls, call[d].at # "idle"
        PROVE  call'[d].returned # "error"
    <3>1. call[d].returned = "none" /\ call \in [Calls -> Call]
      BY <1>1, <2>2 DEF Inv, TypeOK, Progress
    <3>. QED
      BY <2>2, <3>1 DEF Check, ClearTemp, OpenSource, Attach, StartExport, FinishExport,
         Verify, CopyBackup, RenameBackup, Publish, Crash, Step, Idle, Call
  <2>3. ASSUME RemoveBackup, NEW d \in Calls PROVE Clean(d)
    BY <2>3 DEF RemoveBackup, Running
  <2>. QED BY <1>1, <2>1, <2>2, <2>3 DEF Next
<1>. QED BY <1>1, AloneInvariant, PTL DEF Spec, FailureLeavesSource

=============================================================================
