--------------------------- MODULE StateFilesProofs ---------------------------
(***************************************************************************)
(* Proofs about StateFiles, for any number of directories, texts, runs,    *)
(* handlers and readers: files stay whole and writes are atomic, also when *)
(* a power loss takes recent ones back, and the published configuration is *)
(* the saved one as far as the code makes it.                              *)
(*                                                                         *)
(* What LiveIsSaved needs beside itself is that, unless updates crossed,   *)
(* the one update that may be pending is the saved one.                    *)
(***************************************************************************)
EXTENDS StateFiles, TLAPS

\* Unless updates crossed, at most one is pending, and it is in the file.
PendingIsSaved ==
  ~ crossed => \A h \in Pending : put[h] = saved /\ \A g \in Pending : g = h

ConfigInv == PendingIsSaved /\ LiveIsSaved

IInv == TypeOK /\ FilesAreWhole /\ ConfigInv

\* A run under way: what a step of its write may change.
Active == [pc : Pc \ {"idle"}, dir : Dir, text : Text]

\* A step of a write leaves the run under way, with its directory and text.
LEMMA StepKeepsRun ==
  ASSUME TypeOK, NEW w \in Writer, NEW from, NEW to \in Pc \ {"idle"},
         Step(w, from, to), from # "idle"
  PROVE  /\ write[w] \in Active
         /\ write' = [write EXCEPT ![w] = [pc |-> to, dir |-> write[w].dir, text |-> write[w].text]]
         /\ write' \in [Writer -> Active \cup {Idle}]
<1>1. write[w] \in Active
  BY DEF TypeOK, Step, Idle, Active
<1>2. [write[w] EXCEPT !.pc = to] = [pc |-> to, dir |-> write[w].dir, text |-> write[w].text]
  BY <1>1 DEF Active
<1>3. write' = [write EXCEPT ![w] = [pc |-> to, dir |-> write[w].dir, text |-> write[w].text]]
  BY <1>2 DEF Step
<1>4. [pc |-> to, dir |-> write[w].dir, text |-> write[w].text] \in Active
  BY <1>1 DEF Active
<1> QED
  BY <1>1, <1>3, <1>4 DEF TypeOK, Active

\* A run that ends, by a return or an exception, is idle and nothing else.
LEMMA RunEnds ==
  ASSUME TypeOK, NEW w \in Writer, write' = [write EXCEPT ![w] = Idle]
  PROVE  /\ write' \in [Writer -> Active \cup {Idle}]
         /\ \A v \in Writer : write'[v] # Idle => write'[v] = write[v]
BY DEF TypeOK, Active

\* So are the runs of processes that are killed.
LEMMA RunsAreGone ==
  ASSUME TypeOK, NEW W \in SUBSET Writer, Gone(W)
  PROVE  /\ write' \in [Writer -> Active \cup {Idle}]
         /\ \A v \in Writer : write'[v] # Idle => v \notin W /\ write'[v] = write[v]
BY DEF TypeOK, Gone, Active

\* Steps that leave the configuration alone keep what is known of it.
LEMMA ConfigUntouched == IInv /\ UNCHANGED config => ConfigInv'
BY DEF IInv, config, ConfigInv, PendingIsSaved, LiveIsSaved, Pending

\* Steps that leave files and readers alone keep the files whole.
LEMMA FilesUntouched ==
  ASSUME IInv, UNCHANGED <<files, read>>
  PROVE  FilesAreWhole'
BY DEF IInv, FilesAreWhole, files

-----------------------------------------------------------------------------
(* The inductive invariant: the initial states and each action.            *)

\* At the start nothing is written, read or pending.
LEMMA InitIInv == Init => IInv
<1> SUFFICES ASSUME Init PROVE IInv
  OBVIOUS
<1>1. TypeOK
  BY DEF Init, TypeOK, Idle
<1>2. FilesAreWhole
  BY NoneAssumption DEF Init, FilesAreWhole
<1>3. ConfigInv
  BY DEF Init, ConfigInv, PendingIsSaved, LiveIsSaved, Pending
<1> QED BY <1>1, <1>2, <1>3 DEF IInv

\* A run begins, with a directory of some copy of the configuration.
LEMMA BeginKeepsIInv ==
  ASSUME IInv, NEW w \in Writer, Begin(w)
  PROVE  IInv'
<1> PICK d \in DirsOf(w), t \in Text :
      write' = [write EXCEPT ![w] = [pc |-> "run", dir |-> d, text |-> t]]
  BY DEF Begin
<1>1. d \in Dir
  BY DEF IInv, TypeOK, DirsOf
<1>2. TypeOK'
  <2>1. [pc |-> "run", dir |-> d, text |-> t] \in Active
    BY <1>1 DEF Active, Pc
  <2> QED BY <2>1 DEF IInv, TypeOK, Begin, config, Active, files
<1>3. FilesAreWhole'
  BY FilesUntouched DEF Begin
<1>4. ConfigInv'
  BY ConfigUntouched DEF Begin
<1> QED BY <1>2, <1>3, <1>4 DEF IInv

\* The steps of a write before it replaces the target touch nothing but it.
LEMMA TempKeepsIInv ==
  ASSUME IInv, NEW w \in Writer, NEW from \in Pc \ {"idle"}, NEW to \in Pc \ {"idle"},
         Step(w, from, to), UNCHANGED <<files, read, config>>
  PROVE  IInv'
<1>1. /\ write[w] \in Active
      /\ write' = [write EXCEPT ![w] = [pc |-> to, dir |-> write[w].dir, text |-> write[w].text]]
      /\ write' \in [Writer -> Active \cup {Idle}]
  BY StepKeepsRun DEF IInv
<1>2. TypeOK'
  BY <1>1 DEF IInv, TypeOK, config, Active, files
<1>3. FilesAreWhole'
  BY FilesUntouched
<1>4. ConfigInv'
  BY ConfigUntouched
<1> QED BY <1>2, <1>3, <1>4 DEF IInv

\* os.replace puts a text that has reached the disk in the target's place.
LEMMA ReplaceKeepsIInv ==
  ASSUME IInv, NEW w \in Writer, Replace(w)
  PROVE  IInv'
<1>1. /\ write[w] \in Active
      /\ write' = [write EXCEPT ![w] =
                     [pc |-> "replaced", dir |-> write[w].dir, text |-> write[w].text]]
      /\ write' \in [Writer -> Active \cup {Idle}]
  BY StepKeepsRun DEF IInv, Replace, Pc
<1> DEFINE new == [text |-> write[w].text, durable |-> TRUE]
<1>2. /\ write[w].dir \in Dir
      /\ write[w].text \in Text
      /\ new \in Content
      /\ new # None
  <2>1. write[w].dir \in Dir /\ write[w].text \in Text
    BY <1>1 DEF Active
  <2>2. new \in [text : Text \cup {Torn}, durable : BOOLEAN]
    BY <2>1
  <2> QED BY <2>1, <2>2, NoneAssumption DEF Content
<1>3. /\ disk' = [disk EXCEPT ![write[w].dir] = new]
      /\ kept' = [kept EXCEPT ![write[w].dir] = @ \cup {disk[write[w].dir]}]
      /\ UNCHANGED <<read, config>>
  BY DEF Replace, Put
<1> HIDE DEF new
<1>4. /\ \A d \in Dir : disk'[d] = IF d = write[w].dir THEN new ELSE disk[d]
      /\ \A d \in Dir : kept'[d] = IF d = write[w].dir THEN kept[d] \cup {disk[d]} ELSE kept[d]
  BY <1>2, <1>3 DEF IInv, TypeOK
<1>5. TypeOK'
  <2>1. disk' \in [Dir -> Content \cup {None}]
    BY <1>2, <1>3 DEF IInv, TypeOK
  <2>2. kept' \in [Dir -> SUBSET (Content \cup {None})]
    BY <1>2, <1>3 DEF IInv, TypeOK
  <2> QED BY <1>1, <1>3, <2>1, <2>2 DEF IInv, TypeOK, config, Active
<1>6. FilesAreWhole'
  <2>1. new.text \in Text /\ new.durable
    BY <1>2 DEF new
  <2>2. \A r \in Reader : read[r] # None => read[r] \in Dir
    BY DEF IInv, TypeOK
  <2>3. \A d \in Dir : \A file \in kept'[d] \cup {disk'[d]} :
          file = new \/ file \in kept[d] \cup {disk[d]}
    BY <1>4
  <2>4. \A d \in Dir : \A file \in kept'[d] \cup {disk'[d]} :
          file # None => file.text \in Text /\ file.durable
    BY <2>1, <2>3 DEF IInv, FilesAreWhole
  <2>5. \A r \in Reader : read'[r] # None => disk'[read'[r]] # None
    BY <1>2, <1>3, <1>4, <2>2 DEF IInv, FilesAreWhole
  <2> QED BY <2>4, <2>5 DEF FilesAreWhole
<1>7. ConfigInv'
  BY <1>3, ConfigUntouched
<1> QED BY <1>5, <1>6, <1>7 DEF IInv

\* Once a directory is written back, fewer files may come back.
LEMMA SettleKeepsIInv ==
  ASSUME IInv, NEW d \in Dir, Settle(d)
  PROVE  IInv'
<1>1. /\ UNCHANGED <<disk, write, read, config>>
      /\ \A e \in Dir : kept'[e] = IF e = d THEN {} ELSE kept[e]
      /\ kept' \in [Dir -> SUBSET (Content \cup {None})]
  BY DEF Settle, IInv, TypeOK
<1>2. TypeOK'
  BY <1>1 DEF IInv, TypeOK, config
<1>3. FilesAreWhole'
  BY <1>1 DEF IInv, FilesAreWhole
<1>4. ConfigInv'
  BY <1>1, ConfigUntouched
<1> QED BY <1>2, <1>3, <1>4 DEF IInv

\* Runs end: one by one, or with their process.
LEMMA EndKeepsIInv ==
  ASSUME IInv, UNCHANGED <<files, read, config>>,
         write' \in [Writer -> Active \cup {Idle}],
         \A v \in Writer : write'[v] # Idle => write'[v] = write[v]
  PROVE  IInv'
<1>1. TypeOK'
  BY DEF IInv, TypeOK, config, Active, files
<1>2. FilesAreWhole'
  BY FilesUntouched
<1>3. ConfigInv'
  BY ConfigUntouched
<1> QED BY <1>1, <1>2, <1>3 DEF IInv

\* A reader has found the file to exist, or is done with it.
LEMMA ReaderKeepsIInv ==
  ASSUME IInv, NEW r \in Reader, Look(r) \/ Read(r)
  PROVE  IInv'
<1>1. UNCHANGED <<files, write, config>>
  BY DEF Look, Read
<1>2. TypeOK'
  BY <1>1 DEF IInv, TypeOK, Look, Read, config, files
<1>3. FilesAreWhole'
  BY <1>1 DEF IInv, TypeOK, FilesAreWhole, Look, Read, files
<1>4. ConfigInv'
  BY <1>1, ConfigUntouched
<1> QED BY <1>2, <1>3, <1>4 DEF IInv

\* An update is saved: if another one is pending the two have crossed.
LEMMA SaveKeepsIInv ==
  ASSUME IInv, NEW h \in Handler, NEW d \in Dir, Save(h, d)
  PROVE  IInv'
<1>1. UNCHANGED <<files, write, read, startup, live>>
  BY DEF Save
<1>2. TypeOK'
  BY <1>1 DEF IInv, TypeOK, Save, files
<1>3. FilesAreWhole'
  BY <1>1, FilesUntouched
<1>4. d # None
  BY NoneAssumption
<1>5. /\ put' = [put EXCEPT ![h] = d]
      /\ put'[h] = d
      /\ \A g \in Handler \ {h} : put'[g] = put[g]
  BY DEF IInv, TypeOK, Save
<1>6. ConfigInv'
  <2>1. PendingIsSaved'
    BY <1>5 DEF Save, PendingIsSaved, Pending
  <2>2. LiveIsSaved'
    BY <1>4, <1>5 DEF LiveIsSaved, Pending
  <2> QED BY <2>1, <2>2 DEF ConfigInv
<1> QED BY <1>2, <1>3, <1>6 DEF IInv

\* A pending update is published: it is the saved one unless updates crossed.
LEMMA PublishKeepsIInv ==
  ASSUME IInv, NEW h \in Handler, Publish(h)
  PROVE  IInv'
<1>1. UNCHANGED <<files, write, read, saved, startup, crossed>>
  BY DEF Publish
<1>2. h \in Pending /\ put[h] \in Dir
  BY DEF IInv, TypeOK, Publish, Pending
<1>3. TypeOK'
  BY <1>1, <1>2 DEF IInv, TypeOK, Publish, files
<1>4. FilesAreWhole'
  BY <1>1, FilesUntouched
<1>5. /\ live' = put[h]
      /\ put'[h] = None
      /\ \A g \in Handler \ {h} : put'[g] = put[g]
  BY DEF IInv, TypeOK, Publish
<1>6. ConfigInv'
  <2>1. PendingIsSaved'
    BY <1>1, <1>5 DEF IInv, ConfigInv, PendingIsSaved, Pending
  <2>2. LiveIsSaved'
    BY <1>1, <1>2, <1>5 DEF IInv, ConfigInv, PendingIsSaved, LiveIsSaved
  <2> QED BY <2>1, <2>2 DEF ConfigInv
<1> QED BY <1>3, <1>4, <1>6 DEF IInv

\* The server starts again, with no run, no update and no reader left.
LEMMA RestartKeepsIInv ==
  ASSUME IInv, NEW W \in SUBSET Writer, Gone(W), Restarted,
         disk' \in [Dir -> Content \cup {None}],
         kept' \in [Dir -> SUBSET (Content \cup {None})],
         \A d \in Dir : kept'[d] \cup {disk'[d]} \subseteq kept[d] \cup {disk[d]}
  PROVE  IInv'
<1>1. write' \in [Writer -> Active \cup {Idle}]
  BY RunsAreGone DEF IInv
<1>2. TypeOK'
  BY <1>1 DEF IInv, TypeOK, Restarted, Active
<1>3. FilesAreWhole'
  BY DEF IInv, FilesAreWhole, Restarted
<1>4. ConfigInv'
  BY DEF Restarted, ConfigInv, PendingIsSaved, LiveIsSaved, Pending
<1> QED BY <1>2, <1>3, <1>4 DEF IInv

\* A power loss leaves each directory one of the files it had, as it was.
LEMMA PowerLossTakesBack ==
  ASSUME IInv, PowerLoss
  PROVE  /\ disk' \in [Dir -> Content \cup {None}]
         /\ kept' = [d \in Dir |-> {}]
         /\ \A d \in Dir : disk'[d] \in kept[d] \cup {disk[d]}
<1>1. /\ disk \in [Dir -> Content \cup {None}]
      /\ kept \in [Dir -> SUBSET (Content \cup {None})]
  BY DEF IInv, TypeOK
<1>2. \A d \in Dir : \A file \in kept[d] \cup {disk[d]} : Left(file) = file
  BY DEF IInv, FilesAreWhole, Left
<1>3. \A d \in Dir : Survivors(d) = kept[d] \cup {disk[d]}
  BY <1>2 DEF Survivors
<1>4. DOMAIN disk' = Dir /\ disk' = [d \in Dir |-> disk'[d]]
  BY DEF PowerLoss
<1>5. \A d \in Dir : disk'[d] \in kept[d] \cup {disk[d]}
  BY <1>3 DEF PowerLoss
<1>6. \A d \in Dir : disk'[d] \in Content \cup {None}
  BY <1>1, <1>5
<1>7. disk' \in [Dir -> Content \cup {None}]
  BY <1>4, <1>6
<1> QED BY <1>5, <1>7 DEF PowerLoss

-----------------------------------------------------------------------------
(* The theorems.                                                           *)

\* One case per action.
LEMMA NextIInv == IInv /\ [Next]_vars => IInv'
<1> SUFFICES ASSUME IInv, [Next]_vars PROVE IInv'
  OBVIOUS
<1>1. CASE \E w \in Writer :
             \/ Begin(w) \/ MakeTemp(w) \/ WriteText(w) \/ Fsync(w) \/ Replace(w)
             \/ Return(w) \/ Fail(w)
  <2> PICK w \in Writer :
         \/ Begin(w) \/ MakeTemp(w) \/ WriteText(w) \/ Fsync(w) \/ Replace(w)
         \/ Return(w) \/ Fail(w)
    BY <1>1
  <2>1. CASE Begin(w)
    BY <2>1, BeginKeepsIInv
  <2>2. CASE MakeTemp(w)
    BY <2>2, TempKeepsIInv DEF MakeTemp, Pc
  <2>3. CASE WriteText(w)
    BY <2>3, TempKeepsIInv DEF WriteText, Pc
  <2>4. CASE Fsync(w)
    BY <2>4, TempKeepsIInv DEF Fsync, Pc
  <2>5. CASE Replace(w)
    BY <2>5, ReplaceKeepsIInv
  <2>6. CASE Return(w) \/ Fail(w)
    <3>1. write' = [write EXCEPT ![w] = Idle] /\ UNCHANGED <<files, read, config>>
      BY <2>6 DEF Return, Fail
    <3>2. /\ write' \in [Writer -> Active \cup {Idle}]
          /\ \A v \in Writer : write'[v] # Idle => write'[v] = write[v]
      BY <3>1, RunEnds DEF IInv
    <3> QED BY <3>1, <3>2, EndKeepsIInv
  <2> QED BY <2>1, <2>2, <2>3, <2>4, <2>5, <2>6
<1>2. CASE \E r \in Reader : Look(r) \/ Read(r)
  BY <1>2, ReaderKeepsIInv
<1>3. CASE \E h \in Handler : Publish(h) \/ \E d \in Dir : Save(h, d)
  BY <1>3, PublishKeepsIInv, SaveKeepsIInv
<1>4. CASE ServerDies
  <2>1. Server \in SUBSET Writer /\ Gone(Server) /\ Restarted /\ disk' = disk /\ kept' = kept
    BY <1>4 DEF ServerDies, Writer, files
  <2>2. /\ disk \in [Dir -> Content \cup {None}]
        /\ kept \in [Dir -> SUBSET (Content \cup {None})]
    BY DEF IInv, TypeOK
  <2> QED BY <2>1, <2>2, RestartKeepsIInv
<1>5. CASE \E c \in Command : CommandDies(c)
  <2> PICK c \in Command : CommandDies(c)
    BY <1>5
  <2>1. {c} \in SUBSET Writer /\ Gone({c}) /\ UNCHANGED <<files, read, config>>
    BY DEF CommandDies, Writer
  <2>2. /\ write' \in [Writer -> Active \cup {Idle}]
        /\ \A v \in Writer : write'[v] # Idle => write'[v] = write[v]
    BY <2>1, RunsAreGone DEF IInv
  <2> QED BY <2>1, <2>2, EndKeepsIInv
<1>6. CASE PowerLoss
  <2>1. Gone(Writer) /\ Restarted
    BY <1>6 DEF PowerLoss
  <2>2. /\ disk' \in [Dir -> Content \cup {None}]
        /\ kept' = [d \in Dir |-> {}]
        /\ \A d \in Dir : disk'[d] \in kept[d] \cup {disk[d]}
    BY <1>6, PowerLossTakesBack
  <2> QED BY <2>1, <2>2, RestartKeepsIInv
<1>7. CASE UNCHANGED vars
  <2>1. UNCHANGED <<files, write, read, config>>
    BY <1>7 DEF vars, config, files
  <2>2. TypeOK'
    BY <2>1 DEF IInv, TypeOK, config, files
  <2>3. FilesAreWhole'
    BY <2>1, FilesUntouched
  <2>4. ConfigInv'
    BY <2>1, ConfigUntouched
  <2> QED BY <2>2, <2>3, <2>4 DEF IInv
<1>8. CASE \E d \in Dir : Settle(d)
  BY <1>8, SettleKeepsIInv
<1> QED BY <1>1, <1>2, <1>3, <1>4, <1>5, <1>6, <1>7, <1>8 DEF Next

\* The invariant holds in every state.
LEMMA Invariance == Spec => []IInv
BY InitIInv, NextIInv, PTL DEF Spec

\* Every run writes a known text to a known directory, and the copies of the
\* configuration name known directories.
THEOREM TypeCorrect == Spec => []TypeOK
<1>1. IInv => TypeOK
  BY DEF IInv
<1> QED BY <1>1, Invariance, PTL

\* Whatever fails, dies or loses power in the middle of _atomic_write_text
\* (reconcile.py:46-73), a file of last.json is whole and on the disk, and one
\* that a reader found to exist stays.
THEOREM WholeFiles == Spec => []FilesAreWhole
<1>1. IInv => FilesAreWhole
  BY DEF IInv
<1> QED BY <1>1, Invariance, PTL

\* However many updates run at once, app.state.config is the file's
\* configuration when none is pending and the last one crossed no other
\* (routes_config.py:59-68, 106-110).
THEOREM PublishedIsSaved == Spec => []LiveIsSaved
<1>1. IInv => LiveIsSaved
  BY DEF IInv, ConfigInv
<1> QED BY <1>1, Invariance, PTL

-----------------------------------------------------------------------------
(* The writes refine the atomic ones of AtomicFile.                        *)

\* At the start no file exists and no call is under way.
LEMMA InitRefines == Init => Atomic!Init
BY DEF Init, Atomic!Init, Texts, TextOf, Earlier, Calls, CallFor, Idle, Atomic!Idle

\* What the call of w is, by how far its write has come.
LEMMA CallOf ==
  ASSUME NEW w \in Writer
  PROVE  /\ write[w].pc \in {"idle", "run"} => Calls[w] = Atomic!Idle
         /\ write[w].pc \in Writing =>
              Calls[w] = [pc |-> "called", file |-> write[w].dir, text |-> write[w].text]
         /\ write[w].pc = "replaced" =>
              Calls[w] = [pc |-> "done", file |-> write[w].dir, text |-> write[w].text]
BY DEF Calls, CallFor, Writing, Atomic!Idle

\* So the call changes with the run.
LEMMA CallsChange ==
  ASSUME TypeOK, NEW w \in Writer, NEW pc, NEW dir, NEW text,
         write' = [write EXCEPT ![w] = [pc |-> pc, dir |-> dir, text |-> text]]
  PROVE  /\ pc \in {"idle", "run"} => Calls' = [Calls EXCEPT ![w] = Atomic!Idle]
         /\ pc \in Writing =>
              Calls' = [Calls EXCEPT ![w] = [pc |-> "called", file |-> dir, text |-> text]]
         /\ pc = "replaced" =>
              Calls' = [Calls EXCEPT ![w] = [pc |-> "done", file |-> dir, text |-> text]]
<1> DEFINE run == [pc |-> pc, dir |-> dir, text |-> text]
<1>1. /\ pc \in {"idle", "run"} => CallFor(run) = Atomic!Idle
      /\ pc \in Writing => CallFor(run) = [pc |-> "called", file |-> dir, text |-> text]
      /\ pc = "replaced" => CallFor(run) = [pc |-> "done", file |-> dir, text |-> text]
  BY DEF CallFor, Writing, Atomic!Idle
<1>2. \A v \in Writer : write'[v] = IF v = w THEN run ELSE write[v]
  BY DEF TypeOK
<1> HIDE DEF run
<1>3. Calls = [v \in Writer |-> CallFor(write[v])]
      /\ Calls' = [v \in Writer |-> CallFor(write'[v])]
  BY DEF Calls, CallFor
<1>4. Calls' = [Calls EXCEPT ![w] = CallFor(run)]
  BY <1>2, <1>3
<1> QED BY <1>1, <1>4

\* Steps that leave the files alone leave the texts alone.
LEMMA SameFilesSameTexts == UNCHANGED files => UNCHANGED <<Texts, Earlier>>
BY DEF Texts, Earlier, files

\* Making the temporary file is the call.
LEMMA MakeTempRefines ==
  ASSUME IInv, NEW w \in Writer, MakeTemp(w)
  PROVE  Atomic!Next
<1>1. /\ write[w] \in Active
      /\ write' = [write EXCEPT ![w] = [pc |-> "temp", dir |-> write[w].dir, text |-> write[w].text]]
  BY StepKeepsRun DEF IInv, MakeTemp, Pc
<1>2. Calls[w] = Atomic!Idle
  BY CallOf DEF MakeTemp, Step
<1>3. Calls' = [Calls EXCEPT ![w] =
                  [pc |-> "called", file |-> write[w].dir, text |-> write[w].text]]
  <2>1. TypeOK /\ "temp" \in Writing
    BY DEF IInv, Writing
  <2> QED BY <1>1, <2>1, CallsChange, ZenonT(60)
<1>4. write[w].dir \in Dir /\ write[w].text \in Text
  BY <1>1 DEF Active
<1>5. UNCHANGED <<Texts, Earlier>>
  BY SameFilesSameTexts DEF MakeTemp
<1>6. Atomic!Call(w, write[w].dir, write[w].text)
  BY <1>2, <1>3, <1>5 DEF Atomic!Call
<1> QED BY <1>4, <1>6 DEF Atomic!Next

\* Writing and syncing the temporary file are no steps of the call.
LEMMA TempStutters ==
  ASSUME IInv, NEW w \in Writer, WriteText(w) \/ Fsync(w)
  PROVE  UNCHANGED <<Texts, Earlier, Calls>>
<1>1. PICK from \in {"temp", "written"}, to \in {"written", "synced"} : Step(w, from, to)
  BY DEF WriteText, Fsync
<1>2. /\ write[w] \in Active
      /\ write' = [write EXCEPT ![w] = [pc |-> to, dir |-> write[w].dir, text |-> write[w].text]]
  BY <1>1, StepKeepsRun DEF IInv, Pc
<1>3. Calls' = [Calls EXCEPT ![w] =
                  [pc |-> "called", file |-> write[w].dir, text |-> write[w].text]]
  BY <1>2, CallsChange DEF IInv, Writing
<1>4. Calls[w] = [pc |-> "called", file |-> write[w].dir, text |-> write[w].text]
  BY <1>1, CallOf DEF Step, Writing
<1>5. UNCHANGED Calls
  BY <1>3, <1>4 DEF Calls
<1>6. UNCHANGED <<Texts, Earlier>>
  BY SameFilesSameTexts DEF WriteText, Fsync
<1> QED BY <1>5, <1>6

\* os.replace is the instant at which the call takes effect.
LEMMA ReplaceRefines ==
  ASSUME IInv, NEW w \in Writer, Replace(w)
  PROVE  Atomic!TakeEffect(w)
<1> DEFINE dir == write[w].dir
           text == write[w].text
<1>1. /\ write[w] \in Active
      /\ write' = [write EXCEPT ![w] = [pc |-> "replaced", dir |-> dir, text |-> text]]
  BY StepKeepsRun DEF IInv, Replace, Pc
<1>2. dir \in Dir /\ text \in Text
  BY <1>1 DEF Active
<1>3. Calls[w] = [pc |-> "called", file |-> dir, text |-> text]
  BY CallOf DEF Replace, Step, Writing
<1>4. Calls' = [Calls EXCEPT ![w] = [pc |-> "done", file |-> dir, text |-> text]]
  BY <1>1, CallsChange DEF IInv
<1>5. /\ Texts' = [Texts EXCEPT ![dir] = text]
      /\ Earlier' = [Earlier EXCEPT ![dir] = @ \cup {Texts[dir]}]
  <2> DEFINE new == [text |-> text, durable |-> TRUE]
  <2>1. /\ disk' = [disk EXCEPT ![dir] = new]
        /\ kept' = [kept EXCEPT ![dir] = @ \cup {disk[dir]}]
    BY DEF Replace, Put
  <2>2. new # None
    <3>1. new \in [text : Text \cup {Torn}, durable : BOOLEAN]
      BY <1>2
    <3> QED BY <3>1, NoneAssumption
  <2>3. \A d \in Dir : disk'[d] = IF d = dir THEN new ELSE disk[d]
    BY <1>2, <2>1 DEF IInv, TypeOK
  <2>4. TextOf(new) = text
    BY <2>2 DEF TextOf
  <2> HIDE DEF new
  <2>5. \A d \in Dir : Texts'[d] = IF d = dir THEN text ELSE Texts[d]
    BY <2>3, <2>4 DEF Texts
  <2>6. Texts' = [Texts EXCEPT ![dir] = text]
    BY <2>5, <1>2 DEF Texts
  <2>7. \A d \in Dir : kept'[d] = IF d = dir THEN kept[d] \cup {disk[d]} ELSE kept[d]
    BY <1>2, <2>1 DEF IInv, TypeOK
  <2>8. \A d \in Dir : Earlier'[d] = IF d = dir THEN Earlier[d] \cup {Texts[d]} ELSE Earlier[d]
    <3> SUFFICES ASSUME NEW d \in Dir
                 PROVE  Earlier'[d] = IF d = dir THEN Earlier[d] \cup {Texts[d]} ELSE Earlier[d]
      OBVIOUS
    <3>1. Earlier'[d] = {TextOf(file) : file \in kept'[d]}
      BY DEF Earlier, TextOf
    <3>2. Earlier[d] = {TextOf(file) : file \in kept[d]} /\ Texts[d] = TextOf(disk[d])
      BY DEF Earlier, Texts
    <3> HIDE DEF dir
    <3>3. CASE d = dir
      <4>1. kept'[d] = kept[d] \cup {disk[d]}
        BY <2>7, <3>3
      <4>2. {TextOf(file) : file \in kept[d] \cup {disk[d]}}
              = {TextOf(file) : file \in kept[d]} \cup {TextOf(disk[d])}
        OBVIOUS
      <4> QED BY <3>1, <3>2, <3>3, <4>1, <4>2, Zenon
    <3>4. CASE d # dir
      <4>1. kept'[d] = kept[d]
        BY <2>7, <3>4
      <4> QED BY <3>1, <3>2, <3>4, <4>1, Zenon
    <3> QED BY <3>3, <3>4
  <2>9. Earlier' = [Earlier EXCEPT ![dir] = @ \cup {Texts[dir]}]
    BY <2>8, <1>2 DEF Earlier
  <2> QED BY <2>6, <2>9
<1> HIDE DEF dir, text
<1>6. Calls' = [Calls EXCEPT ![w].pc = "done"]
  <2>1. [Calls[w] EXCEPT !.pc = "done"] = [pc |-> "done", file |-> dir, text |-> text]
    BY <1>3
  <2> QED BY <1>4, <2>1
<1>7. Calls[w].pc = "called" /\ Calls[w].file = dir /\ Calls[w].text = text
  BY <1>3
<1> QED BY <1>5, <1>6, <1>7 DEF Atomic!TakeEffect

\* A run ends: after its write has taken effect, before that, or before it.
LEMMA EndRefines ==
  ASSUME IInv, NEW w \in Writer, Return(w) \/ Fail(w)
  PROVE  Atomic!Next \/ UNCHANGED <<Texts, Earlier, Calls>>
<1>1. write' = [write EXCEPT ![w] = Idle] /\ UNCHANGED files
  BY DEF Return, Fail
<1>2. Calls' = [Calls EXCEPT ![w] = Atomic!Idle]
  BY <1>1, CallsChange DEF IInv, Idle
<1>3. UNCHANGED <<Texts, Earlier>>
  BY <1>1, SameFilesSameTexts
<1>4. CASE write[w].pc = "replaced"
  <2>1. Calls[w].pc = "done"
    <3>1. Calls[w] = [pc |-> "done", file |-> write[w].dir, text |-> write[w].text]
      BY <1>4, CallOf
    <3> QED BY <3>1
  <2> QED BY <2>1, <1>2, <1>3 DEF Atomic!Next, Atomic!Return
<1>5. CASE write[w].pc \in Writing
  <2>1. Calls[w].pc = "called"
    <3>1. Calls[w] = [pc |-> "called", file |-> write[w].dir, text |-> write[w].text]
      BY <1>5, CallOf
    <3> QED BY <3>1
  <2> QED BY <2>1, <1>2, <1>3 DEF Atomic!Next, Atomic!Fail
<1>6. CASE write[w].pc = "run"
  <2>1. Calls[w] = Atomic!Idle
    BY <1>6, CallOf
  <2> QED BY <2>1, <1>2, <1>3 DEF Calls
<1> QED BY <1>4, <1>5, <1>6 DEF Return, Fail

\* The calls of killed processes die with them.
LEMMA GoneRefines ==
  ASSUME IInv, NEW W \in SUBSET Writer, Gone(W), UNCHANGED files
  PROVE  Atomic!Next
<1>1. Calls' = [w \in Writer |-> IF w \in W THEN Atomic!Idle ELSE Calls[w]]
  BY DEF Gone, Calls, CallFor, Idle, Atomic!Idle
<1>2. UNCHANGED <<Texts, Earlier>>
  BY SameFilesSameTexts
<1>3. Atomic!Die(W)
  BY <1>1, <1>2 DEF Atomic!Die
<1> QED BY <1>3 DEF Atomic!Next

\* A power loss takes recent writes back.
LEMMA PowerLossRefines ==
  ASSUME IInv, PowerLoss
  PROVE  Atomic!LosePower
<1>1. /\ disk' \in [Dir -> Content \cup {None}]
      /\ kept' = [d \in Dir |-> {}]
      /\ \A d \in Dir : disk'[d] \in kept[d] \cup {disk[d]}
  BY PowerLossTakesBack
<1>2. Calls' = [w \in Writer |-> Atomic!Idle]
  BY DEF PowerLoss, Gone, Calls, CallFor, Idle, Atomic!Idle
<1>3. \A d \in Dir : Texts'[d] = TextOf(disk'[d]) /\ Texts[d] = TextOf(disk[d])
  BY DEF Texts, TextOf
<1>4. \A d \in Dir : Texts'[d] \in Earlier[d] \cup {Texts[d]}
  <2>1. \A d \in Dir : Earlier[d] = {TextOf(file) : file \in kept[d]}
    BY DEF Earlier
  <2> QED BY <1>1, <1>3, <2>1
<1>5. Texts' \in [Dir -> Text \cup {None}]
  <2>1. FilesAreWhole
    BY DEF IInv
  <2>2. \A d \in Dir : disk'[d] # None => disk'[d].text \in Text
    BY <1>1, <2>1 DEF FilesAreWhole
  <2>3. \A d \in Dir : Texts'[d] \in Text \cup {None}
    BY <1>3, <2>2 DEF TextOf
  <2>4. Texts' = [d \in Dir |-> Texts'[d]]
    BY DEF Texts
  <2> QED BY <2>3, <2>4
<1>6. Earlier' = [d \in Dir |-> {}]
  BY <1>1 DEF Earlier
<1> QED BY <1>2, <1>4, <1>5, <1>6 DEF Atomic!LosePower

\* A directory that is written back keeps what it holds.
LEMMA SettleRefines ==
  ASSUME IInv, NEW d \in Dir, Settle(d)
  PROVE  Atomic!Settle(d)
<1>1. UNCHANGED <<disk, write>> /\ kept' = [kept EXCEPT ![d] = {}]
  BY DEF Settle
<1>2. UNCHANGED <<Texts, Calls>>
  BY <1>1 DEF Texts, Calls
<1>3. \A e \in Dir : kept'[e] = IF e = d THEN {} ELSE kept[e]
  BY <1>1 DEF IInv, TypeOK
<1>4. \A e \in Dir : Earlier'[e] = IF e = d THEN {} ELSE Earlier[e]
  BY <1>3 DEF Earlier
<1>5. Earlier' = [Earlier EXCEPT ![d] = {}]
  BY <1>4 DEF Earlier
<1> QED BY <1>2, <1>5 DEF Atomic!Settle

\* Every step is a step of the atomic writes or none.
LEMMA NextRefines == IInv /\ [Next]_vars => [Atomic!Next]_(Atomic!vars)
<1> SUFFICES ASSUME IInv, [Next]_vars
             PROVE  Atomic!Next \/ UNCHANGED <<Texts, Earlier, Calls>>
  BY DEF Atomic!vars
<1>1. ASSUME NEW w \in Writer, Begin(w)
      PROVE  UNCHANGED <<Texts, Earlier, Calls>>
  <2>1. PICK d \in DirsOf(w), t \in Text :
          write' = [write EXCEPT ![w] = [pc |-> "run", dir |-> d, text |-> t]]
    BY <1>1 DEF Begin
  <2>2. Calls' = [Calls EXCEPT ![w] = Atomic!Idle]
    BY <2>1, CallsChange DEF IInv
  <2>3. Calls[w] = Atomic!Idle
    <3>1. write[w].pc = "idle"
      BY <1>1 DEF Begin, Idle
    <3> QED BY <3>1, CallOf
  <2>4. UNCHANGED Calls
    BY <2>2, <2>3 DEF Calls
  <2>5. UNCHANGED <<Texts, Earlier>>
    BY <1>1, SameFilesSameTexts DEF Begin
  <2> QED BY <2>4, <2>5
<1>2. ASSUME NEW w \in Writer, Replace(w)
      PROVE  Atomic!Next
  BY <1>2, ReplaceRefines DEF Atomic!Next
<1>3. ASSUME UNCHANGED <<files, write>>
      PROVE  UNCHANGED <<Texts, Earlier, Calls>>
  BY <1>3, SameFilesSameTexts DEF Calls
<1>4. CASE \E r \in Reader : Look(r) \/ Read(r)
  BY <1>3, <1>4 DEF Look, Read
<1>5. CASE \E h \in Handler : Publish(h) \/ \E d \in Dir : Save(h, d)
  BY <1>3, <1>5 DEF Publish, Save
<1>6. CASE ServerDies
  BY <1>6, GoneRefines DEF ServerDies, Writer
<1>7. CASE \E c \in Command : CommandDies(c)
  BY <1>7, GoneRefines DEF CommandDies, Writer
<1>8. CASE PowerLoss
  BY <1>8, PowerLossRefines DEF Atomic!Next
<1>9. CASE UNCHANGED vars
  BY <1>3, <1>9 DEF vars, files
<1>10. CASE \E d \in Dir : Settle(d)
  BY <1>10, SettleRefines DEF Atomic!Next
<1> QED
  BY <1>1, <1>2, <1>4, <1>5, <1>6, <1>7, <1>8, <1>9, <1>10, MakeTempRefines, TempStutters, EndRefines
  DEF Next

\* _atomic_write_text keeps its promise (reconcile.py:49-51) for any number of
\* writers in any number of processes: a write takes effect at one instant
\* between its call and its return, or, when it fails or dies, not at all; a
\* power loss takes recent writes back whole.
THEOREM AtomicWrites == Spec => WritesAreAtomic
<1>1. Spec => [][Atomic!Next]_(Atomic!vars)
  BY Invariance, NextRefines, PTL DEF Spec
<1>2. Spec => Atomic!Init
  BY InitRefines DEF Spec
<1> QED BY <1>1, <1>2 DEF WritesAreAtomic, Atomic!Spec

===============================================================================
