----------------------------- MODULE StateFiles -----------------------------
(***************************************************************************)
(* The files of the server and of the command line: last.json in the data  *)
(* directory, written by _atomic_write_text and read by safe_load_json,    *)
(* and the configuration that says which directory that is                 *)
(* (routes_config.py, config.py).                                          *)
(*                                                                         *)
(* Three copies of the configuration matter: the file, the one that        *)
(* create_app captured for the loops, and app.state.config, which the      *)
(* handlers use and PUT /config replaces.  PUT /config and                 *)
(* GET /api/reconcile/last are plain functions, so they run in a thread    *)
(* pool beside the event loop; runs of reconciliation are coroutines,      *)
(* which write their files without an await.                               *)
(*                                                                         *)
(* A configuration is abstracted to its data_dir.  The update of the       *)
(* config file itself (robotsix_config) is external and one step.          *)
(*                                                                         *)
(* The text of a file is synced before os.replace; the directory is not    *)
(* after it, so a power loss may undo replacements until the system has    *)
(* written the directory back.                                             *)
(***************************************************************************)
CONSTANTS
  Dir,      \* data directories
  Text,     \* results that runs write to last.json
  Server,   \* names for the runs in the server
  Command,  \* names for the runs of the command line
  Handler,  \* names for the handlers of PUT /config and POST /config/rollback
  Reader,   \* names for the handlers of GET /api/reconcile/last
  Torn,     \* what is left of a text that had not reached the disk
  None      \* absent

Writer == Server \cup Command

ASSUME WriterAssumption == Server \cap Command = {}
ASSUME TornAssumption == Torn \notin Text
ASSUME NoneAssumption == None \notin Dir \cup Text \cup {Torn} \cup [text : Text \cup {Torn}, durable : BOOLEAN]

VARIABLES
  disk,     \* last.json in each directory
  kept,     \* earlier files of that name, still the directory's on the disk
  write,    \* the runs under way, and how far their write has come
  read,     \* directory whose file a reader has found to exist
  saved,    \* data_dir in the config file
  startup,  \* data_dir captured by create_app
  live,     \* data_dir in app.state.config
  put,      \* updates saved to the file and not yet published
  crossed   \* history: the last update was saved while another was pending

vars == <<disk, kept, write, read, saved, startup, live, put, crossed>>
files == <<disk, kept>>
config == <<saved, startup, live, put, crossed>>

-----------------------------------------------------------------------------
Idle == [pc |-> "idle", dir |-> None, text |-> None]

\* In a run; and in _atomic_write_text: the temporary file is made, written,
\* synced, has replaced the target.
Pc == {"idle", "run", "temp", "written", "synced", "replaced"}
Writing == {"temp", "written", "synced"}

Content == [text : Text \cup {Torn}, durable : BOOLEAN]

Init ==
  /\ disk = [d \in Dir |-> None]
  /\ kept = [d \in Dir |-> {}]
  /\ write = [w \in Writer |-> Idle]
  /\ read = [r \in Reader |-> None]
  /\ saved \in Dir
  /\ startup = saved
  /\ live = saved
  /\ put = [h \in Handler |-> None]
  /\ crossed = FALSE

-----------------------------------------------------------------------------
(* A run and its write.                                                    *)

\* The directory a run will write to: the loop's runs go by the configuration
\* of the start, a request's run by the published one, a command reads the file.
DirsOf(w) == IF w \in Command THEN {saved} ELSE {startup, live}

Begin(w) ==
  /\ write[w] = Idle
  /\ \E d \in DirsOf(w), t \in Text :
       write' = [write EXCEPT ![w] = [pc |-> "run", dir |-> d, text |-> t]]
  /\ UNCHANGED <<files, read, config>>

Step(w, from, to) ==
  /\ write[w].pc = from
  /\ write' = [write EXCEPT ![w].pc = to]

\* Mutant: the target itself is opened for writing.
MakeTempInPlace(w) ==
  /\ Step(w, "run", "temp")
  /\ disk' = [disk EXCEPT ![write[w].dir] = [text |-> Torn, durable |-> FALSE]]
  /\ UNCHANGED <<kept, read, config>>

\* mkstemp, in the directory of the target and under a name of its own.  One
\* event loop: no run of the server begins to write before another's return.
MakeTemp(w) ==
  /\ w \in Server => \A v \in Server : write[v].pc \notin Writing \cup {"replaced"}
  /\ Step(w, "run", "temp")
  /\ UNCHANGED <<files, read, config>>

\* write and flush
WriteText(w) ==
  /\ Step(w, "temp", "written")
  /\ UNCHANGED <<files, read, config>>

Fsync(w) ==
  /\ Step(w, "written", "synced")
  /\ UNCHANGED <<files, read, config>>

\* The target's place is taken by a new file; until the system writes the
\* directory back, the disk has an earlier one, or none, by that name.
Put(d, file) ==
  /\ disk' = [disk EXCEPT ![d] = file]
  /\ kept' = [kept EXCEPT ![d] = @ \cup {disk[d]}]

\* Mutant: the file is not synced before it takes the target's place.
ReplaceUnsynced(w) ==
  /\ Step(w, "written", "replaced")
  /\ Put(write[w].dir, [text |-> write[w].text, durable |-> FALSE])
  /\ UNCHANGED <<read, config>>

\* os.replace
Replace(w) ==
  /\ Step(w, "synced", "replaced")
  /\ Put(write[w].dir, [text |-> write[w].text, durable |-> TRUE])
  /\ UNCHANGED <<read, config>>

\* The system writes a directory back.
Settle(d) ==
  /\ kept[d] # {}
  /\ kept' = [kept EXCEPT ![d] = {}]
  /\ UNCHANGED <<disk, write, read, config>>

Return(w) ==
  /\ write[w].pc = "replaced"
  /\ write' = [write EXCEPT ![w] = Idle]
  /\ UNCHANGED <<files, read, config>>

\* An exception, before or inside the write: the temporary file is removed, or
\* stays if that fails too, and the run ends.
Fail(w) ==
  /\ write[w].pc \in Writing \cup {"run"}
  /\ write' = [write EXCEPT ![w] = Idle]
  /\ UNCHANGED <<files, read, config>>

-----------------------------------------------------------------------------
(* GET /api/reconcile/last.                                                *)

\* safe_load_json asks first whether the file exists; if not, it returns its
\* default and this step changes nothing.
Look(r) ==
  /\ read[r] = None
  /\ disk[live] # None
  /\ read' = [read EXCEPT ![r] = live]
  /\ UNCHANGED <<files, write, config>>

\* read_text and json.loads
Read(r) ==
  /\ read[r] # None
  /\ read' = [read EXCEPT ![r] = None]
  /\ UNCHANGED <<files, write, config>>

-----------------------------------------------------------------------------
(* PUT /config and POST /config/rollback.                                  *)

Pending == {h \in Handler : put[h] # None}

\* Mutant: nothing is published after a save.
SaveOnly(h, d) ==
  /\ put[h] = None
  /\ saved' = d
  /\ crossed' = (Pending # {})
  /\ UNCHANGED <<put, startup, live, files, write, read>>

\* apply_update or rollback: the merged configuration is in the file.  A refused
\* update (422) changes nothing.
Save(h, d) ==
  /\ put[h] = None
  /\ saved' = d
  /\ put' = [put EXCEPT ![h] = d]
  /\ crossed' = (Pending # {})
  /\ UNCHANGED <<startup, live, files, write, read>>

\* Mutant: a handler whose update was refused publishes too.
PublishRefused(h) ==
  /\ live' = put[h]
  /\ put' = [put EXCEPT ![h] = None]
  /\ UNCHANGED <<saved, startup, crossed, files, write, read>>

\* _reload_app_config
Publish(h) ==
  /\ put[h] # None
  /\ live' = put[h]
  /\ put' = [put EXCEPT ![h] = None]
  /\ UNCHANGED <<saved, startup, crossed, files, write, read>>

-----------------------------------------------------------------------------
(* Crashes.                                                                *)

\* The processes of the writers W are gone.
Gone(W) == write' = [w \in Writer |-> IF w \in W THEN Idle ELSE write[w]]

\* create_app loads the file.
Restarted ==
  /\ startup' = saved
  /\ live' = saved
  /\ crossed' = FALSE
  /\ put' = [h \in Handler |-> None]
  /\ read' = [r \in Reader |-> None]
  /\ UNCHANGED saved

ServerDies ==
  /\ Gone(Server)
  /\ Restarted
  /\ UNCHANGED files

CommandDies(c) ==
  /\ Gone({c})
  /\ UNCHANGED <<files, read, config>>

\* What is left of a file: what had not been synced is lost.
Left(file) ==
  IF file = None \/ file.durable THEN file ELSE [text |-> Torn, durable |-> TRUE]

\* The files that a directory may have after a power loss.
Survivors(d) == {Left(file) : file \in kept[d] \cup {disk[d]}}

PowerLoss ==
  /\ Gone(Writer)
  /\ Restarted
  /\ disk' \in [Dir -> UNION {Survivors(d) : d \in Dir}]
  /\ \A d \in Dir : disk'[d] \in Survivors(d)
  /\ kept' = [d \in Dir |-> {}]

Next ==
  \/ \E w \in Writer :
       \/ Begin(w) \/ MakeTemp(w) \/ WriteText(w) \/ Fsync(w) \/ Replace(w)
       \/ Return(w) \/ Fail(w)
  \/ \E d \in Dir : Settle(d)
  \/ \E r \in Reader : Look(r) \/ Read(r)
  \/ \E h \in Handler : Publish(h) \/ \E d \in Dir : Save(h, d)
  \/ ServerDies
  \/ \E c \in Command : CommandDies(c)
  \/ PowerLoss

Spec == Init /\ [][Next]_vars

-----------------------------------------------------------------------------
(* Properties.                                                             *)

TypeOK ==
  /\ disk \in [Dir -> Content \cup {None}]
  /\ kept \in [Dir -> SUBSET (Content \cup {None})]
  /\ write \in [Writer -> [pc : Pc \ {"idle"}, dir : Dir, text : Text] \cup {Idle}]
  /\ read \in [Reader -> Dir \cup {None}]
  /\ saved \in Dir
  /\ startup \in Dir
  /\ live \in Dir
  /\ put \in [Handler -> Dir \cup {None}]
  /\ crossed \in BOOLEAN

\* reconcile.py:49-50: a crash "leaves the previous file content intact instead
\* of a truncated file".  Every file that is last.json, or may be it again after
\* a power loss, holds one write's text, whole and on the disk, whatever fails
\* or is written at the same time; and a file that a reader saw exist does not
\* go away, so it never falls back to its default (reconcile.py:302-307).
FilesAreWhole ==
  /\ \A d \in Dir : \A file \in kept[d] \cup {disk[d]} :
       file # None => file.text \in Text /\ file.durable
  /\ \A r \in Reader : read[r] # None => disk[read[r]] # None

\* routes_config.py:59-65: _reload_app_config publishes what was saved, or
\* "every handler keeps serving" an older configuration "until the container
\* restarts".  Each update saves and publishes in two steps, so this does not
\* hold of two that run at once: the one that saved first may publish last.
SavesTakeEffect == Pending = {} => live = saved

\* What holds: once no update is pending app.state.config is the file's
\* configuration, unless the last update was saved while another was pending.
LiveIsSaved == Pending = {} /\ ~ crossed => live = saved

\* config.py:118-119: "The stored result drives the dashboard warning banner."
\* A run in the server writes where the banner's handler reads.  The handler
\* goes by app.state.config and the loop by the configuration of the start, so
\* this does not hold after an update of data_dir.
BannerFollowsRuns ==
  [][\A w \in Server : write[w] = Idle /\ write'[w] # Idle => write'[w].dir = live]_vars

\* The writes of last.json as atomic ones: what the files hold, ...
TextOf(file) == IF file = None THEN None ELSE file.text
Texts == [d \in Dir |-> TextOf(disk[d])]

\* ... what a power loss may bring back, ...
Earlier == [d \in Dir |-> {TextOf(file) : file \in kept[d]}]

\* ... and the calls of _atomic_write_text that are under way.
CallFor(run) ==
  IF run.pc \in {"idle", "run"} THEN [pc |-> "idle", file |-> None, text |-> None]
  ELSE [pc |-> IF run.pc = "replaced" THEN "done" ELSE "called",
        file |-> run.dir, text |-> run.text]

Calls == [w \in Writer |-> CallFor(write[w])]

Atomic == INSTANCE AtomicFile WITH File <- Dir, content <- Texts, earlier <- Earlier, op <- Calls

\* _atomic_write_text keeps its promise: every write of last.json takes effect
\* once, between its call and its return, or not at all if it fails or dies
\* before, and a power loss takes back recent writes whole (AtomicFile).
WritesAreAtomic == Atomic!Spec

=============================================================================
